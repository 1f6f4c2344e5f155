-------------------------- MODULE FileAccessProofs --------------------------
(***************************************************************************)
(* How long bytes live in the read buffer, and what they are: the bytes of *)
(* the file, whatever the client does to it.                               *)
(***************************************************************************)
EXTENDS FileAccess, SequenceTheorems, TLAPS

\* The fields of struct file_buffer.
BufferShape ==
  /\ rb = [drive |-> rb.drive, cluster |-> rb.cluster, offset |-> rb.offset,
           data |-> rb.data, ts |-> rb.ts]
  /\ rb.ts \in 0 .. Day - 1
  /\ clock \in 0 .. Day - 1

\* The age of the buffer is the way the clock has gone since its timestamp,
\* over midnight or not.
AgeIsElapsed ==
  rb.data # << >> =>
    /\ age \in 0 .. MaxAge
    /\ clock = rb.ts + age \/ clock = rb.ts + age - Day

TimeInv == BufferShape /\ AgeIsElapsed /\ inTime = TRUE

\* What the check at the head of the handler leaves of the buffer.
LEMMA CheckedFacts ==
  ASSUME BufferShape
  PROVE /\ Emptied(rb) = [drive |-> rb.drive, cluster |-> rb.cluster,
                          offset |-> rb.offset, data |-> << >>, ts |-> rb.ts]
        /\ (Checked = rb /\ ~Expired) \/ Checked = Emptied(rb)
<1>1. Emptied(rb) = [drive |-> rb.drive, cluster |-> rb.cluster,
                     offset |-> rb.offset, data |-> << >>, ts |-> rb.ts]
  BY DEF BufferShape, Emptied
<1>2. (Checked = rb /\ ~Expired) \/ Checked = Emptied(rb)
  BY DEF Checked
<1> QED
  BY <1>1, <1>2

\* A buffer that passed the check is at most Ttl ticks old, provided it was
\* checked within a day.
LEMMA CheckedIsYoung ==
  ASSUME TimeInv, MaxAge < Day, Checked.data # << >>
  PROVE age <= Ttl
<1>1. Emptied(rb).data = << >>
  BY CheckedFacts DEF TimeInv
<1>2. (Checked = rb /\ ~Expired) \/ Checked = Emptied(rb)
  BY CheckedFacts DEF TimeInv
<1>3. rb.data # << >> /\ ~Expired
  BY <1>1, <1>2
<1>4. /\ rb.ts \in 0 .. Day - 1 /\ clock \in 0 .. Day - 1
      /\ age \in 0 .. MaxAge
      /\ clock = rb.ts + age \/ clock = rb.ts + age - Day
  BY <1>3 DEF TimeInv, BufferShape, AgeIsElapsed
<1>5. ~(clock < rb.ts) /\ ~(clock - rb.ts > Ttl)
  BY <1>3 DEF Expired
<1> QED
  BY <1>4, <1>5, FileAssumption

\* Bytes out of the buffer mean that the buffer passed the check.
LEMMA BufferedFromChecked ==
  ASSUME NEW o, NEW pos, NEW n, Buffered(Checked, o, pos, n) # << >>
  PROVE Checked.data # << >>
  BY DEF Buffered, Holds

\* An action that leaves the buffer, checks it or empties it.
LEMMA QuietTime ==
  ASSUME TimeInv, UNCHANGED <<clock, age, inTime>>,
         rb' = rb \/ rb' = Checked \/ rb' = Emptied(rb)
  PROVE TimeInv'
<1> DEFINE e == [drive |-> rb.drive, cluster |-> rb.cluster,
                offset |-> rb.offset, data |-> << >>, ts |-> rb.ts]
<1>1. rb' = rb \/ rb' = e
  BY CheckedFacts DEF TimeInv
<1>2. CASE rb' = rb
  BY <1>2 DEF TimeInv, BufferShape, AgeIsElapsed
<1>3. CASE rb' = e
  BY <1>3 DEF TimeInv, BufferShape, AgeIsElapsed
<1> QED
  BY <1>1, <1>2, <1>3

\* ReadHit serves bytes only of a buffer that passed the check.
LEMMA ReadHitTime ==
  ASSUME TimeInv, MaxAge < Day, NEW o, NEW pos, NEW n, ReadHit(o, pos, n)
  PROVE TimeInv'
<1> DEFINE have == Buffered(Checked, o, pos, n)
<1>1. inTime' = (inTime /\ (have # << >> => age <= Ttl))
  BY DEF ReadHit, Return
<1>2. have # << >> => age <= Ttl
  BY CheckedIsYoung, BufferedFromChecked
<1>3. UNCHANGED inTime
  BY <1>1, <1>2 DEF TimeInv
<1> QED
  BY <1>3, QuietTime DEF ReadHit

\* ReadMiss does so too, and a refilled buffer starts with age 0.
LEMMA ReadMissTime ==
  ASSUME TimeInv, MaxAge < Day, NEW o, NEW pos, NEW n, ReadMiss(o, pos, n)
  PROVE TimeInv'
<1> DEFINE have == Buffered(Checked, o, pos, n)
           from == pos + Len(have)
           m == minLen[o.drive]
           at == FetchFrom(from, pos + n, m)
           reply == Slice(Content(o), at, FetchLen(from, pos + n, m))
           refill == at + Len(reply) > Align(pos + n, m)
<1>1. inTime' = (inTime /\ (have # << >> => age <= Ttl))
  BY DEF ReadMiss, Return
<1>2. have # << >> => age <= Ttl
  BY CheckedIsYoung, BufferedFromChecked
<1>3. UNCHANGED inTime
  BY <1>1, <1>2 DEF TimeInv
<1>4. /\ rb' = IF refill THEN Refill(o, from, pos + n, m, reply) ELSE Checked
      /\ age' = IF refill THEN 0 ELSE age
      /\ UNCHANGED clock
  BY DEF ReadMiss
<1> HIDE DEF have, from, m, at, reply, refill
<1>5. CASE refill
  <2>1. rb' = Refill(o, from, pos + n, m, reply) /\ age' = 0
    BY <1>4, <1>5
  <2>2. /\ rb'.ts = clock
        /\ rb' = [drive |-> rb'.drive, cluster |-> rb'.cluster,
                  offset |-> rb'.offset, data |-> rb'.data, ts |-> rb'.ts]
    BY <2>1 DEF Refill
  <2> QED
    BY <1>3, <1>4, <2>1, <2>2, FileAssumption
       DEF TimeInv, BufferShape, AgeIsElapsed
<1>6. CASE ~refill
  BY <1>3, <1>4, <1>6, QuietTime
<1> QED
  BY <1>5, <1>6

\* One tick of a clock that starts again at d, t ticks old at most a day.
LEMMA ClockStep ==
  ASSUME NEW d \in Nat \ {0}, NEW m \in Nat, m < d,
         NEW c \in 0 .. d - 1, NEW ts \in 0 .. d - 1, NEW a \in 0 .. m,
         a < m, c = ts + a \/ c = ts + a - d,
         NEW c1, c1 = IF c + 1 = d THEN 0 ELSE c + 1
  PROVE /\ a + 1 \in 0 .. m
        /\ c1 = ts + (a + 1) \/ c1 = ts + (a + 1) - d
<1>1. CASE c + 1 = d
  BY <1>1
<1>2. CASE c + 1 # d
  BY <1>2
<1> QED
  BY <1>1, <1>2

\* The timer interrupt makes the buffer one tick older.
LEMMA TickTime ==
  ASSUME TimeInv, MaxAge < Day, Tick
  PROVE TimeInv'
<1>1. /\ UNCHANGED <<rb, inTime>>
      /\ rb.data # << >> => age < MaxAge /\ age' = age + 1
      /\ clock' = IF clock + 1 = Day THEN 0 ELSE clock + 1
  BY DEF Tick, historyVars
<1>2. clock' \in 0 .. Day - 1
  BY <1>1, FileAssumption DEF TimeInv, BufferShape
<1>3. BufferShape'
  BY <1>1, <1>2 DEF TimeInv, BufferShape
<1>4. AgeIsElapsed'
  <2> SUFFICES ASSUME rb.data # << >>
               PROVE /\ age' \in 0 .. MaxAge
                     /\ clock' = rb.ts + age' \/ clock' = rb.ts + age' - Day
    BY <1>1 DEF AgeIsElapsed
  <2>1. /\ age < MaxAge /\ age' = age + 1
        /\ age \in 0 .. MaxAge
        /\ clock = rb.ts + age \/ clock = rb.ts + age - Day
    BY <1>1 DEF TimeInv, AgeIsElapsed
  <2>2. clock \in 0 .. Day - 1 /\ rb.ts \in 0 .. Day - 1
    BY DEF TimeInv, BufferShape
  <2>3. /\ age + 1 \in 0 .. MaxAge
        /\ clock' = rb.ts + (age + 1) \/ clock' = rb.ts + (age + 1) - Day
    BY <1>1, <2>1, <2>2, ClockStep, FileAssumption
  <2> QED
    BY <2>1, <2>3
<1> QED
  BY <1>1, <1>3, <1>4 DEF TimeInv

\* CASE by CASE over Next: all other actions leave clock, age and inTime.
LEMMA NextTime ==
  ASSUME TimeInv, MaxAge < Day, [Next]_vars
  PROVE TimeInv'
<1>1. CASE Reads
  <2>1. CASE \E o \in open, pos \in 0 .. MaxPos, n \in 1 .. MaxPos : ReadHit(o, pos, n)
    BY <2>1, ReadHitTime
  <2>2. CASE \E o \in open, pos \in 0 .. MaxPos, n \in 1 .. MaxPos : ReadMiss(o, pos, n)
    BY <2>2, ReadMissTime
  <2>3. CASE \E o \in open, pos \in 0 .. MaxPos, n \in 1 .. MaxPos : ReadBegin(o, pos, n)
    BY <2>3, QuietTime DEF ReadBegin, historyVars
  <2>4. CASE ReadNextChunk
    <3>1. UNCHANGED <<rb, clock, age>>
      BY <2>4 DEF ReadNextChunk
    <3>2. UNCHANGED inTime
      BY <2>4 DEF ReadNextChunk, Return, historyVars, TimeInv
    <3> QED
      BY <3>1, <3>2, QuietTime
  <2>5. CASE ReadFails
    BY <2>5, QuietTime DEF ReadFails, historyVars
  <2> QED
    BY <1>1, <2>1, <2>2, <2>3, <2>4, <2>5 DEF Reads
<1>2. CASE Writes
  <2>1. UNCHANGED <<clock, age, inTime>>
    BY <1>2 DEF Writes, WriteBegin, WriteNextChunk, WriteRefused,
                WriteReplyLost, WriteFails, historyVars
  <2>2. rb' = rb \/ rb' = Checked \/ rb' = Emptied(rb)
    BY <1>2 DEF Writes, WriteBegin, WriteNextChunk, WriteRefused,
                WriteReplyLost, WriteFails
  <2> QED
    BY <2>1, <2>2, QuietTime
<1>3. CASE Opens
  <2>1. UNCHANGED <<clock, age, inTime>>
    BY <1>3 DEF Opens, Open, Create, ExtendedCreate, ExtendedReplace,
                CreateReplyLost, Close, Opened, historyVars
  <2>2. rb' = Checked \/ rb' = Emptied(rb)
    BY <1>3 DEF Opens, Open, Create, ExtendedCreate, ExtendedReplace,
                CreateReplyLost, Close
  <2> QED
    BY <2>1, <2>2, QuietTime
<1>4. CASE OtherCalls
  <2>1. UNCHANGED <<clock, age, inTime>>
    BY <1>4 DEF OtherCalls, Delete, Rename, SetMinReadLen, Remount, OtherCall, historyVars
  <2>2. rb' = rb \/ rb' = Checked
    BY <1>4 DEF OtherCalls, Delete, Rename, SetMinReadLen, Remount, OtherCall
  <2> QED
    BY <2>1, <2>2, QuietTime
<1>5. CASE Environment
  <2>1. CASE Tick
    BY <2>1, TickTime
  <2>2. CASE \E r \in Remotes : ExecuteLate(r)
    BY <2>2, QuietTime DEF ExecuteLate, historyVars
  <2>3. CASE \E r \in Remotes : \E n \in Names, off \in 0 .. MaxPos - 1 :
               OtherWrite(r, n, off)
    BY <2>3, QuietTime DEF OtherWrite, historyVars
  <2> QED
    BY <1>5, <2>1, <2>2, <2>3 DEF Environment
<1>6. CASE UNCHANGED vars
  BY <1>6, QuietTime DEF vars, historyVars
<1> QED
  BY <1>1, <1>2, <1>3, <1>4, <1>5, <1>6 DEF Next

\* The client installs with an empty buffer and any time of day.
LEMMA InitTime == Init => TimeInv
<1> SUFFICES ASSUME Init PROVE TimeInv
  OBVIOUS
<1>1. /\ \E d \in Drives : rb = [drive |-> d, cluster |-> 0, offset |-> 0,
                                 data |-> << >>, ts |-> 0]
      /\ clock \in 0 .. Day - 1
      /\ inTime = TRUE
  BY DEF Init
<1>2. /\ rb.data = << >> /\ rb.ts = 0
      /\ rb = [drive |-> rb.drive, cluster |-> rb.cluster, offset |-> rb.offset,
               data |-> rb.data, ts |-> rb.ts]
  BY <1>1
<1> QED
  BY <1>1, <1>2, FileAssumption DEF TimeInv, BufferShape, AgeIsElapsed

\* No byte older than Ttl ticks is served from the read buffer, across
\* midnight too, if no day passes without a call of the handler: for any
\* drives, files, block size, time to live and length of the day.
THEOREM ServedInTimeHolds ==
  ASSUME MaxAge < Day
  PROVE Spec => []ServedInTime
<1>1. Init => TimeInv
  BY InitTime
<1>2. TimeInv /\ [Next]_vars => TimeInv'
  BY NextTime
<1>3. TimeInv => ServedInTime
  BY DEF TimeInv, ServedInTime
<1> QED
  BY <1>1, <1>2, <1>3, PTL DEF Spec

-----------------------------------------------------------------------------
(* The shape of the state *)

Contents == {s \in Seq(Byte) : Len(s) <= MaxPos}

\* The requests a server may still execute.
Request == {q \in [name : Names, off : Nat, n : Nat] : q.off + q.n <= MaxPos}

\* Every drive has a remote of its own, unless two may share one.
MountShape ==
  /\ mount \in [Drives -> Remotes]
  /\ Aliases \/ \A d, e \in Drives : mount[d] = mount[e] => d = e

LenShape == minLen \in [Drives -> MinReadLens]

FileShape == file \in [Remotes -> [Names -> Contents \cup {NoFile}]]

\* Every handle has a path of its own.
ItemsShape ==
  /\ items \in [Remotes -> Seq(Names)]
  /\ \A r \in Remotes : \A g, h \in 1 .. Len(items[r]) : items[r][g] = items[r][h] => g = h

LateShape == late \in [Remotes -> Request \cup {NoRequest}]

\* An open file has the handle of its path.
OpenShape ==
  \A o \in open : /\ o \in OpenFile
                  /\ o.cluster \in 1 .. Len(items[mount[o.drive]])
                  /\ PathOf(o) = o.name

\* At most one block is kept, of whatever size blocks had.
DataShape == rb.data \in Seq(Byte) /\ Len(rb.data) <= BufferSize

\* A call being split into chunks is a call for an open file.
JobShape ==
  /\ pc \in {"idle", "read", "write"}
  /\ pc # "idle" =>
       /\ job = [o |-> job.o, pos |-> job.pos, n |-> job.n, data |-> job.data]
       /\ job.o \in open /\ job.pos \in Nat /\ job.n \in Nat
       /\ job.data \in Seq(Byte)
  /\ pc = "write" => job.pos + job.n <= MaxPos

FileInv ==
  /\ MountShape /\ LenShape /\ FileShape /\ ItemsShape /\ LateShape
  /\ OpenShape /\ JobShape /\ BufferShape /\ DataShape

-----------------------------------------------------------------------------
(* What the buffer holds *)

\* A write of n bytes at pos, n = 0 cutting the file there, leaves the buffered
\* bytes alone.
Misses(pos, n) == pos >= rb.offset + Len(rb.data) \/ (n # 0 /\ pos + n <= rb.offset)

\* The remote and the path of the buffered bytes.
Owner == mount[rb.drive]
Path == items[Owner][rb.cluster]

LateMisses ==
  late[Owner] # NoRequest /\ late[Owner].name = Path => Misses(late[Owner].off, late[Owner].n)

JobMisses ==
  pc = "write" /\ job.o.drive = rb.drive /\ job.o.cluster = rb.cluster =>
    Misses(job.pos, job.n)

\* The buffered bytes are those of a file, and no write that is under way or
\* may still be executed touches them.
BufferInv ==
  rb.data # << >> =>
    /\ rb.drive \in Drives /\ rb.offset \in Nat /\ rb.cluster \in 1 .. Len(items[Owner])
    /\ BufferCoherent /\ LateMisses /\ JobMisses

\* The chunks of a large READ are those of the file, and once the first is
\* there no write can come any more.
ReadInv ==
  pc = "read" /\ job.data # << >> =>
    /\ Content(job.o) # NoFile
    /\ job.data = Slice(Content(job.o), job.pos, Len(job.data))
    /\ Len(job.data) <= job.n
    /\ late[mount[job.o.drive]] = NoRequest

CoherentInv == FileInv /\ BufferInv /\ ReadInv /\ correct = TRUE

-----------------------------------------------------------------------------
(* Slices of files *)

\* What Slice returns.
LEMMA SliceProperties ==
  ASSUME NEW S, NEW s \in Seq(S), NEW off \in Nat, NEW n \in Nat
  PROVE  /\ Slice(s, off, n) \in Seq(S)
         /\ Len(Slice(s, off, n)) =
              IF off >= Len(s) THEN 0 ELSE IF off + n <= Len(s) THEN n ELSE Len(s) - off
         /\ \A i \in 1 .. Len(Slice(s, off, n)) : Slice(s, off, n)[i] = s[off + i]
<1> DEFINE m == off + 1
           e == IF off + n <= Len(s) THEN off + n ELSE Len(s)
           t == SubSeq(s, m, e)
<1>1. Slice(s, off, n) = t
  BY DEF Slice
<1>2. e \in Nat /\ e <= Len(s) /\ e <= off + n /\ m \in Nat /\ Len(s) \in Nat
  OBVIOUS
<1>3. e = IF off + n <= Len(s) THEN off + n ELSE Len(s)
  OBVIOUS
<1>4. \A i \in m .. e : s[i] \in S
  BY <1>2
<1>5. m = off + 1
  OBVIOUS
<1> HIDE DEF e, m
<1>6. /\ t \in Seq(S)
      /\ Len(t) = IF m <= e THEN e - m + 1 ELSE 0
      /\ \A i \in 1 .. e - m + 1 : t[i] = s[m + i - 1]
  <2>1. m \in Int /\ e \in Int
    BY <1>2
  <2>2. t \in Seq(S)
    BY <1>4, <2>1, SubSeqProperties
  <2>3. Len(t) = IF m <= e THEN e - m + 1 ELSE 0
    BY <1>4, <2>1, SubSeqProperties
  <2>4. \A i \in 1 .. e - m + 1 : t[i] = s[m + i - 1]
    BY <1>4, <2>1, SubSeqProperties
  <2> QED
    BY <2>2, <2>3, <2>4
<1> HIDE DEF t
<1>7. Len(t) = IF off >= Len(s) THEN 0 ELSE IF off + n <= Len(s) THEN n ELSE Len(s) - off
  BY <1>2, <1>3, <1>5, <1>6
<1>8. \A i \in 1 .. Len(t) : t[i] = s[off + i]
  <2> SUFFICES ASSUME NEW i \in 1 .. Len(t)
               PROVE  t[i] = s[off + i]
    OBVIOUS
  <2>1. i \in 1 .. e - m + 1 /\ m + i - 1 = off + i
    BY <1>2, <1>5, <1>6
  <2> QED
    BY <1>6, <2>1
<1> QED
  BY <1>1, <1>6, <1>7, <1>8

\* A slice that lies inside a slice.
LEMMA SliceOfSlice ==
  ASSUME NEW S, NEW s \in Seq(S), NEW a \in Nat, NEW l \in Nat,
         NEW off \in Nat, NEW n \in Nat, off + n <= l
  PROVE  Slice(Slice(s, a, l), off, n) = Slice(s, a + off, n)
<1> DEFINE t == Slice(s, a, l)
           u == Slice(t, off, n)
           v == Slice(s, a + off, n)
<1>1. /\ t \in Seq(S)
      /\ Len(t) = IF a >= Len(s) THEN 0 ELSE IF a + l <= Len(s) THEN l ELSE Len(s) - a
      /\ \A i \in 1 .. Len(t) : t[i] = s[a + i]
  BY SliceProperties, Zenon
<1>2. a + off \in Nat
  OBVIOUS
<1>3. /\ v \in Seq(S)
      /\ Len(v) = IF a + off >= Len(s) THEN 0
                  ELSE IF a + off + n <= Len(s) THEN n ELSE Len(s) - (a + off)
      /\ \A i \in 1 .. Len(v) : v[i] = s[a + off + i]
  BY <1>2, SliceProperties, ZenonT(40)
<1> HIDE DEF t, v
<1>t. t \in Seq(S)
  BY <1>1
<1>4. /\ u \in Seq(S)
      /\ Len(u) = IF off >= Len(t) THEN 0 ELSE IF off + n <= Len(t) THEN n ELSE Len(t) - off
      /\ \A i \in 1 .. Len(u) : u[i] = t[off + i]
  BY <1>t, SliceProperties, Zenon
<1> HIDE DEF u
<1>5. Len(s) \in Nat
  OBVIOUS
<1>6. Len(u) = Len(v) /\ Len(u) \in Nat
  BY <1>1, <1>3, <1>4, <1>5
<1>7. \A i \in 1 .. Len(u) : u[i] = v[i]
  <2> SUFFICES ASSUME NEW i \in 1 .. Len(u) PROVE u[i] = v[i]
    OBVIOUS
  <2>1. off + i \in 1 .. Len(t)
    BY <1>1, <1>4, <1>5
  <2>2. u[i] = s[a + (off + i)]
    BY <1>1, <1>4, <2>1
  <2>3. v[i] = s[a + off + i]
    BY <1>3, <1>6
  <2>4. a + (off + i) = a + off + i
    BY <1>6
  <2> QED
    BY <2>2, <2>3, <2>4
<1>8. u = v
  BY <1>3, <1>4, <1>6, <1>7, SeqEqual
<1> QED
  BY <1>8 DEF t, u, v

\* A slice is the slice of its own length.
LEMMA SliceOwnLength ==
  ASSUME NEW S, NEW s \in Seq(S), NEW off \in Nat, NEW n \in Nat
  PROVE  LET t == Slice(s, off, n)
         IN  Len(t) \in Nat /\ Len(t) <= n /\ t = Slice(s, off, Len(t))
<1> DEFINE t == Slice(s, off, n)
           k == Len(t)
           u == Slice(s, off, k)
<1>0. Len(s) \in Nat
  OBVIOUS
<1>1. /\ t \in Seq(S)
      /\ k = IF off >= Len(s) THEN 0 ELSE IF off + n <= Len(s) THEN n ELSE Len(s) - off
      /\ \A i \in 1 .. k : t[i] = s[off + i]
  BY SliceProperties, Zenon
<1> HIDE DEF t
<1>2. k \in Nat /\ k <= n
  BY <1>0, <1>1
<1> HIDE DEF k
<1>3. /\ u \in Seq(S)
      /\ Len(u) = IF off >= Len(s) THEN 0 ELSE IF off + k <= Len(s) THEN k ELSE Len(s) - off
      /\ \A i \in 1 .. Len(u) : u[i] = s[off + i]
  BY <1>2, SliceProperties, ZenonT(40)
<1> HIDE DEF u
<1>4. Len(u) = k
  BY <1>0, <1>1, <1>2, <1>3
<1>5. t = u
  BY <1>1, <1>3, <1>4, SeqEqual DEF k
<1> QED
  BY <1>2, <1>5 DEF k, t, u

\* The bytes there are and the slice behind them make the whole slice.
LEMMA SlicesJoin ==
  ASSUME NEW S, NEW s \in Seq(S), NEW pos \in Nat, NEW n \in Nat, NEW k \in Nat, k <= n
  PROVE  Len(Slice(s, pos, k)) = k =>
           Slice(s, pos, k) \o Slice(s, pos + k, n - k) = Slice(s, pos, n)
<1> DEFINE a == pos + k
           b == n - k
           t == Slice(s, pos, k)
           u == Slice(s, a, b)
           v == Slice(s, pos, n)
           w == t \o u
<1>0. Len(s) \in Nat /\ a = pos + k /\ b = n - k /\ a \in Nat /\ b \in Nat
  OBVIOUS
<1>1. /\ t \in Seq(S)
      /\ Len(t) = IF pos >= Len(s) THEN 0 ELSE IF pos + k <= Len(s) THEN k ELSE Len(s) - pos
      /\ \A i \in 1 .. Len(t) : t[i] = s[pos + i]
  BY SliceProperties, Zenon
<1> HIDE DEF a, b, t
<1>a. a \in Nat /\ b \in Nat
  BY <1>0
<1>2. /\ u \in Seq(S)
      /\ Len(u) = IF a >= Len(s) THEN 0 ELSE IF a + b <= Len(s) THEN b ELSE Len(s) - a
      /\ \A i \in 1 .. Len(u) : u[i] = s[a + i]
  BY <1>a, SliceProperties, ZenonT(40)
<1>3. /\ v \in Seq(S)
      /\ Len(v) = IF pos >= Len(s) THEN 0 ELSE IF pos + n <= Len(s) THEN n ELSE Len(s) - pos
      /\ \A i \in 1 .. Len(v) : v[i] = s[pos + i]
  BY SliceProperties, Zenon
<1> HIDE DEF u, v
<1>4. /\ w \in Seq(S)
      /\ Len(w) = Len(t) + Len(u)
      /\ \A i \in 1 .. Len(t) + Len(u) : w[i] = IF i <= Len(t) THEN t[i] ELSE u[i - Len(t)]
  <2>1. t \in Seq(S) /\ u \in Seq(S)
    BY <1>1, <1>2
  <2> QED
    BY <2>1, ConcatProperties, Zenon
<1> HIDE DEF w
<1>5. Len(u) \in Nat
  BY <1>2
<1>9. SUFFICES ASSUME Len(t) = k PROVE w = v
  BY DEF a, b, t, u, v, w
<1>6. Len(w) = Len(v)
  <2> DEFINE l == Len(s)
  <2>1. /\ l \in Nat
        /\ k = IF pos >= l THEN 0 ELSE IF pos + k <= l THEN k ELSE l - pos
        /\ Len(u) = IF pos + k >= l THEN 0
                    ELSE IF (pos + k) + (n - k) <= l THEN n - k ELSE l - (pos + k)
        /\ Len(v) = IF pos >= l THEN 0 ELSE IF pos + n <= l THEN n ELSE l - pos
        /\ Len(w) = k + Len(u)
    BY <1>0, <1>1, <1>2, <1>3, <1>4, <1>9
  <2> HIDE DEF l
  <2> QED
    BY <2>1
<1>7. \A i \in 1 .. Len(w) : w[i] = v[i]
  <2> SUFFICES ASSUME NEW i \in 1 .. Len(w) PROVE w[i] = v[i]
    OBVIOUS
  <2>1. v[i] = s[pos + i]
    BY <1>3, <1>6
  <2>2. CASE i <= k
    BY <1>1, <1>4, <1>5, <1>9, <2>1, <2>2
  <2>3. CASE i > k
    <3>1. w[i] = u[i - k] /\ i - k \in 1 .. Len(u)
      BY <1>4, <1>5, <1>9, <2>3
    <3>2. u[i - k] = s[a + (i - k)]
      BY <1>2, <3>1
    <3>3. a + (i - k) = pos + i
      BY <1>0, <1>4, <1>5, <1>9
    <3> QED
      BY <2>1, <3>1, <3>2, <3>3
  <2> QED
    BY <1>4, <1>5, <1>9, <2>2, <2>3
<1>8. w = v
  BY <1>3, <1>4, <1>6, <1>7, SeqEqual
<1> QED
  BY <1>8

\* A short reply ends at the end of the file: there are no more bytes than it.
LEMMA ShortSlice ==
  ASSUME NEW S, NEW s \in Seq(S), NEW off \in Nat, NEW n \in Nat, NEW m \in Nat,
         n <= m, Len(Slice(s, off, n)) < n
  PROVE  Slice(s, off, n) = Slice(s, off, m)
<1> DEFINE t == Slice(s, off, n)
           u == Slice(s, off, m)
<1>0. Len(s) \in Nat
  OBVIOUS
<1>1. /\ t \in Seq(S)
      /\ Len(t) = IF off >= Len(s) THEN 0 ELSE IF off + n <= Len(s) THEN n ELSE Len(s) - off
      /\ \A i \in 1 .. Len(t) : t[i] = s[off + i]
  BY SliceProperties, Zenon
<1>2. /\ u \in Seq(S)
      /\ Len(u) = IF off >= Len(s) THEN 0 ELSE IF off + m <= Len(s) THEN m ELSE Len(s) - off
      /\ \A i \in 1 .. Len(u) : u[i] = s[off + i]
  BY SliceProperties, Zenon
<1>3. Len(t) < n
  OBVIOUS
<1> HIDE DEF t, u
<1>4. Len(t) = Len(u)
  BY <1>0, <1>1, <1>2, <1>3
<1>5. t = u
  BY <1>1, <1>2, <1>4, SeqEqual
<1> QED
  BY <1>5 DEF t, u

\* The end of a slice is a slice.
LEMMA EndOfSlice ==
  ASSUME NEW S, NEW s \in Seq(S), NEW at \in Nat, NEW l \in Nat, NEW k \in Nat, k <= l
  PROVE  LET t == Slice(s, at, l)
             u == SubSeq(t, k + 1, Len(t))
         IN  u \in Seq(S) /\ Len(u) <= l - k /\ u = Slice(s, at + k, Len(u))
<1> DEFINE t == Slice(s, at, l)
           u == SubSeq(t, k + 1, Len(t))
<1>0. Len(s) \in Nat
  OBVIOUS
<1>1. /\ t \in Seq(S)
      /\ Len(t) = IF at >= Len(s) THEN 0 ELSE IF at + l <= Len(s) THEN l ELSE Len(s) - at
      /\ \A i \in 1 .. Len(t) : t[i] = s[at + i]
  BY SliceProperties, Zenon
<1> HIDE DEF t
<1>2. Len(t) \in Nat /\ Len(t) <= l
  BY <1>0, <1>1
<1>3. u = Slice(t, k, l - k)
  <2>1. k + (l - k) = l
    OBVIOUS
  <2>2. IF k + (l - k) <= Len(t) THEN k + (l - k) = Len(t) ELSE TRUE
    BY <1>2, <2>1
  <2> QED
    BY <2>2 DEF Slice
<1>4. u = Slice(s, at + k, l - k)
  <2> DEFINE m == l - k
  <2>1. k + m <= l /\ m \in Nat
    OBVIOUS
  <2> HIDE DEF m
  <2>2. Slice(Slice(s, at, l), k, m) = Slice(s, at + k, m)
    BY <2>1, SliceOfSlice
  <2> QED
    BY <1>3, <2>2 DEF t, m
<1> HIDE DEF u
<1>5. l - k \in Nat /\ at + k \in Nat
  OBVIOUS
<1>6. u \in Seq(S)
  BY <1>4, <1>5, SliceProperties
<1>7. Len(u) <= l - k /\ u = Slice(s, at + k, Len(u))
  BY <1>4, <1>5, SliceOwnLength
<1> QED
  BY <1>6, <1>7 DEF t, u

\* The bytes a WRITE leaves are bytes, at most up to its end or the file's.
LEMMA WrittenProperties ==
  ASSUME NEW s \in Seq(Byte), NEW off \in Nat, NEW n \in Nat
  PROVE  /\ Written(s, off, n) \in Seq(Byte)
         /\ Len(Written(s, off, n)) =
              IF n = 0 THEN off ELSE IF off + n > Len(s) THEN off + n ELSE Len(s)
         /\ \A i \in 1 .. Len(Written(s, off, n)) :
              i <= Len(s) /\ ~(off < i /\ i <= off + n) => Written(s, off, n)[i] = s[i]
<1>0. Zero \in Byte /\ New \in Byte /\ Len(s) \in Nat /\ \A i \in 1 .. Len(s) : s[i] \in Byte
  BY DEF Byte
<1>1. CASE n = 0
  <2> DEFINE w == [i \in 1 .. off |-> IF i <= Len(s) THEN s[i] ELSE Zero]
  <2>1. Written(s, off, n) = w
    BY <1>1 DEF Written, Resize
  <2>2. \A i \in 1 .. off : w[i] \in Byte /\ (i <= Len(s) => w[i] = s[i])
    BY <1>0
  <2>3. w \in Seq(Byte) /\ Len(w) = off
    <3>1. w \in [1 .. off -> Byte]
      BY <1>0
    <3> QED
      BY <3>1
  <2> HIDE DEF w
  <2> QED
    BY <1>1, <2>1, <2>2, <2>3
<1>2. CASE n # 0
  <2> DEFINE l == IF off + n > Len(s) THEN off + n ELSE Len(s)
             w == [i \in 1 .. l |->
                     IF off < i /\ i <= off + n THEN New
                     ELSE IF i <= Len(s) THEN s[i] ELSE Zero]
  <2>1. Written(s, off, n) = w
    BY <1>2 DEF Written, WriteAt
  <2>2. l \in Nat /\ l = IF off + n > Len(s) THEN off + n ELSE Len(s)
    BY <1>0
  <2> HIDE DEF l
  <2>3. \A i \in 1 .. l : i <= Len(s) /\ ~(off < i /\ i <= off + n) => w[i] = s[i]
    BY <1>0, <2>2
  <2>4. w \in [1 .. l -> Byte]
    BY <1>0, <2>2
  <2> HIDE DEF w
  <2>5. w \in Seq(Byte) /\ Len(w) = l
    <3>1. l \in Nat
      BY <2>2
    <3> QED
      BY <2>4, <3>1
  <2> QED
    BY <1>2, <2>1, <2>2, <2>3, <2>5
<1> QED
  BY <1>1, <1>2

\* A write inside the bound keeps the file inside it.
LEMMA WrittenContents ==
  ASSUME NEW s \in Contents, NEW off \in Nat, NEW n \in Nat, off + n <= MaxPos
  PROVE  Written(s, off, n) \in Contents
<1>1. s \in Seq(Byte) /\ Len(s) <= MaxPos
  BY DEF Contents
<1>2. /\ Written(s, off, n) \in Seq(Byte)
      /\ Len(Written(s, off, n)) =
           IF n = 0 THEN off ELSE IF off + n > Len(s) THEN off + n ELSE Len(s)
  BY <1>1, WrittenProperties, Zenon
<1>3. Len(Written(s, off, n)) <= MaxPos
  <2>1. Len(s) \in Nat /\ MaxPos \in Nat
    BY <1>1, FileAssumption
  <2> QED
    BY <1>1, <1>2, <2>1
<1> QED
  BY <1>2, <1>3 DEF Contents

\* A write that misses a slice of a file leaves it as it was.
LEMMA WrittenKeeps ==
  ASSUME NEW s \in Seq(Byte), NEW a \in Nat, NEW k \in Nat,
         NEW off \in Nat, NEW n \in Nat
  PROVE  /\ k # 0 /\ Len(Slice(s, a, k)) = k
         /\ off >= a + k \/ (n # 0 /\ off + n <= a)
         => Slice(Written(s, off, n), a, k) = Slice(s, a, k)
<1> DEFINE w == Written(s, off, n)
           t == Slice(s, a, k)
           u == Slice(w, a, k)
           l == Len(s)
<1>1. /\ w \in Seq(Byte)
      /\ Len(w) = IF n = 0 THEN off ELSE IF off + n > l THEN off + n ELSE l
      /\ \A i \in 1 .. Len(w) : i <= l /\ ~(off < i /\ i <= off + n) => w[i] = s[i]
  BY WrittenProperties
<1> HIDE DEF w
<1>2. /\ t \in Seq(Byte)
      /\ Len(t) = IF a >= l THEN 0 ELSE IF a + k <= l THEN k ELSE l - a
      /\ \A i \in 1 .. Len(t) : t[i] = s[a + i]
  BY SliceProperties, Zenon
<1>w. w \in Seq(Byte)
  BY <1>1
<1>3. /\ u \in Seq(Byte)
      /\ Len(u) = IF a >= Len(w) THEN 0 ELSE IF a + k <= Len(w) THEN k ELSE Len(w) - a
      /\ \A i \in 1 .. Len(u) : u[i] = w[a + i]
  BY <1>w, SliceProperties, Zenon
<1>0. SUFFICES ASSUME k # 0, Len(t) = k, off >= a + k \/ (n # 0 /\ off + n <= a)
             PROVE  u = t
  BY DEF t, u, w
<1>l. l \in Nat
  OBVIOUS
<1> HIDE DEF t, u, l
<1>4. a + k <= l
  BY <1>0, <1>l, <1>2
<1>5. Len(w) \in Nat /\ a + k <= Len(w)
  BY <1>0, <1>l, <1>1, <1>4
<1>6. Len(u) = k
  BY <1>3, <1>5
<1>7. \A i \in 1 .. k : u[i] = t[i]
  <2> SUFFICES ASSUME NEW i \in 1 .. k PROVE u[i] = t[i]
    OBVIOUS
  <2>1. a + i \in 1 .. Len(w) /\ a + i <= l /\ ~(off < a + i /\ a + i <= off + n)
    BY <1>0, <1>l, <1>4, <1>5
  <2>2. w[a + i] = s[a + i]
    BY <1>1, <2>1
  <2> QED
    BY <1>0, <1>l, <1>2, <1>3, <1>6, <2>2
<1>8. u = t
  BY <1>0, <1>l, <1>2, <1>3, <1>6, <1>7, SeqEqual
<1> QED
  BY <1>8

\* Align goes back to the start of the block.
LEMMA AlignFacts ==
  ASSUME NEW x \in Nat, NEW m \in Nat \ {0}
  PROVE  Align(x, m) \in Nat /\ Align(x, m) <= x /\ x < Align(x, m) + m
<1>1. x % m \in 0 .. m - 1 /\ x % m <= x
  OBVIOUS
<1> QED
  BY <1>1 DEF Align

-----------------------------------------------------------------------------
(* The shape of the state is kept *)

\* get_handle: the path's own handle, or a new one behind all others.
LEMMA HandleFacts ==
  ASSUME ItemsShape, NEW r \in Remotes, NEW n \in Names
  PROVE  LET old == items[r]
             new == ItemsWith(r, n)
             h == HandleOf(r, n)
         IN  /\ new \in Seq(Names) /\ Len(old) <= Len(new)
             /\ h \in 1 .. Len(new) /\ new[h] = n
             /\ \A g \in 1 .. Len(old) : new[g] = old[g]
             /\ \A g \in 1 .. Len(new) : new[g] = n => g = h
             /\ \A f, g \in 1 .. Len(new) : new[f] = new[g] => f = g
<1> DEFINE old == items[r]
           new == ItemsWith(r, n)
           h == HandleOf(r, n)
<1>1. old \in Seq(Names) /\ \A f, g \in 1 .. Len(old) : old[f] = old[g] => f = g
  BY DEF ItemsShape
<1>2. CASE \E g \in 1 .. Len(old) : old[g] = n
  <2>1. h = CHOOSE g \in 1 .. Len(old) : old[g] = n
    BY <1>2 DEF HandleOf
  <2>2. h \in 1 .. Len(old) /\ old[h] = n
    BY <1>2, <2>1, Zenon
  <2>3. new = old
    BY <1>1, <2>2 DEF ItemsWith
  <2> HIDE DEF old, new, h
  <2> QED
    BY <1>1, <2>2, <2>3 DEF old, new, h
<1>3. CASE ~ \E g \in 1 .. Len(old) : old[g] = n
  <2>1. h = Len(old) + 1
    BY <1>3 DEF HandleOf
  <2>2. new = Append(old, n)
    BY <1>1, <2>1 DEF ItemsWith
  <2> HIDE DEF old, new, h
  <2>3. /\ new \in Seq(Names) /\ Len(new) = Len(old) + 1
        /\ \A g \in 1 .. Len(old) : new[g] = old[g]
        /\ new[Len(old) + 1] = n
    BY <1>1, <2>2, AppendProperties
  <2>4. Len(old) \in Nat
    BY <1>1
  <2>5. \A f, g \in 1 .. Len(new) : new[f] = new[g] => f = g
    <3> SUFFICES ASSUME NEW f \in 1 .. Len(new), NEW g \in 1 .. Len(new), new[f] = new[g]
                 PROVE  f = g
      OBVIOUS
    <3>1. (f \in 1 .. Len(old) \/ f = Len(old) + 1) /\ (g \in 1 .. Len(old) \/ g = Len(old) + 1)
      BY <2>3, <2>4
    <3> QED
      BY <1>1, <1>3, <2>3, <3>1
  <2>6. h \in 1 .. Len(new) /\ new[h] = n /\ Len(old) <= Len(new)
    BY <2>1, <2>3, <2>4
  <2>7. \A g \in 1 .. Len(new) : new[g] = n => g = h
    BY <2>5, <2>6
  <2> QED
    BY <2>3, <2>5, <2>6, <2>7 DEF old, new, h
<1> QED
  BY <1>2, <1>3

\* The file an open file stands for is the one it was opened as.
LEMMA ContentFacts ==
  ASSUME FileInv, NEW o \in open
  PROVE  /\ o.drive \in Drives /\ mount[o.drive] \in Remotes
         /\ o.name \in Names /\ PathOf(o) = o.name
         /\ o.cluster \in 1 .. Len(items[mount[o.drive]])
         /\ Content(o) = file[mount[o.drive]][o.name]
         /\ Content(o) # NoFile => Content(o) \in Contents
<1>1. o \in OpenFile /\ PathOf(o) = o.name /\ o.cluster \in 1 .. Len(items[mount[o.drive]])
  BY DEF FileInv, OpenShape
<1>2. o.drive \in Drives /\ o.name \in Names
  BY <1>1 DEF OpenFile
<1>3. mount[o.drive] \in Remotes
  BY <1>2 DEF FileInv, MountShape
<1>4. Content(o) = file[mount[o.drive]][o.name]
  BY <1>1 DEF Content
<1>5. file[mount[o.drive]][o.name] \in Contents \cup {NoFile}
  BY <1>2, <1>3 DEF FileInv, FileShape
<1> QED
  BY <1>1, <1>2, <1>3, <1>4, <1>5

\* The same for the file of the call that is under way.
LEMMA JobFacts ==
  ASSUME FileInv, pc # "idle"
  PROVE  /\ job = [o |-> job.o, pos |-> job.pos, n |-> job.n, data |-> job.data]
         /\ job.o \in open /\ job.pos \in Nat /\ job.n \in Nat
         /\ job.data \in Seq(Byte)
  BY DEF FileInv, JobShape

\* A file whose content changes to one it may have.
LEMMA ChangeFileShape ==
  ASSUME FileShape, NEW r \in Remotes, NEW n \in Names,
         NEW c \in Contents \cup {NoFile}, ChangeFile(r, n, c)
  PROVE  FileShape'
<1>1. file' = [file EXCEPT ![r][n] = c]
  BY DEF ChangeFile
<1> QED
  BY <1>1 DEF FileShape

\* An empty file is a content.
LEMMA EmptyContents == << >> \in Contents
<1>1. << >> \in Seq(Byte) /\ Len(<< >>) = 0 /\ MaxPos \in Nat
  BY FileAssumption
<1> QED
  BY <1>1 DEF Contents

\* Every request leaves files that are within the bound.
LEMMA NextFileShape ==
  ASSUME FileInv, [Next]_vars
  PROVE  FileShape'
<1>0. FileShape
  BY DEF FileInv
<1>1. ASSUME UNCHANGED file PROVE FileShape'
  BY <1>0, <1>1 DEF FileShape
<1>2. \A d \in Drives : mount[d] \in Remotes
  BY DEF FileInv, MountShape
<1>3. CASE Reads
  <2>1. CASE \E o \in open, pos \in 0 .. MaxPos, n \in 1 .. MaxPos :
               ReadHit(o, pos, n) \/ ReadMiss(o, pos, n) \/ ReadBegin(o, pos, n)
    BY <1>1, <2>1 DEF ReadHit, ReadMiss, ReadBegin, serverVars
  <2>2. CASE ReadNextChunk
    BY <1>1, <2>2 DEF ReadNextChunk
  <2>3. CASE ReadFails
    BY <1>1, <2>3 DEF ReadFails, serverVars
  <2> QED
    BY <1>3, <2>1, <2>2, <2>3 DEF Reads
<1>4. ASSUME NEW k \in Nat, pc = "write", Content(job.o) # NoFile, k <= ChunkLen,
             ChangeFile(mount[job.o.drive], PathOf(job.o), Written(Content(job.o), job.pos, k))
      PROVE  FileShape'
  <2>1. /\ job.o \in open /\ job.pos \in Nat /\ job.n \in Nat /\ job.pos + job.n <= MaxPos
    BY <1>4, JobFacts DEF FileInv, JobShape
  <2>2. /\ mount[job.o.drive] \in Remotes /\ PathOf(job.o) \in Names
        /\ Content(job.o) \in Contents
    BY <1>4, <2>1, ContentFacts
  <2>3. job.pos + k <= MaxPos
    BY <1>4, <2>1, FileAssumption DEF ChunkLen
  <2>4. Written(Content(job.o), job.pos, k) \in Contents
    BY <2>1, <2>2, <2>3, WrittenContents
  <2> QED
    BY <1>0, <1>4, <2>2, <2>4, ChangeFileShape
<1>5. CASE Writes
  <2>1. CASE \E o \in open, pos \in 0 .. MaxPos : \E n \in 0 .. MaxPos - pos :
               WriteBegin(o, pos, n)
    BY <1>1, <2>1 DEF WriteBegin, serverVars
  <2>2. ASSUME NEW k \in 0 .. WriteChunk, WriteNextChunk(k) PROVE FileShape'
    <3>1. CASE UNCHANGED file
      BY <1>1, <3>1
    <3>2. CASE ChangeFile(mount[job.o.drive], PathOf(job.o),
                          Written(Content(job.o), job.pos, k))
      <4>1. pc = "write" /\ Content(job.o) # NoFile /\ k \in 0 .. ChunkLen
        BY <2>2 DEF WriteNextChunk
      <4>2. k \in Nat /\ k <= ChunkLen
        BY <4>1, <2>2, FileAssumption
      <4> QED
        BY <1>4, <3>2, <4>1, <4>2
    <3> QED
      BY <2>2, <3>1, <3>2 DEF WriteNextChunk
  <2>3. CASE WriteRefused \/ WriteFails
    BY <1>1, <2>3 DEF WriteRefused, WriteFails
  <2>4. CASE WriteReplyLost
    <3>1. /\ pc = "write" /\ Content(job.o) # NoFile
          /\ ChangeFile(mount[job.o.drive], PathOf(job.o),
                        Written(Content(job.o), job.pos, ChunkLen))
      BY <2>4 DEF WriteReplyLost
    <3>2. ChunkLen \in Nat /\ ChunkLen <= ChunkLen
      BY <3>1, JobFacts, FileAssumption DEF ChunkLen
    <3> QED
      BY <1>4, <3>1, <3>2
  <2> QED
    BY <1>5, <2>1, <2>2, <2>3, <2>4 DEF Writes
<1>6. ASSUME NEW d \in Drives, NEW n \in Names,
             ChangeFile(mount[d], n, << >>) \/ ChangeFile(mount[d], n, NoFile)
      PROVE  FileShape'
  BY <1>0, <1>2, <1>6, EmptyContents, ChangeFileShape
<1>7. CASE Opens
  <2>1. CASE \E o \in open : Close(o)
    BY <1>1, <2>1 DEF Close, serverVars
  <2>2. ASSUME NEW d \in Drives, NEW n \in Names, Open(d, n) PROVE FileShape'
    BY <1>1, <2>2 DEF Open
  <2>3. ASSUME NEW d \in Drives, NEW n \in Names,
               \/ Create(d, n) \/ ExtendedCreate(d, n) \/ ExtendedReplace(d, n)
               \/ CreateReplyLost(d, n)
        PROVE  FileShape'
    BY <1>6, <2>3 DEF Create, ExtendedCreate, ExtendedReplace, CreateReplyLost
  <2> QED
    BY <1>7, <2>1, <2>2, <2>3 DEF Opens
<1>8. CASE OtherCalls
  <2>1. CASE \/ OtherCall
             \/ \E d \in Drives, m \in MinReadLens :
                  SetMinReadLen(d, m) \/ \E r \in Remotes : Remount(d, r, m)
    BY <1>1, <2>1 DEF OtherCall, SetMinReadLen, Remount, serverVars
  <2>2. ASSUME NEW d \in Drives, NEW n \in Names, Delete(d, n) PROVE FileShape'
    BY <1>6, <2>2 DEF Delete
  <2>3. ASSUME NEW d \in Drives, NEW n \in Names, NEW m \in Names, Rename(d, n, m)
        PROVE  FileShape'
    <3>1. file' = [file EXCEPT ![mount[d]][m] = file[mount[d]][n], ![mount[d]][n] = NoFile]
      BY <2>3 DEF Rename
    <3> DEFINE r == mount[d]
               c == file[r][n]
               f == [file EXCEPT ![r][m] = c]
    <3>2. r \in Remotes /\ c \in Contents \cup {NoFile}
      BY <1>0, <1>2 DEF FileShape
    <3>3. f \in [Remotes -> [Names -> Contents \cup {NoFile}]]
      BY <1>0, <3>2 DEF FileShape
    <3>4. file' = [f EXCEPT ![r][n] = NoFile]
      BY <3>1
    <3> HIDE DEF f, c, r
    <3> QED
      BY <3>2, <3>3, <3>4 DEF FileShape
  <2> QED
    BY <1>8, <2>1, <2>2, <2>3 DEF OtherCalls
<1>9. CASE Environment
  <2>1. CASE Tick
    BY <1>1, <2>1 DEF Tick, serverVars
  <2>2. ASSUME NEW r \in Remotes, ExecuteLate(r) PROVE FileShape'
    <3> DEFINE q == late[r]
    <3>1. /\ q # NoRequest /\ Exists(r, q.name)
          /\ ChangeFile(r, q.name, Written(file[r][q.name], q.off, q.n))
      BY <2>2 DEF ExecuteLate
    <3>2. q \in Request
      BY <3>1 DEF FileInv, LateShape
    <3>3. q.name \in Names /\ q.off \in Nat /\ q.n \in Nat /\ q.off + q.n <= MaxPos
      BY <3>2 DEF Request
    <3>4. file[r][q.name] \in Contents
      BY <1>0, <3>1, <3>3 DEF FileShape, Exists
    <3>5. Written(file[r][q.name], q.off, q.n) \in Contents
      BY <3>3, <3>4, WrittenContents
    <3> QED
      BY <1>0, <3>1, <3>3, <3>5, ChangeFileShape
  <2>3. ASSUME NEW r \in Remotes, NEW n \in Names, NEW off \in 0 .. MaxPos - 1,
               OtherWrite(r, n, off)
        PROVE  FileShape'
    <3>1. Exists(r, n) /\ ChangeFile(r, n, WriteAt(file[r][n], off, 1))
      BY <2>3 DEF OtherWrite
    <3>2. file[r][n] \in Contents
      BY <1>0, <3>1 DEF FileShape, Exists
    <3>3. off \in Nat /\ off + 1 <= MaxPos
      BY FileAssumption
    <3>4. WriteAt(file[r][n], off, 1) = Written(file[r][n], off, 1)
      BY DEF Written
    <3>5. WriteAt(file[r][n], off, 1) \in Contents
      BY <3>2, <3>3, <3>4, WrittenContents
    <3> QED
      BY <1>0, <3>1, <3>5, ChangeFileShape
  <2> QED
    BY <1>9, <2>1, <2>2, <2>3 DEF Environment
<1>10. CASE UNCHANGED vars
  BY <1>1, <1>10 DEF vars, serverVars
<1> QED
  BY <1>3, <1>5, <1>7, <1>8, <1>9, <1>10 DEF Next

\* The file that OPEN and its kin give to DOS.
NewOpen(d, n) == [drive |-> d, name |-> n, cluster |-> HandleOf(mount[d], n)]

\* What a step does to mounts, handles and open files: nothing, or it closes
\* one, or a path gets its handle, or a drive gets another remote.
LEMMA HandleSteps ==
  ASSUME [Next]_vars
  PROVE  \/ UNCHANGED <<mount, items>> /\ open' \subseteq open
         \/ \E d \in Drives, n \in Names :
              /\ UNCHANGED mount
              /\ items' = [items EXCEPT ![mount[d]] = ItemsWith(mount[d], n)]
              /\ open' \subseteq open \cup {NewOpen(d, n)}
         \/ \E d \in Drives, r \in Remotes, m \in MinReadLens : Remount(d, r, m)
<1> DEFINE Same == UNCHANGED <<mount, items>> /\ open' \subseteq open
           Gets(d, n) == /\ UNCHANGED mount
                         /\ items' = [items EXCEPT ![mount[d]] = ItemsWith(mount[d], n)]
                         /\ open' \subseteq open \cup {NewOpen(d, n)}
<1>1. CASE Reads
  <2>1. CASE \E o \in open, pos \in 0 .. MaxPos, n \in 1 .. MaxPos :
               ReadHit(o, pos, n) \/ ReadMiss(o, pos, n) \/ ReadBegin(o, pos, n)
    <3>1. Same
      BY <2>1 DEF ReadHit, ReadMiss, ReadBegin, serverVars
    <3> QED
      BY <3>1
  <2>2. CASE ReadNextChunk
    <3>1. Same
      BY <2>2 DEF ReadNextChunk
    <3> QED
      BY <3>1
  <2>3. CASE ReadFails
    <3>1. Same
      BY <2>3 DEF ReadFails, serverVars
    <3> QED
      BY <3>1
  <2> QED
    BY <1>1, <2>1, <2>2, <2>3 DEF Reads
<1>2. CASE Writes
  <2>1. Same
    BY <1>2 DEF Writes, WriteBegin, WriteNextChunk, WriteRefused, WriteReplyLost,
                WriteFails, serverVars
  <2> QED
    BY <2>1
<1>3. CASE Opens
  <2>1. ASSUME NEW d \in Drives, NEW n \in Names, Opened(d, n) PROVE Gets(d, n)
    BY <2>1 DEF Opened, NewOpen
  <2>2. CASE \E o \in open : Close(o)
    <3>1. Same
      BY <2>2 DEF Close, serverVars
    <3> QED
      BY <3>1
  <2>3. ASSUME NEW d \in Drives, NEW n \in Names,
               \/ Open(d, n) \/ Create(d, n)
               \/ ExtendedCreate(d, n) \/ ExtendedReplace(d, n)
        PROVE  Gets(d, n)
    BY <2>1, <2>3 DEF Open, Create, ExtendedCreate, ExtendedReplace
  <2>4. ASSUME NEW d \in Drives, NEW n \in Names, CreateReplyLost(d, n) PROVE Gets(d, n)
    BY <2>4 DEF CreateReplyLost
  <2> HIDE DEF Gets, Same
  <2>5. (\E o \in open : Close(o)) \/ \E d \in Drives, n \in Names : Gets(d, n)
    BY <1>3, <2>3, <2>4 DEF Opens
  <2> QED
    BY <2>2, <2>5 DEF Gets
<1>4. CASE OtherCalls
  <2>1. CASE OtherCall
    <3>1. Same
      BY <2>1 DEF OtherCall, serverVars
    <3> QED
      BY <3>1
  <2>2. CASE \E d \in Drives, n \in Names : Delete(d, n) \/ \E m \in Names : Rename(d, n, m)
    <3>1. Same
      BY <2>2 DEF Delete, Rename
    <3> QED
      BY <3>1
  <2>3. CASE \E d \in Drives, m \in MinReadLens : SetMinReadLen(d, m)
    <3>1. Same
      BY <2>3 DEF SetMinReadLen
    <3> QED
      BY <3>1
  <2> QED
    BY <1>4, <2>1, <2>2, <2>3 DEF OtherCalls
<1>5. CASE Environment
  <2>1. Same
    BY <1>5 DEF Environment, ExecuteLate, OtherWrite, Tick, serverVars
  <2> QED
    BY <2>1
<1>6. CASE UNCHANGED vars
  BY <1>6 DEF vars, serverVars
<1> QED
  BY <1>1, <1>2, <1>3, <1>4, <1>5, <1>6 DEF Next

\* Mounts, handles and open files keep their shape.
LEMMA NextHandleShape ==
  ASSUME FileInv, [Next]_vars
  PROVE  MountShape' /\ ItemsShape' /\ OpenShape'
<1>0. MountShape /\ ItemsShape /\ OpenShape
  BY DEF FileInv
<1>1. CASE UNCHANGED <<mount, items>> /\ open' \subseteq open
  BY <1>0, <1>1 DEF MountShape, ItemsShape, OpenShape, PathOf
<1>2. ASSUME NEW d \in Drives, NEW n \in Names,
             UNCHANGED mount,
             items' = [items EXCEPT ![mount[d]] = ItemsWith(mount[d], n)],
             open' \subseteq open \cup {NewOpen(d, n)}
      PROVE  MountShape' /\ ItemsShape' /\ OpenShape'
  <2> DEFINE r == mount[d]
             new == ItemsWith(r, n)
             h == HandleOf(r, n)
  <2>1. r \in Remotes
    BY <1>0 DEF MountShape
  <2>2. /\ new \in Seq(Names) /\ Len(items[r]) <= Len(new)
        /\ h \in 1 .. Len(new) /\ new[h] = n
        /\ \A g \in 1 .. Len(items[r]) : new[g] = items[r][g]
        /\ \A f, g \in 1 .. Len(new) : new[f] = new[g] => f = g
    BY <1>0, <2>1, HandleFacts
  <2>3. /\ mount' = mount /\ items' = [items EXCEPT ![r] = new]
        /\ \A o \in open' : o \in open \/ o = [drive |-> d, name |-> n, cluster |-> h]
    BY <1>2 DEF NewOpen
  <2>4. r = mount[d]
    OBVIOUS
  <2> HIDE DEF r, new, h
  <2>5. MountShape'
    BY <1>0, <2>3 DEF MountShape
  <2>6. ItemsShape'
    <3>1. items' \in [Remotes -> Seq(Names)]
      BY <1>0, <2>1, <2>2, <2>3 DEF ItemsShape
    <3>2. ASSUME NEW q \in Remotes
          PROVE  \A f, g \in 1 .. Len(items'[q]) : items'[q][f] = items'[q][g] => f = g
      <4>1. CASE q = r
        <5>1. items'[q] = new
          BY <1>0, <2>1, <2>3, <4>1 DEF ItemsShape
        <5> QED
          BY <2>2, <5>1
      <4>2. CASE q # r
        <5>1. items'[q] = items[q]
          BY <1>0, <2>3, <4>2 DEF ItemsShape
        <5> QED
          BY <1>0, <5>1 DEF ItemsShape
      <4> QED
        BY <4>1, <4>2
    <3> QED
      BY <3>1, <3>2 DEF ItemsShape
  <2>7. OpenShape'
    <3> SUFFICES ASSUME NEW o \in open'
                 PROVE  /\ o \in OpenFile
                        /\ o.cluster \in 1 .. Len(items'[mount[o.drive]])
                        /\ items'[mount[o.drive]][o.cluster] = o.name
      BY <2>3 DEF OpenShape, PathOf
    <3>1. CASE o \in open
      <4>1. /\ o \in OpenFile
            /\ o.cluster \in 1 .. Len(items[mount[o.drive]])
            /\ items[mount[o.drive]][o.cluster] = o.name
        BY <1>0, <3>1 DEF OpenShape, PathOf
      <4>2. mount[o.drive] \in Remotes
        BY <1>0, <4>1 DEF MountShape, OpenFile
      <4>3. CASE mount[o.drive] = r
        <5>1. items'[mount[o.drive]] = new /\ Len(items[r]) \in Nat /\ Len(new) \in Nat
          BY <1>0, <2>1, <2>2, <2>3, <4>3 DEF ItemsShape
        <5> QED
          BY <2>2, <4>1, <4>3, <5>1
      <4>4. CASE mount[o.drive] # r
        <5>1. items'[mount[o.drive]] = items[mount[o.drive]]
          BY <1>0, <2>3, <4>2, <4>4 DEF ItemsShape
        <5> QED
          BY <4>1, <5>1
      <4> QED
        BY <4>3, <4>4
    <3>2. CASE o = [drive |-> d, name |-> n, cluster |-> h]
      <4>1. o.drive = d /\ o.name = n /\ o.cluster = h /\ h \in Nat
        BY <2>2, <3>2
      <4>2. items'[mount[o.drive]] = new
        BY <1>0, <2>1, <2>3, <2>4, <4>1 DEF ItemsShape
      <4>3. o \in OpenFile
        BY <3>2, <4>1 DEF OpenFile
      <4> QED
        BY <2>2, <4>1, <4>2, <4>3
    <3> QED
      BY <2>3, <3>1, <3>2
  <2> QED
    BY <2>5, <2>6, <2>7
<1>3. ASSUME NEW d \in Drives, NEW r \in Remotes, NEW m \in MinReadLens, Remount(d, r, m)
      PROVE  MountShape' /\ ItemsShape' /\ OpenShape'
  <2>1. /\ mount' = [mount EXCEPT ![d] = r] /\ UNCHANGED <<items, open>>
        /\ \A o \in open : o.drive # d
        /\ Aliases \/ \A e \in Drives \ {d} : mount[e] # r
    BY <1>3 DEF Remount
  <2>2. MountShape'
    BY <1>0, <2>1 DEF MountShape
  <2>3. ItemsShape'
    BY <1>0, <2>1 DEF ItemsShape
  <2>4. \A o \in open : mount'[o.drive] = mount[o.drive]
    BY <1>0, <2>1 DEF MountShape, OpenShape, OpenFile
  <2>5. OpenShape'
    BY <1>0, <2>1, <2>4 DEF OpenShape, PathOf
  <2> QED
    BY <2>2, <2>3, <2>5
<1> QED
  BY <1>1, <1>2, <1>3, HandleSteps

\* MIN_READ_LEN is set by NMMANAGE and MOUNT only, to a value they allow.
LEMMA NextLenShape ==
  ASSUME FileInv, [Next]_vars
  PROVE  LenShape'
<1>0. minLen \in [Drives -> MinReadLens]
  BY DEF FileInv, LenShape
<1>1. ASSUME UNCHANGED minLen PROVE LenShape'
  BY <1>0, <1>1 DEF LenShape
<1>2. CASE Reads
  <2>1. CASE \E o \in open, pos \in 0 .. MaxPos, n \in 1 .. MaxPos :
               ReadHit(o, pos, n) \/ ReadMiss(o, pos, n) \/ ReadBegin(o, pos, n)
    BY <1>1, <2>1 DEF ReadHit, ReadMiss, ReadBegin, serverVars
  <2>2. CASE ReadNextChunk \/ ReadFails
    BY <1>1, <2>2 DEF ReadNextChunk, ReadFails, serverVars
  <2> QED
    BY <1>2, <2>1, <2>2 DEF Reads
<1>3. CASE Writes
  BY <1>1, <1>3 DEF Writes, WriteBegin, WriteNextChunk, WriteRefused, WriteReplyLost,
                    WriteFails, serverVars
<1>4. CASE Opens
  BY <1>1, <1>4 DEF Opens, Open, Create, ExtendedCreate, ExtendedReplace, CreateReplyLost,
                    Close, Opened, serverVars
<1>5. CASE OtherCalls
  <2>1. CASE OtherCall
    BY <1>1, <2>1 DEF OtherCall, serverVars
  <2>2. CASE \E d \in Drives, n \in Names : Delete(d, n) \/ \E m \in Names : Rename(d, n, m)
    BY <1>1, <2>2 DEF Delete, Rename
  <2>3. ASSUME NEW d \in Drives, NEW m \in MinReadLens,
               SetMinReadLen(d, m) \/ \E r \in Remotes : Remount(d, r, m)
        PROVE  LenShape'
    <3>1. minLen' = [minLen EXCEPT ![d] = m]
      BY <2>3 DEF SetMinReadLen, Remount
    <3> QED
      BY <1>0, <3>1 DEF LenShape
  <2> QED
    BY <1>5, <2>1, <2>2, <2>3 DEF OtherCalls
<1>6. CASE Environment
  BY <1>1, <1>6 DEF Environment, ExecuteLate, OtherWrite, Tick, serverVars
<1>7. CASE UNCHANGED vars
  BY <1>1, <1>7 DEF vars, serverVars
<1> QED
  BY <1>2, <1>3, <1>4, <1>5, <1>6, <1>7 DEF Next

\* A chunk of a WRITE is not longer than what is left to write.
LEMMA ChunkFacts ==
  ASSUME FileInv, pc = "write"
  PROVE  /\ job.o \in open /\ job.pos \in Nat /\ job.n \in Nat /\ job.pos + job.n <= MaxPos
         /\ ChunkLen \in Nat /\ ChunkLen <= job.n /\ (ChunkLen = 0 => job.n = 0)
<1>1. /\ job.o \in open /\ job.pos \in Nat /\ job.n \in Nat /\ job.pos + job.n <= MaxPos
  BY JobFacts DEF FileInv, JobShape
<1> QED
  BY <1>1, FileAssumption DEF ChunkLen

\* A request that is late is a chunk of a WRITE.
LEMMA NextLateShape ==
  ASSUME FileInv, [Next]_vars
  PROVE  LateShape'
<1>0. late \in [Remotes -> Request \cup {NoRequest}]
  BY DEF FileInv, LateShape
<1>1. ASSUME UNCHANGED late PROVE LateShape'
  BY <1>0, <1>1 DEF LateShape
<1>2. ASSUME NEW r, Overtaken(r) PROVE LateShape'
  BY <1>0, <1>2 DEF LateShape, Overtaken
<1>3. CASE Reads
  <2>1. CASE \E o \in open, pos \in 0 .. MaxPos, n \in 1 .. MaxPos :
               ReadHit(o, pos, n) \/ ReadBegin(o, pos, n)
    BY <1>1, <2>1 DEF ReadHit, ReadBegin, serverVars
  <2>2. CASE \E o \in open, pos \in 0 .. MaxPos, n \in 1 .. MaxPos : ReadMiss(o, pos, n)
    BY <1>2, <2>2 DEF ReadMiss
  <2>3. CASE ReadNextChunk
    BY <1>2, <2>3 DEF ReadNextChunk
  <2>4. CASE ReadFails
    BY <1>1, <2>4 DEF ReadFails, serverVars
  <2> QED
    BY <1>3, <2>1, <2>2, <2>3, <2>4 DEF Reads
<1>4. CASE Writes
  <2>1. CASE \E o \in open, pos \in 0 .. MaxPos : \E n \in 0 .. MaxPos - pos :
               WriteBegin(o, pos, n)
    BY <1>1, <2>1 DEF WriteBegin, serverVars
  <2>2. CASE (\E k \in 0 .. WriteChunk : WriteNextChunk(k)) \/ WriteRefused \/ WriteReplyLost
    BY <1>2, <2>2 DEF WriteNextChunk, WriteRefused, WriteReplyLost
  <2>3. CASE WriteFails
    <3> DEFINE q == [name |-> PathOf(job.o), off |-> job.pos, n |-> ChunkLen]
    <3>1. pc = "write" /\ late' = [late EXCEPT ![mount[job.o.drive]] = q]
      BY <2>3 DEF WriteFails
    <3>2. /\ job.o \in open /\ job.pos \in Nat /\ job.n \in Nat
          /\ job.pos + job.n <= MaxPos /\ ChunkLen \in Nat /\ ChunkLen <= job.n
      BY <3>1, ChunkFacts
    <3>3. PathOf(job.o) \in Names
      BY <3>2, ContentFacts
    <3>4. job.pos + ChunkLen <= MaxPos
      BY <3>2, FileAssumption
    <3>5. q \in Request
      BY <3>2, <3>3, <3>4 DEF Request
    <3> HIDE DEF q
    <3> QED
      BY <1>0, <3>1, <3>5 DEF LateShape
  <2> QED
    BY <1>4, <2>1, <2>2, <2>3 DEF Writes
<1>5. CASE Opens
  <2>1. CASE \E o \in open : Close(o)
    BY <1>1, <2>1 DEF Close, serverVars
  <2>2. CASE \E d \in Drives, n \in Names :
               \/ Open(d, n) \/ Create(d, n)
               \/ ExtendedCreate(d, n) \/ ExtendedReplace(d, n)
               \/ CreateReplyLost(d, n)
    BY <1>2, <2>2 DEF Open, Create, ExtendedCreate, ExtendedReplace, CreateReplyLost, Opened
  <2> QED
    BY <1>5, <2>1, <2>2 DEF Opens
<1>6. CASE OtherCalls
  <2>1. CASE \/ OtherCall
             \/ \E d \in Drives, m \in MinReadLens :
                  SetMinReadLen(d, m) \/ \E r \in Remotes : Remount(d, r, m)
    BY <1>1, <2>1 DEF OtherCall, SetMinReadLen, Remount, serverVars
  <2>2. CASE \E d \in Drives, n \in Names : Delete(d, n) \/ \E m \in Names : Rename(d, n, m)
    BY <1>2, <2>2 DEF Delete, Rename
  <2> QED
    BY <1>6, <2>1, <2>2 DEF OtherCalls
<1>7. CASE Environment
  <2>1. CASE Tick
    BY <1>1, <2>1 DEF Tick, serverVars
  <2>2. CASE \E r \in Remotes : ExecuteLate(r)
    BY <1>2, <2>2 DEF ExecuteLate
  <2>3. CASE \E r \in Remotes : \E n \in Names, off \in 0 .. MaxPos - 1 : OtherWrite(r, n, off)
    BY <1>1, <2>3 DEF OtherWrite
  <2> QED
    BY <1>7, <2>1, <2>2, <2>3 DEF Environment
<1>8. CASE UNCHANGED vars
  BY <1>1, <1>8 DEF vars, serverVars
<1> QED
  BY <1>3, <1>4, <1>5, <1>6, <1>7, <1>8 DEF Next

\* What the server sends for an open file is bytes.
LEMMA ReplyFacts ==
  ASSUME FileInv, NEW o \in open, Content(o) # NoFile, NEW at \in Nat, NEW l \in Nat
  PROVE  /\ Content(o) \in Seq(Byte)
         /\ Slice(Content(o), at, l) \in Seq(Byte)
         /\ Len(Slice(Content(o), at, l)) \in Nat
         /\ Len(Slice(Content(o), at, l)) <= l
<1>1. Content(o) \in Seq(Byte)
  BY ContentFacts DEF Contents
<1>2. Slice(Content(o), at, l) \in Seq(Byte)
  BY <1>1, SliceProperties
<1>3. Len(Slice(Content(o), at, l)) \in Nat /\ Len(Slice(Content(o), at, l)) <= l
  BY <1>1, SliceOwnLength
<1> QED
  BY <1>1, <1>2, <1>3

\* The call under way keeps its shape: it stays, moves to its next chunk or
\* ends; and files are opened and closed between calls only.
LEMMA NextJobShape ==
  ASSUME FileInv, [Next]_vars
  PROVE  JobShape'
<1>0. JobShape
  BY DEF FileInv
<1>1. ASSUME UNCHANGED <<pc, job, open>> PROVE JobShape'
  BY <1>0, <1>1 DEF JobShape
<1>2. ASSUME pc' = "idle" PROVE JobShape'
  BY <1>2 DEF JobShape
<1>3. ASSUME NEW o \in open, NEW pos \in Nat, NEW n \in Nat,
             UNCHANGED open,
             job' = [o |-> o, pos |-> pos, n |-> n, data |-> << >>],
             pc' = "read" \/ (pc' = "write" /\ pos + n <= MaxPos)
      PROVE  JobShape'
  BY <1>3 DEF JobShape
<1>4. CASE Reads
  <2>1. CASE \E o \in open, pos \in 0 .. MaxPos, n \in 1 .. MaxPos :
               ReadHit(o, pos, n) \/ ReadMiss(o, pos, n)
    BY <1>2, <2>1 DEF ReadHit, ReadMiss, Idle
  <2>2. ASSUME NEW o \in open, NEW pos \in 0 .. MaxPos, NEW n \in 1 .. MaxPos,
               ReadBegin(o, pos, n)
        PROVE  JobShape'
    <3>1. pos \in Nat /\ n \in Nat
      BY FileAssumption
    <3> QED
      BY <1>3, <2>2, <3>1 DEF ReadBegin
  <2>3. CASE ReadNextChunk
    <3> DEFINE left == job.n - Len(job.data)
               chunk == IF left < ReadChunk THEN left ELSE ReadChunk
               reply == Slice(Content(job.o), job.pos + Len(job.data), chunk)
               data == job.data \o reply
    <3>1. /\ pc = "read" /\ UNCHANGED open
          /\ pc' = "idle" \/ (job' = [job EXCEPT !.data = data] /\ UNCHANGED pc)
      BY <2>3 DEF ReadNextChunk
    <3>2. Content(job.o) # NoFile
      BY <2>3 DEF ReadNextChunk
    <3>3. /\ job = [o |-> job.o, pos |-> job.pos, n |-> job.n, data |-> job.data]
          /\ job.o \in open /\ job.pos \in Nat /\ job.n \in Nat /\ job.data \in Seq(Byte)
      BY <3>1, JobFacts
    <3>4. Content(job.o) \in Seq(Byte)
      BY <3>2, <3>3, ContentFacts DEF Contents
    <3>5. reply \in Seq(Byte)
      <4> DEFINE e == IF job.pos + Len(job.data) + chunk <= Len(Content(job.o))
                      THEN job.pos + Len(job.data) + chunk ELSE Len(Content(job.o))
                 m == job.pos + Len(job.data) + 1
      <4>1. reply = SubSeq(Content(job.o), m, e)
        BY DEF Slice
      <4>2. m \in Int /\ m > 0 /\ e \in Int /\ e <= Len(Content(job.o))
        <5>1. job.pos \in Nat /\ Len(job.data) \in Nat /\ Len(Content(job.o)) \in Nat
          BY <3>3, <3>4, LenProperties
        <5>2. chunk \in Int
          BY <3>3, <5>1, FileAssumption
        <5> HIDE DEF chunk
        <5> QED
          BY <5>1, <5>2
      <4>3. \A i \in m .. e : Content(job.o)[i] \in Byte
        BY <3>4, <4>2
      <4> HIDE DEF m, e, reply
      <4>4. m \in Int /\ e \in Int
        BY <4>2
      <4>5. SubSeq(Content(job.o), m, e) \in Seq(Byte)
        BY <4>3, <4>4, SubSeqProperties
      <4> QED
        BY <4>1, <4>5
    <3> HIDE DEF reply
    <3>6. data \in Seq(Byte)
      BY <3>3, <3>5
    <3> HIDE DEF data
    <3>7. CASE pc' = "idle"
      BY <1>2, <3>7
    <3>8. CASE job' = [job EXCEPT !.data = data] /\ UNCHANGED pc
      <4>1. job' = [o |-> job.o, pos |-> job.pos, n |-> job.n, data |-> data]
        BY <3>3, <3>8
      <4> QED
        BY <3>1, <3>3, <3>6, <3>8, <4>1 DEF JobShape
    <3> QED
      BY <3>1, <3>7, <3>8
  <2>4. CASE ReadFails
    BY <1>2, <2>4 DEF ReadFails
  <2> QED
    BY <1>4, <2>1, <2>2, <2>3, <2>4 DEF Reads
<1>5. CASE Writes
  <2>1. ASSUME NEW o \in open, NEW pos \in 0 .. MaxPos, NEW n \in 0 .. MaxPos - pos,
               WriteBegin(o, pos, n)
        PROVE  JobShape'
    <3>1. pos \in Nat /\ n \in Nat /\ pos + n <= MaxPos
      BY FileAssumption
    <3> QED
      BY <1>3, <2>1, <3>1 DEF WriteBegin
  <2>2. ASSUME NEW k \in 0 .. WriteChunk, WriteNextChunk(k) PROVE JobShape'
    <3>1. /\ pc = "write" /\ UNCHANGED open /\ k \in 0 .. ChunkLen
          /\ pc' = "idle" \/ (job' = [job EXCEPT !.pos = @ + k, !.n = @ - k] /\ UNCHANGED pc)
      BY <2>2 DEF WriteNextChunk
    <3>2. /\ job = [o |-> job.o, pos |-> job.pos, n |-> job.n, data |-> job.data]
          /\ job.data \in Seq(Byte)
      BY <3>1, JobFacts
    <3>3. /\ job.o \in open /\ job.pos \in Nat /\ job.n \in Nat /\ job.pos + job.n <= MaxPos
          /\ ChunkLen \in Nat /\ ChunkLen <= job.n
      BY <3>1, ChunkFacts
    <3>4. CASE pc' = "idle"
      BY <1>2, <3>4
    <3>5. CASE job' = [job EXCEPT !.pos = @ + k, !.n = @ - k] /\ UNCHANGED pc
      <4>1. job' = [o |-> job.o, pos |-> job.pos + k, n |-> job.n - k, data |-> job.data]
        BY <3>2, <3>5
      <4>2. /\ job.pos + k \in Nat /\ job.n - k \in Nat
            /\ (job.pos + k) + (job.n - k) <= MaxPos
        BY <3>1, <3>3, FileAssumption
      <4> QED
        BY <3>1, <3>2, <3>3, <3>5, <4>1, <4>2 DEF JobShape
    <3> QED
      BY <3>1, <3>4, <3>5
  <2>3. CASE WriteRefused \/ WriteReplyLost \/ WriteFails
    BY <1>2, <2>3 DEF WriteRefused, WriteReplyLost, WriteFails
  <2> QED
    BY <1>5, <2>1, <2>2, <2>3 DEF Writes
<1>6. CASE Opens
  <2>1. pc' = "idle"
    BY <1>6 DEF Opens, Open, Create, ExtendedCreate, ExtendedReplace, CreateReplyLost, Close, Idle
  <2> QED
    BY <1>2, <2>1
<1>7. CASE OtherCalls
  <2>1. pc' = "idle"
    BY <1>7 DEF OtherCalls, Delete, Rename, SetMinReadLen, Remount, OtherCall, Idle
  <2> QED
    BY <1>2, <2>1
<1>8. CASE Environment
  <2>1. UNCHANGED <<pc, job, open>>
    BY <1>8 DEF Environment, ExecuteLate, OtherWrite, Tick
  <2> QED
    BY <1>1, <2>1
<1>9. CASE UNCHANGED vars
  BY <1>1, <1>9 DEF vars
<1> QED
  BY <1>4, <1>5, <1>6, <1>7, <1>8, <1>9 DEF Next

\* A READ that is smaller than MIN_READ_LEN is of a drive with a buffer.
LEMMA SmallRead ==
  ASSUME FileInv, NEW o \in open, NEW pos, NEW n \in Nat,
         ReadHit(o, pos, n) \/ ReadMiss(o, pos, n)
  PROVE  minLen[o.drive] \in Nat \ {0} /\ minLen[o.drive] <= BufferSize
<1>1. 0 < n /\ n < minLen[o.drive]
  BY DEF ReadHit, ReadMiss
<1>2. minLen[o.drive] \in MinReadLens
  BY ContentFacts DEF FileInv, LenShape
<1>3. minLen[o.drive] \in 0 .. BufferSize /\ BufferSize \in Nat
  BY <1>2, FileAssumption
<1> DEFINE m == minLen[o.drive]
<1>4. m \in 0 .. BufferSize /\ 0 < n /\ n < m
  BY <1>1, <1>3
<1> HIDE DEF m
<1>5. m \in Nat \ {0} /\ m <= BufferSize
  BY <1>3, <1>4
<1> QED
  BY <1>5 DEF m

\* The bytes a READ finds in the buffer.
LEMMA BufferedFacts ==
  ASSUME FileInv, NEW o, minLen[o.drive] \in Nat \ {0}, NEW pos \in Nat, NEW n \in Nat
  PROVE  LET have == Buffered(Checked, o, pos, n)
         IN  /\ have \in Seq(Byte) /\ Len(have) \in Nat /\ Len(have) <= n
             /\ have # << >> =>
                  /\ Checked = rb /\ rb.data # << >>
                  /\ rb.drive = o.drive /\ rb.cluster = o.cluster
                  /\ rb.offset = Align(pos, minLen[o.drive]) /\ pos - rb.offset \in Nat
                  /\ have = Slice(rb.data, pos - rb.offset, n)
<1> DEFINE have == Buffered(Checked, o, pos, n)
<1>0. BufferShape /\ rb.data \in Seq(Byte)
  BY DEF FileInv, DataShape
<1>1. Checked = rb \/ Checked.data = << >>
  BY <1>0, CheckedFacts
<1>2. CASE ~(Holds(Checked, o.drive, o.cluster) /\ Align(pos, minLen[o.drive]) = Checked.offset)
  <2>1. have = << >>
    BY <1>2 DEF Buffered
  <2> HIDE DEF have
  <2> QED
    BY <2>1 DEF have
<1>3. CASE Holds(Checked, o.drive, o.cluster) /\ Align(pos, minLen[o.drive]) = Checked.offset
  <2>1. /\ Checked = rb /\ rb.data # << >>
        /\ rb.drive = o.drive /\ rb.cluster = o.cluster /\ rb.offset = Align(pos, minLen[o.drive])
    BY <1>1, <1>3 DEF Holds
  <2>2. have = Slice(rb.data, pos - rb.offset, n)
    BY <1>3, <2>1 DEF Buffered
  <2>3. pos - rb.offset \in Nat
    BY <2>1, AlignFacts
  <2> DEFINE k == pos - rb.offset
  <2> HIDE DEF have
  <2>4. k \in Nat /\ have = Slice(rb.data, k, n)
    BY <2>2, <2>3
  <2> HIDE DEF k
  <2>5. have \in Seq(Byte)
    BY <1>0, <2>4, SliceProperties
  <2>6. Len(have) \in Nat /\ Len(have) <= n
    BY <1>0, <2>4, SliceOwnLength
  <2> QED
    BY <2>1, <2>2, <2>3, <2>5, <2>6 DEF have
<1> QED
  BY <1>2, <1>3

\* A READ that goes to the server asks for all that is missing and for the
\* rest of the block in which it ends.
LEMMA FetchFacts ==
  ASSUME NEW from \in Nat, NEW to \in Nat, from <= to, NEW m \in Nat \ {0}
  PROVE  /\ FetchFrom(from, to, m) \in Nat /\ FetchLen(from, to, m) \in Nat
         /\ FetchFrom(from, to, m) <= from /\ FetchFrom(from, to, m) <= Align(to, m)
         /\ FetchFrom(from, to, m) + FetchLen(from, to, m) = Align(to, m) + m
         /\ to < Align(to, m) + m
<1>1. Align(to, m) \in Nat /\ Align(to, m) <= to /\ to < Align(to, m) + m
  BY AlignFacts
<1>2. m \in Nat
  OBVIOUS
<1>3. FetchFrom(from, to, m) = IF Align(to, m) > from THEN from ELSE Align(to, m)
  BY DEF FetchFrom
<1>4. FetchLen(from, to, m) = Align(to, m) + m - FetchFrom(from, to, m)
  BY DEF FetchLen
<1> QED
  BY <1>1, <1>2, <1>3, <1>4

\* A refilled buffer holds a slice of the file, at most one block of it.
LEMMA RefillFacts ==
  ASSUME FileInv, NEW o \in open, Content(o) # NoFile,
         NEW from \in Nat, NEW to \in Nat, from <= to, NEW m \in Nat \ {0}
  PROVE  LET reply == Slice(Content(o), FetchFrom(from, to, m), FetchLen(from, to, m))
             b == Refill(o, from, to, m, reply)
         IN  /\ b = [drive |-> o.drive, cluster |-> o.cluster, offset |-> Align(to, m),
                     data |-> b.data, ts |-> clock]
             /\ b.data \in Seq(Byte) /\ Len(b.data) <= m
             /\ b.data = Slice(Content(o), Align(to, m), Len(b.data))
<1> DEFINE at == FetchFrom(from, to, m)
           l == FetchLen(from, to, m)
           k == Align(to, m) - at
           reply == Slice(Content(o), at, l)
           u == SubSeq(reply, k + 1, Len(reply))
           b == Refill(o, from, to, m, reply)
<1>1. b = [drive |-> o.drive, cluster |-> o.cluster, offset |-> Align(to, m),
           data |-> u, ts |-> clock]
  BY DEF Refill
<1>2. at \in Nat /\ l \in Nat /\ k \in Nat /\ k <= l /\ l - k = m /\ at + k = Align(to, m)
  <2>1. /\ at \in Nat /\ l \in Nat /\ at <= Align(to, m)
        /\ at + l = Align(to, m) + m
    BY FetchFacts
  <2>2. Align(to, m) \in Nat /\ m \in Nat
    BY AlignFacts
  <2>3. k = Align(to, m) - at
    OBVIOUS
  <2> HIDE DEF at, l, k
  <2> QED
    BY <2>1, <2>2, <2>3
<1>3. Content(o) \in Seq(Byte)
  BY ContentFacts DEF Contents
<1> HIDE DEF at, l, k
<1>4. u \in Seq(Byte) /\ Len(u) <= l - k /\ u = Slice(Content(o), at + k, Len(u))
  BY <1>2, <1>3, EndOfSlice
<1> HIDE DEF u
<1>5. Len(u) <= m /\ u = Slice(Content(o), Align(to, m), Len(u))
  BY <1>2, <1>4
<1> HIDE DEF b
<1>6. b.data = u
  BY <1>1
<1>7. /\ b = [drive |-> o.drive, cluster |-> o.cluster, offset |-> Align(to, m),
              data |-> b.data, ts |-> clock]
      /\ b.data \in Seq(Byte) /\ Len(b.data) <= m
      /\ b.data = Slice(Content(o), Align(to, m), Len(b.data))
  BY <1>1, <1>4, <1>5, <1>6
<1> QED
  BY <1>7 DEF b, reply, at, l

\* The buffer keeps its shape.
LEMMA NextBufferShape ==
  ASSUME FileInv, [Next]_vars
  PROVE  BufferShape' /\ DataShape'
<1>0. BufferShape /\ DataShape
  BY DEF FileInv
<1>1. ASSUME clock' \in 0 .. Day - 1, rb' = rb \/ rb' = Checked \/ rb' = Emptied(rb)
      PROVE  BufferShape' /\ DataShape'
  <2> DEFINE e == [drive |-> rb.drive, cluster |-> rb.cluster,
                  offset |-> rb.offset, data |-> << >>, ts |-> rb.ts]
  <2>1. rb' = rb \/ rb' = e
    BY <1>0, <1>1, CheckedFacts
  <2>2. CASE rb' = rb
    BY <1>0, <1>1, <2>2 DEF BufferShape, DataShape
  <2>3. CASE rb' = e
    <3>1. rb'.data = << >> /\ rb'.ts = rb.ts
      BY <2>3
    <3>2. << >> \in Seq(Byte) /\ Len(<< >>) <= BufferSize
      BY FileAssumption
    <3> QED
      BY <1>0, <1>1, <2>3, <3>1, <3>2 DEF BufferShape, DataShape
  <2> QED
    BY <2>1, <2>2, <2>3
<1>2. ASSUME UNCHANGED clock PROVE clock' \in 0 .. Day - 1
  BY <1>0, <1>2 DEF BufferShape
<1>3. CASE Reads
  <2>1. CASE \E o \in open, pos \in 0 .. MaxPos, n \in 1 .. MaxPos :
               ReadHit(o, pos, n) \/ ReadBegin(o, pos, n)
    BY <1>1, <1>2, <2>1 DEF ReadHit, ReadBegin
  <2>2. ASSUME NEW o \in open, NEW pos \in 0 .. MaxPos, NEW n \in 1 .. MaxPos,
               ReadMiss(o, pos, n)
        PROVE  BufferShape' /\ DataShape'
    <3> DEFINE m == minLen[o.drive]
               have == Buffered(Checked, o, pos, n)
               from == pos + Len(have)
               to == pos + n
               reply == Slice(Content(o), FetchFrom(from, to, m), FetchLen(from, to, m))
    <3>1. pos \in Nat /\ n \in Nat /\ to \in Nat
      BY FileAssumption
    <3>0. m \in Nat \ {0} /\ m <= BufferSize
      BY <2>2, <3>1, SmallRead
    <3>2. Len(have) \in Nat /\ Len(have) <= n
      BY <3>0, <3>1, BufferedFacts
    <3> HIDE DEF have
    <3>3. from \in Nat /\ from <= to
      BY <3>1, <3>2
    <3>4. /\ Content(o) # NoFile /\ UNCHANGED clock
          /\ rb' = Refill(o, from, to, m, reply) \/ rb' = Checked
      BY <2>2 DEF ReadMiss, have
    <3>5. CASE rb' = Checked
      BY <1>1, <1>2, <3>4, <3>5
    <3>6. CASE rb' = Refill(o, from, to, m, reply)
      <4> HIDE DEF from, to, m
      <4>1. /\ rb' = [drive |-> o.drive, cluster |-> o.cluster, offset |-> Align(to, m),
                      data |-> rb'.data, ts |-> clock]
            /\ rb'.data \in Seq(Byte) /\ Len(rb'.data) <= m
        BY <3>0, <3>1, <3>3, <3>4, <3>6, RefillFacts
      <4>2. Len(rb'.data) <= BufferSize
        BY <3>0, <4>1, FileAssumption
      <4> QED
        BY <1>0, <3>4, <4>1, <4>2 DEF BufferShape, DataShape
    <3> QED
      BY <3>4, <3>5, <3>6
  <2>3. CASE ReadNextChunk
    BY <1>1, <1>2, <2>3 DEF ReadNextChunk
  <2>4. CASE ReadFails
    BY <1>1, <1>2, <2>4 DEF ReadFails
  <2> QED
    BY <1>3, <2>1, <2>2, <2>3, <2>4 DEF Reads
<1>4. CASE Writes
  <2>1. UNCHANGED clock /\ (rb' = rb \/ rb' = Checked \/ rb' = Emptied(rb))
    BY <1>4 DEF Writes, WriteBegin, WriteNextChunk, WriteRefused, WriteReplyLost, WriteFails
  <2> QED
    BY <1>1, <1>2, <2>1
<1>5. CASE Opens
  <2>1. UNCHANGED clock /\ (rb' = Checked \/ rb' = Emptied(rb))
    BY <1>5 DEF Opens, Open, Create, ExtendedCreate, ExtendedReplace, CreateReplyLost,
                Close, Opened
  <2> QED
    BY <1>1, <1>2, <2>1
<1>6. CASE OtherCalls
  <2>1. UNCHANGED clock /\ (rb' = rb \/ rb' = Checked)
    BY <1>6 DEF OtherCalls, Delete, Rename, SetMinReadLen, Remount, OtherCall
  <2> QED
    BY <1>1, <1>2, <2>1
<1>7. CASE Environment
  <2>1. rb' = rb
    BY <1>7 DEF Environment, ExecuteLate, OtherWrite, Tick
  <2>2. clock' = clock \/ clock' = IF clock + 1 = Day THEN 0 ELSE clock + 1
    BY <1>7 DEF Environment, ExecuteLate, OtherWrite, Tick
  <2>3. clock' \in 0 .. Day - 1
    BY <1>0, <2>2, FileAssumption DEF BufferShape
  <2> QED
    BY <1>1, <2>1, <2>3
<1>8. CASE UNCHANGED vars
  BY <1>1, <1>2, <1>8 DEF vars
<1> QED
  BY <1>3, <1>4, <1>5, <1>6, <1>7, <1>8 DEF Next

\* The client is installed, and nothing is open.
LEMMA InitFileInv == Init => FileInv
<1> SUFFICES ASSUME Init PROVE FileInv
  OBVIOUS
<1>0. LenShape
  BY DEF Init, LenShape
<1>1. MountShape
  BY DEF Init, MountShape
<1>2. FileShape
  <2>1. PICK len \in [Remotes \X Names -> FirstLens \cup {NoFile}] :
          file = [r \in Remotes |-> [n \in Names |->
                   IF len[<<r, n>>] = NoFile THEN NoFile
                   ELSE FirstContent(r, n, len[<<r, n>>])]]
    BY DEF Init
  <2>2. ASSUME NEW r \in Remotes, NEW n \in Names, NEW l \in FirstLens
        PROVE  FirstContent(r, n, l) \in Contents
    <3>1. l \in Nat /\ l <= MaxPos /\ MaxPos \in Nat
      BY FileAssumption
    <3>2. \A k \in 1 .. l : <<r, n, k>> \in Byte
      BY <3>1 DEF Byte
    <3> DEFINE c == [k \in 1 .. l |-> <<r, n, k>>]
    <3>3. c \in [1 .. l -> Byte]
      BY <3>2
    <3> HIDE DEF c
    <3>4. c \in Seq(Byte) /\ Len(c) = l
      BY <3>1, <3>3
    <3> QED
      BY <3>1, <3>4 DEF FirstContent, Contents, c
  <2>3. ASSUME NEW r \in Remotes, NEW n \in Names
        PROVE  (IF len[<<r, n>>] = NoFile THEN NoFile
                ELSE FirstContent(r, n, len[<<r, n>>])) \in Contents \cup {NoFile}
    BY <2>2
  <2> QED
    BY <2>1, <2>3 DEF FileShape
<1>3. ItemsShape
  BY DEF Init, ItemsShape
<1>4. LateShape
  BY DEF Init, LateShape
<1>5. OpenShape
  BY DEF Init, OpenShape
<1>6. JobShape
  BY DEF Init, JobShape
<1>7. BufferShape
  BY InitTime DEF TimeInv
<1>8. DataShape
  <2>1. rb.data = << >>
    BY DEF Init
  <2>2. << >> \in Seq(Byte) /\ Len(<< >>) <= BufferSize
    BY FileAssumption
  <2> QED
    BY <2>1, <2>2 DEF DataShape
<1> QED
  BY <1>0, <1>1, <1>2, <1>3, <1>4, <1>5, <1>6, <1>7, <1>8 DEF FileInv

\* Every step keeps the shape of the state.
LEMMA NextFileInv == FileInv /\ [Next]_vars => FileInv'
  BY NextFileShape, NextHandleShape, NextLenShape, NextLateShape, NextJobShape, NextBufferShape
     DEF FileInv

\* The variables have their types, for any drives, files, block and chunk
\* sizes, whatever calls fail, whatever other clients write and whichever
\* drives are mounted anew, from one remote or several: files stay within the
\* bound, every open file has a handle that its server knows, and the buffer
\* never holds more than its size (read_file_buffer.data).
THEOREM FileTypeOK == Spec => []TypeOK
<1>1. FileInv => TypeOK
  <2> SUFFICES ASSUME FileInv PROVE TypeOK
    OBVIOUS
  <2>1. mount \in [Drives -> Remotes] /\ minLen \in [Drives -> MinReadLens]
    BY DEF FileInv, MountShape, LenShape
  <2>2. ASSUME NEW r \in Remotes, NEW n \in Names, file[r][n] # NoFile
        PROVE  Len(file[r][n]) <= MaxPos /\ \A i \in 1 .. Len(file[r][n]) : file[r][n][i] \in Byte
    <3>1. file[r][n] \in Contents
      BY <2>2 DEF FileInv, FileShape
    <3> QED
      BY <3>1 DEF Contents
  <2>3. \A o \in open : o \in OpenFile /\ o.cluster \in 1 .. Len(items[mount[o.drive]])
    BY DEF FileInv, OpenShape
  <2>4. Len(rb.data) <= BufferSize /\ clock \in 0 .. Day - 1
    BY DEF FileInv, DataShape, BufferShape
  <2> QED
    BY <2>1, <2>2, <2>3, <2>4 DEF TypeOK
<1> QED
  BY <1>1, InitFileInv, NextFileInv, PTL DEF Spec

-----------------------------------------------------------------------------
(* The buffer stays coherent *)

\* What a buffer that holds bytes tells about them.
LEMMA BufferFacts ==
  ASSUME FileInv, BufferInv, rb.data # << >>
  PROVE  /\ rb.drive \in Drives /\ Owner \in Remotes /\ Path \in Names
         /\ rb.cluster \in 1 .. Len(items[Owner])
         /\ rb.offset \in Nat /\ rb.data \in Seq(Byte)
         /\ Len(rb.data) \in Nat /\ Len(rb.data) # 0
         /\ file[Owner][Path] # NoFile /\ file[Owner][Path] \in Seq(Byte)
         /\ rb.data = Slice(file[Owner][Path], rb.offset, Len(rb.data))
<1>1. rb.drive \in Drives /\ rb.offset \in Nat /\ rb.cluster \in 1 .. Len(items[Owner])
  BY DEF BufferInv
<1>2. Owner \in Remotes
  BY <1>1 DEF Owner, FileInv, MountShape
<1>3. Path \in Names
  BY <1>1, <1>2 DEF Path, FileInv, ItemsShape
<1>4. /\ file[Owner][Path] # NoFile
      /\ rb.data = Slice(file[Owner][Path], rb.offset, Len(rb.data))
  BY DEF BufferInv, BufferCoherent, Owner, Path
<1>5. file[Owner][Path] \in Seq(Byte)
  BY <1>2, <1>3, <1>4 DEF FileInv, FileShape, Contents
<1>6. rb.data \in Seq(Byte) /\ Len(rb.data) \in Nat /\ Len(rb.data) # 0
  BY DEF FileInv, DataShape
<1> QED
  BY <1>1, <1>2, <1>3, <1>4, <1>5, <1>6

\* Only the file behind the buffer's drive and handle is the buffered one, if no
\* other drive is mounted from the same remote.
LEMMA OwnFile ==
  ASSUME ~Aliases, FileInv, BufferInv, rb.data # << >>, NEW o \in open
  PROVE  (mount[o.drive] = Owner /\ PathOf(o) = Path) <=>
           (o.drive = rb.drive /\ o.cluster = rb.cluster)
<1>1. o.drive \in Drives /\ o.cluster \in 1 .. Len(items[mount[o.drive]])
  BY ContentFacts
<1>2. rb.drive \in Drives /\ Owner \in Remotes /\ rb.cluster \in 1 .. Len(items[Owner])
  BY BufferFacts
<1>3. ASSUME mount[o.drive] = Owner, PathOf(o) = Path
      PROVE  o.drive = rb.drive /\ o.cluster = rb.cluster
  <2>1. o.drive = rb.drive
    BY <1>1, <1>2, <1>3 DEF Owner, FileInv, MountShape
  <2>2. items[Owner][o.cluster] = items[Owner][rb.cluster] /\ o.cluster \in 1 .. Len(items[Owner])
    BY <1>1, <1>3 DEF PathOf, Path
  <2> QED
    BY <1>2, <2>1, <2>2 DEF FileInv, ItemsShape
<1>4. ASSUME o.drive = rb.drive, o.cluster = rb.cluster
      PROVE  mount[o.drive] = Owner /\ PathOf(o) = Path
  BY <1>4 DEF PathOf, Path, Owner
<1> QED
  BY <1>3, <1>4

\* A file that changes elsewhere, or around the buffered bytes.
LEMMA ContentKept ==
  ASSUME FileInv, BufferInv, rb.data # << >>,
         NEW r \in Remotes, NEW n \in Names, NEW c \in Contents,
         file' = [file EXCEPT ![r][n] = c],
         r = Owner /\ n = Path => Slice(c, rb.offset, Len(rb.data)) = rb.data
  PROVE  /\ file'[Owner][Path] # NoFile
         /\ rb.data = Slice(file'[Owner][Path], rb.offset, Len(rb.data))
<1>1. /\ Owner \in Remotes /\ Path \in Names /\ file[Owner][Path] # NoFile
      /\ rb.data = Slice(file[Owner][Path], rb.offset, Len(rb.data))
  BY BufferFacts
<1>2. c # NoFile
  BY NoFileAssumption DEF Contents
<1>3. CASE r = Owner /\ n = Path
  <2>1. file'[Owner][Path] = c
    BY <1>1, <1>3 DEF FileInv, FileShape
  <2> QED
    BY <1>2, <1>3, <2>1
<1>4. CASE ~(r = Owner /\ n = Path)
  <2>1. file'[Owner][Path] = file[Owner][Path]
    BY <1>1, <1>4 DEF FileInv, FileShape
  <2> QED
    BY <1>1, <2>1
<1> QED
  BY <1>3, <1>4

\* A write that misses the buffered bytes, if it is to their file at all.
LEMMA WriteKept ==
  ASSUME FileInv, BufferInv, rb.data # << >>,
         NEW r \in Remotes, NEW n \in Names, NEW off \in Nat, NEW k \in Nat,
         off + k <= MaxPos, file[r][n] # NoFile,
         file' = [file EXCEPT ![r][n] = Written(file[r][n], off, k)],
         r = Owner /\ n = Path => Misses(off, k)
  PROVE  /\ file'[Owner][Path] # NoFile
         /\ rb.data = Slice(file'[Owner][Path], rb.offset, Len(rb.data))
<1> DEFINE s == file[r][n]
           w == Written(s, off, k)
           l == Len(rb.data)
<1>1. s \in Contents
  BY DEF FileInv, FileShape
<1>2. w \in Contents
  BY <1>1, WrittenContents
<1>3. ASSUME r = Owner, n = Path PROVE Slice(w, rb.offset, l) = rb.data
  <2>1. /\ rb.offset \in Nat /\ l \in Nat /\ l # 0
        /\ rb.data = Slice(s, rb.offset, l)
    BY <1>3, BufferFacts
  <2>2. s \in Seq(Byte)
    BY <1>1 DEF Contents
  <2>3. off >= rb.offset + l \/ (k # 0 /\ off + k <= rb.offset)
    BY <1>3 DEF Misses
  <2>4. Len(Slice(s, rb.offset, l)) = l
    BY <2>1
  <2> HIDE DEF s, l
  <2>5. Slice(Written(s, off, k), rb.offset, l) = Slice(s, rb.offset, l)
    BY <2>1, <2>2, <2>3, <2>4, WrittenKeeps
  <2> QED
    BY <2>1, <2>5
<1>4. file' = [file EXCEPT ![r][n] = w]
  OBVIOUS
<1> HIDE DEF w
<1> QED
  BY <1>2, <1>3, <1>4, ContentKept

\* A step that mounts nothing anew; no handle ever gets another path.
HandlesKept ==
  /\ UNCHANGED mount
  /\ \A r \in Remotes : \A h \in 1 .. Len(items[r]) :
       h \in 1 .. Len(items'[r]) /\ items'[r][h] = items[r][h]

\* Handles are kept unless a drive is mounted anew.
LEMMA NextHandlesKept ==
  ASSUME FileInv, [Next]_vars, ~Remounts
  PROVE  HandlesKept
<1>1. CASE UNCHANGED <<mount, items>> /\ open' \subseteq open
  BY <1>1 DEF HandlesKept
<1>2. ASSUME NEW d \in Drives, NEW n \in Names,
             UNCHANGED mount,
             items' = [items EXCEPT ![mount[d]] = ItemsWith(mount[d], n)]
      PROVE  HandlesKept
  <2> DEFINE r == mount[d]
             new == ItemsWith(r, n)
  <2>1. r \in Remotes /\ ItemsShape
    BY DEF FileInv, MountShape
  <2>2. /\ new \in Seq(Names) /\ Len(items[r]) <= Len(new)
        /\ \A g \in 1 .. Len(items[r]) : new[g] = items[r][g]
    BY <2>1, HandleFacts
  <2>3. items' = [items EXCEPT ![r] = new]
    BY <1>2
  <2> HIDE DEF r, new
  <2>4. ASSUME NEW q \in Remotes, NEW h \in 1 .. Len(items[q])
        PROVE  h \in 1 .. Len(items'[q]) /\ items'[q][h] = items[q][h]
    <3>1. CASE q = r
      <4>1. items'[q] = new /\ Len(items[r]) \in Nat /\ Len(new) \in Nat
        BY <2>1, <2>2, <2>3, <3>1 DEF ItemsShape
      <4> QED
        BY <2>2, <3>1, <4>1
    <3>2. CASE q # r
      <4>1. items'[q] = items[q]
        BY <2>1, <2>3, <3>2 DEF ItemsShape
      <4> QED
        BY <4>1
    <3> QED
      BY <3>1, <3>2
  <2> QED
    BY <1>2, <2>4 DEF HandlesKept
<1>3. ASSUME NEW d \in Drives, NEW r \in Remotes, NEW m \in MinReadLens, Remount(d, r, m) PROVE FALSE
  BY <1>3 DEF Remount
<1> QED
  BY <1>1, <1>2, <1>3, HandleSteps

\* The buffer is left or emptied: what is left is coherent if the file, the
\* late requests and the call under way leave its bytes alone.
LEMMA BufferKept ==
  ASSUME FileInv, BufferInv, HandlesKept,
         rb' = rb \/ rb' = Checked \/ rb' = Emptied(rb),
         rb.data # << >> /\ rb' = rb =>
           /\ file'[Owner][Path] # NoFile
           /\ rb.data = Slice(file'[Owner][Path], rb.offset, Len(rb.data))
           /\ \/ late'[Owner] = NoRequest \/ late'[Owner] = late[Owner]
              \/ late'[Owner].name = Path => Misses(late'[Owner].off, late'[Owner].n)
           /\ pc' = "write" /\ job'.o.drive = rb.drive /\ job'.o.cluster = rb.cluster =>
                Misses(job'.pos, job'.n)
  PROVE  BufferInv'
<1>1. CASE rb'.data = << >>
  BY <1>1 DEF BufferInv
<1>2. CASE rb'.data # << >>
  <2>1. rb' = rb
    <3>1. BufferShape
      BY DEF FileInv
    <3>2. Emptied(rb).data = << >> /\ (Checked = rb \/ Checked = Emptied(rb))
      BY <3>1, CheckedFacts
    <3> QED
      BY <1>2, <3>2
  <2>2. rb.data # << >>
    BY <1>2, <2>1
  <2>3. rb.drive \in Drives /\ rb.offset \in Nat /\ rb.cluster \in 1 .. Len(items[Owner])
    BY <2>2, BufferFacts
  <2>4. Owner' = Owner /\ Owner \in Remotes
    BY <2>1, <2>2, BufferFacts DEF HandlesKept, Owner
  <2>5. rb.cluster \in 1 .. Len(items'[Owner]) /\ Path' = Path
    BY <2>1, <2>3, <2>4 DEF HandlesKept, Path
  <2>6. BufferCoherent'
    BY <2>1, <2>2, <2>4, <2>5 DEF BufferCoherent, Owner, Path
  <2>7. LateMisses'
    <3> SUFFICES ASSUME late'[Owner] # NoRequest, late'[Owner].name = Path
                 PROVE  Misses(late'[Owner].off, late'[Owner].n)
      BY <2>1, <2>4, <2>5 DEF LateMisses, Misses
    <3>1. LateMisses
      BY <2>2 DEF BufferInv
    <3> QED
      BY <2>1, <2>2, <3>1 DEF LateMisses
  <2>8. JobMisses'
    BY <2>1, <2>2 DEF JobMisses, Misses
  <2> QED
    BY <2>1, <2>3, <2>4, <2>5, <2>6, <2>7, <2>8 DEF BufferInv
<1> QED
  BY <1>1, <1>2

\* A step that changes no file, starts no WRITE and leaves no request late.
LEMMA QuietBuffer ==
  ASSUME FileInv, BufferInv, HandlesKept, UNCHANGED file,
         rb' = rb \/ rb' = Checked \/ rb' = Emptied(rb),
         UNCHANGED late \/ \E r : Overtaken(r),
         pc' = "idle" \/ pc' = "read" \/ UNCHANGED <<pc, job>>
  PROVE  BufferInv'
<1>1. ASSUME rb.data # << >>, rb' = rb
      PROVE  /\ file'[Owner][Path] # NoFile
             /\ rb.data = Slice(file'[Owner][Path], rb.offset, Len(rb.data))
             /\ late'[Owner] = NoRequest \/ late'[Owner] = late[Owner]
             /\ pc' = "write" /\ job'.o.drive = rb.drive /\ job'.o.cluster = rb.cluster =>
                  Misses(job'.pos, job'.n)
  <2>1. /\ Owner \in Remotes /\ file[Owner][Path] # NoFile
        /\ rb.data = Slice(file[Owner][Path], rb.offset, Len(rb.data))
    BY <1>1, BufferFacts
  <2>2. late'[Owner] = NoRequest \/ late'[Owner] = late[Owner]
    BY <2>1 DEF Overtaken, FileInv, LateShape
  <2>3. JobMisses
    BY <1>1 DEF BufferInv
  <2> QED
    BY <2>1, <2>2, <2>3 DEF JobMisses
<1> QED
  BY <1>1, BufferKept

\* A READ that misses the buffer puts a block of its own file into it, and the
\* answer says that no earlier request can come any more.
LEMMA ReadMissBuffer ==
  ASSUME FileInv, BufferInv, HandlesKept,
         NEW o \in open, NEW pos \in 0 .. MaxPos, NEW n \in 1 .. MaxPos, ReadMiss(o, pos, n)
  PROVE  BufferInv'
<1> DEFINE m == minLen[o.drive]
           have == Buffered(Checked, o, pos, n)
           from == pos + Len(have)
           to == pos + n
           reply == Slice(Content(o), FetchFrom(from, to, m), FetchLen(from, to, m))
<1>1. pos \in Nat /\ n \in Nat /\ to \in Nat
  BY FileAssumption
<1>0. m \in Nat \ {0}
  BY <1>1, SmallRead
<1>2. Len(have) \in Nat /\ Len(have) <= n
  BY <1>0, <1>1, BufferedFacts
<1> HIDE DEF have
<1>3. from \in Nat /\ from <= to
  BY <1>1, <1>2
<1>4. /\ Content(o) # NoFile /\ pc' = "idle"
      /\ UNCHANGED <<mount, file, items>> /\ Overtaken(mount[o.drive])
      /\ rb' = Refill(o, from, to, m, reply) \/ rb' = Checked
  BY DEF ReadMiss, Idle, have
<1>5. CASE rb' = Checked
  BY <1>4, <1>5, QuietBuffer
<1>6. CASE rb' = Refill(o, from, to, m, reply)
  <2> HIDE DEF from, to, m
  <2>1. /\ rb' = [drive |-> o.drive, cluster |-> o.cluster, offset |-> Align(to, m),
                  data |-> rb'.data, ts |-> clock]
        /\ rb'.data = Slice(Content(o), Align(to, m), Len(rb'.data))
    BY <1>0, <1>1, <1>3, <1>4, <1>6, RefillFacts
  <2>2. rb'.drive = o.drive /\ rb'.cluster = o.cluster /\ rb'.offset = Align(to, m)
    BY <2>1
  <2>3. /\ o.drive \in Drives /\ mount[o.drive] \in Remotes
        /\ o.cluster \in 1 .. Len(items[mount[o.drive]])
    BY ContentFacts
  <2>4. Owner' = mount[o.drive] /\ items' = items
    BY <1>4, <2>2 DEF Owner
  <2>5. BufferCoherent'
    <3>1. file'[mount'[rb'.drive]][items'[mount'[rb'.drive]][rb'.cluster]] = Content(o)
      BY <1>4, <2>2 DEF Content, PathOf
    <3> QED
      BY <1>4, <2>1, <2>2, <3>1 DEF BufferCoherent
  <2>6. late'[Owner'] = NoRequest
    BY <1>4, <2>3, <2>4 DEF Overtaken, FileInv, LateShape
  <2>7. LateMisses' /\ JobMisses'
    BY <1>4, <2>6 DEF LateMisses, JobMisses
  <2>8. rb'.offset \in Nat
    BY <1>0, <1>1, <2>2, AlignFacts DEF to
  <2> QED
    BY <2>2, <2>3, <2>4, <2>5, <2>7, <2>8 DEF BufferInv
<1> QED
  BY <1>4, <1>5, <1>6

\* WRITE empties a buffer whose bytes it may touch before the first request.
LEMMA WriteBeginBuffer ==
  ASSUME FileInv, BufferInv, HandlesKept,
         NEW o \in open, NEW pos \in Nat, NEW n \in Nat, WriteBegin(o, pos, n)
  PROVE  BufferInv'
<1>1. /\ UNCHANGED <<file, late>>
      /\ job' = [o |-> o, pos |-> pos, n |-> n, data |-> << >>]
      /\ rb' = IF Overlaps(Checked, o, pos, n) THEN Emptied(rb) ELSE Checked
  BY DEF WriteBegin, serverVars
<1>2. rb' = Checked \/ rb' = Emptied(rb)
  BY <1>1
<1>3. ASSUME rb.data # << >>, rb' = rb
      PROVE  /\ file'[Owner][Path] # NoFile
             /\ rb.data = Slice(file'[Owner][Path], rb.offset, Len(rb.data))
             /\ late'[Owner] = late[Owner]
             /\ pc' = "write" /\ job'.o.drive = rb.drive /\ job'.o.cluster = rb.cluster =>
                  Misses(job'.pos, job'.n)
  <2>1. Checked = rb /\ ~Overlaps(rb, o, pos, n)
    <3>1. Emptied(rb).data = << >> /\ (Checked = rb \/ Checked = Emptied(rb))
      BY CheckedFacts DEF FileInv
    <3> QED
      BY <1>1, <1>3, <3>1
  <2>2. rb.offset \in Nat /\ Len(rb.data) \in Nat
    BY <1>3, BufferFacts
  <2>3. job'.o = o /\ job'.pos = pos /\ job'.n = n
    BY <1>1
  <2>4. rb.drive = o.drive /\ rb.cluster = o.cluster => Misses(pos, n)
    BY <1>3, <2>1, <2>2 DEF Overlaps, Holds, Misses
  <2>5. /\ file[Owner][Path] # NoFile
        /\ rb.data = Slice(file[Owner][Path], rb.offset, Len(rb.data))
    BY <1>3, BufferFacts
  <2> QED
    BY <1>1, <2>3, <2>4, <2>5
<1> QED
  BY <1>2, <1>3, BufferKept

\* A chunk that is executed was checked when the call began, and so was what
\* is left of it.
LEMMA ChunkBuffer ==
  ASSUME ~Aliases, FileInv, BufferInv, HandlesKept, pc = "write", UNCHANGED rb,
         Overtaken(mount[job.o.drive]), Content(job.o) # NoFile,
         NEW k \in Nat, k <= ChunkLen, k = 0 => job.n = 0,
         ChangeFile(mount[job.o.drive], PathOf(job.o), Written(Content(job.o), job.pos, k)),
         pc' = "idle" \/ (job'.o = job.o /\ job'.pos = job.pos + k /\ job'.n = job.n - k /\ k < job.n)
  PROVE  BufferInv'
<1> DEFINE r == mount[job.o.drive]
           f == PathOf(job.o)
<1>1. /\ job.o \in open /\ job.pos \in Nat /\ job.n \in Nat /\ job.pos + job.n <= MaxPos
      /\ ChunkLen \in Nat /\ ChunkLen <= job.n
  BY ChunkFacts
<1>2. r \in Remotes /\ f \in Names /\ Content(job.o) = file[r][f] /\ job.pos + k <= MaxPos
  BY <1>1, ContentFacts, FileAssumption
<1>3. file' = [file EXCEPT ![r][f] = Written(file[r][f], job.pos, k)] /\ file[r][f] # NoFile
  BY <1>2 DEF ChangeFile
<1>4. SUFFICES ASSUME rb.data # << >>
               PROVE  /\ file'[Owner][Path] # NoFile
                      /\ rb.data = Slice(file'[Owner][Path], rb.offset, Len(rb.data))
                      /\ late'[Owner] = NoRequest \/ late'[Owner] = late[Owner]
                      /\ pc' = "write" /\ job'.o.drive = rb.drive
                           /\ job'.o.cluster = rb.cluster => Misses(job'.pos, job'.n)
  BY BufferKept
<1>5. rb.offset \in Nat /\ Len(rb.data) \in Nat /\ Owner \in Remotes
  BY <1>4, BufferFacts
<1>6. job.o.drive = rb.drive /\ job.o.cluster = rb.cluster => Misses(job.pos, job.n)
  BY <1>4 DEF BufferInv, JobMisses
<1>7. job.o.drive = rb.drive /\ job.o.cluster = rb.cluster =>
        Misses(job.pos, k) /\ (k < job.n => Misses(job.pos + k, job.n - k))
  BY <1>1, <1>5, <1>6 DEF Misses
<1>8. r = Owner /\ f = Path => Misses(job.pos, k)
  BY <1>1, <1>4, <1>7, OwnFile
<1> HIDE DEF r, f
<1>9. /\ file'[Owner][Path] # NoFile
      /\ rb.data = Slice(file'[Owner][Path], rb.offset, Len(rb.data))
  BY <1>1, <1>2, <1>3, <1>4, <1>8, WriteKept
<1>10. late'[Owner] = NoRequest \/ late'[Owner] = late[Owner]
  BY <1>5 DEF Overtaken, FileInv, LateShape
<1> QED
  BY <1>7, <1>9, <1>10

\* WRITE, whatever becomes of it.
LEMMA WritesBuffer ==
  ASSUME ~Aliases, FileInv, BufferInv, HandlesKept, Writes
  PROVE  BufferInv'
<1>1. ASSUME NEW o \in open, NEW pos \in 0 .. MaxPos, NEW n \in 0 .. MaxPos - pos,
             WriteBegin(o, pos, n)
      PROVE  BufferInv'
  <2>1. pos \in Nat /\ n \in Nat
    BY FileAssumption
  <2> QED
    BY <1>1, <2>1, WriteBeginBuffer
<1>2. ASSUME NEW k \in 0 .. WriteChunk, WriteNextChunk(k) PROVE BufferInv'
  <2>1. /\ pc = "write" /\ Content(job.o) # NoFile /\ k \in 0 .. ChunkLen
        /\ Overtaken(mount[job.o.drive]) /\ UNCHANGED rb
        /\ \/ pc' = "idle"
           \/ ~(k < ChunkLen) /\ k # job.n
              /\ job' = [job EXCEPT !.pos = @ + k, !.n = @ - k]
    BY <1>2 DEF WriteNextChunk
  <2>2. /\ job.pos \in Nat /\ job.n \in Nat
        /\ ChunkLen \in Nat /\ ChunkLen <= job.n /\ (ChunkLen = 0 => job.n = 0)
    BY <2>1, ChunkFacts
  <2>3. job = [o |-> job.o, pos |-> job.pos, n |-> job.n, data |-> job.data]
    BY <2>1, JobFacts
  <2>4. \/ pc' = "idle"
        \/ job'.o = job.o /\ job'.pos = job.pos + k /\ job'.n = job.n - k /\ k < job.n /\ k # 0
    <3>1. ~(k < ChunkLen) /\ k # job.n => k < job.n /\ k # 0
      BY <2>1, <2>2
    <3>2. job' = [job EXCEPT !.pos = @ + k, !.n = @ - k] =>
            job' = [o |-> job.o, pos |-> job.pos + k, n |-> job.n - k, data |-> job.data]
      BY <2>3
    <3> QED
      BY <2>1, <3>1, <3>2
  <2>5. CASE k = 0 /\ job.n > 0
    <3>1. UNCHANGED file /\ pc' = "idle"
      BY <1>2, <2>4, <2>5 DEF WriteNextChunk
    <3> QED
      BY <2>1, <3>1, QuietBuffer
  <2>6. CASE ~(k = 0 /\ job.n > 0)
    <3>1. ChangeFile(mount[job.o.drive], PathOf(job.o), Written(Content(job.o), job.pos, k))
      BY <1>2, <2>6 DEF WriteNextChunk
    <3>2. k \in Nat /\ k <= ChunkLen /\ (k = 0 => job.n = 0)
      BY <2>1, <2>2, <2>6
    <3> QED
      BY <2>1, <2>4, <3>1, <3>2, ChunkBuffer
  <2> QED
    BY <2>5, <2>6
<1>3. CASE WriteRefused
  BY <1>3, QuietBuffer DEF WriteRefused
<1>4. CASE WriteReplyLost
  <2>1. /\ pc = "write" /\ Content(job.o) # NoFile /\ UNCHANGED rb
        /\ Overtaken(mount[job.o.drive]) /\ pc' = "idle"
        /\ ChangeFile(mount[job.o.drive], PathOf(job.o),
                      Written(Content(job.o), job.pos, ChunkLen))
    BY <1>4 DEF WriteReplyLost
  <2>2. ChunkLen \in Nat /\ ChunkLen <= ChunkLen /\ (ChunkLen = 0 => job.n = 0)
    BY <2>1, ChunkFacts
  <2> HIDE DEF ChunkLen
  <2> QED
    BY <2>1, <2>2, ChunkBuffer
<1>5. CASE WriteFails
  <2> DEFINE q == [name |-> PathOf(job.o), off |-> job.pos, n |-> ChunkLen]
  <2>1. /\ pc = "write" /\ UNCHANGED <<file, rb>> /\ pc' = "idle"
        /\ late' = [late EXCEPT ![mount[job.o.drive]] = q]
    BY <1>5 DEF WriteFails
  <2>2. /\ job.o \in open /\ job.pos \in Nat /\ job.n \in Nat
        /\ ChunkLen \in Nat /\ ChunkLen <= job.n /\ (ChunkLen = 0 => job.n = 0)
    BY <2>1, ChunkFacts
  <2>3. q.name = PathOf(job.o) /\ q.off = job.pos /\ q.n = ChunkLen
    OBVIOUS
  <2> HIDE DEF q
  <2>4. ASSUME rb.data # << >>
        PROVE  /\ file'[Owner][Path] # NoFile
               /\ rb.data = Slice(file'[Owner][Path], rb.offset, Len(rb.data))
               /\ \/ late'[Owner] = late[Owner]
                  \/ late'[Owner].name = Path => Misses(late'[Owner].off, late'[Owner].n)
    <3>1. /\ rb.offset \in Nat /\ Len(rb.data) \in Nat /\ Owner \in Remotes
          /\ file[Owner][Path] # NoFile
          /\ rb.data = Slice(file[Owner][Path], rb.offset, Len(rb.data))
      BY <2>4, BufferFacts
    <3>2. CASE mount[job.o.drive] # Owner
      BY <2>1, <3>1, <3>2 DEF FileInv, LateShape
    <3>3. CASE mount[job.o.drive] = Owner
      <4>1. late'[Owner] = q
        BY <2>1, <3>1, <3>3 DEF FileInv, LateShape
      <4>2. PathOf(job.o) = Path => Misses(job.pos, job.n)
        BY <2>1, <2>2, <2>4, <3>3, OwnFile DEF BufferInv, JobMisses
      <4>3. PathOf(job.o) = Path => Misses(job.pos, ChunkLen)
        BY <2>2, <3>1, <4>2 DEF Misses
      <4> QED
        BY <2>1, <2>3, <3>1, <4>1, <4>3
    <3> QED
      BY <3>2, <3>3
  <2> QED
    BY <2>1, <2>4, BufferKept
<1> QED
  BY <1>1, <1>2, <1>3, <1>4, <1>5 DEF Writes

\* A file that is emptied is not the buffered one, or the buffer is emptied.
LEMMA OpensBuffer ==
  ASSUME ~Aliases, FileInv, BufferInv, HandlesKept, Opens, "create" \notin LostCalls
  PROVE  BufferInv'
<1>1. CASE \E o \in open : Close(o)
  BY <1>1, QuietBuffer DEF Close, Idle, serverVars
<1>2. ASSUME NEW d \in Drives, NEW n \in Names, Open(d, n) PROVE BufferInv'
  BY <1>2, QuietBuffer DEF Open, Opened, Idle
<1>3. ASSUME NEW d \in Drives, NEW n \in Names, Create(d, n) PROVE BufferInv'
  <2>1. rb' = Emptied(rb) /\ Emptied(rb).data = << >>
    BY <1>3, CheckedFacts DEF Create, FileInv
  <2> QED
    BY <2>1 DEF BufferInv
<1>4. ASSUME NEW d \in Drives, NEW n \in Names,
             ChangeFile(mount[d], n, << >>), Overtaken(mount[d]), pc' = "idle",
             rb' = Checked \/ rb' = Emptied(rb),
             rb.data # << >> /\ rb' = rb => ~(mount[d] = Owner /\ n = Path)
      PROVE  BufferInv'
  <2> SUFFICES ASSUME rb.data # << >>, rb' = rb
               PROVE  /\ file'[Owner][Path] # NoFile
                      /\ rb.data = Slice(file'[Owner][Path], rb.offset, Len(rb.data))
                      /\ late'[Owner] = NoRequest \/ late'[Owner] = late[Owner]
    BY <1>4, BufferKept
  <2>1. mount[d] \in Remotes /\ Owner \in Remotes
    BY BufferFacts DEF FileInv, MountShape
  <2>2. late'[Owner] = NoRequest \/ late'[Owner] = late[Owner]
    BY <1>4, <2>1 DEF Overtaken, FileInv, LateShape
  <2>3. file' = [file EXCEPT ![mount[d]][n] = << >>]
    BY <1>4 DEF ChangeFile
  <2>4. /\ file'[Owner][Path] # NoFile
        /\ rb.data = Slice(file'[Owner][Path], rb.offset, Len(rb.data))
    BY <1>4, <2>1, <2>3, EmptyContents, ContentKept
  <2> QED
    BY <2>2, <2>4
<1>5. ASSUME NEW d \in Drives, NEW n \in Names, ExtendedCreate(d, n) PROVE BufferInv'
  <2>1. /\ ChangeFile(mount[d], n, << >>) /\ Overtaken(mount[d]) /\ pc' = "idle"
        /\ rb' = Checked /\ file[mount[d]][n] = NoFile
    BY <1>5 DEF ExtendedCreate, Opened, Idle, Exists
  <2>2. rb.data # << >> => ~(mount[d] = Owner /\ n = Path)
    BY <2>1, BufferFacts
  <2> QED
    BY <1>4, <2>1, <2>2
<1>6. ASSUME NEW d \in Drives, NEW n \in Names, ExtendedReplace(d, n) PROVE BufferInv'
  <2> DEFINE h == HandleOf(mount[d], n)
  <2>1. /\ ChangeFile(mount[d], n, << >>) /\ Overtaken(mount[d]) /\ pc' = "idle"
        /\ rb' = IF Holds(Checked, d, h) THEN Emptied(rb) ELSE Checked
    BY <1>6 DEF ExtendedReplace, Opened, Idle
  <2>2. ASSUME rb.data # << >>, rb' = rb, mount[d] = Owner, n = Path PROVE FALSE
    <3>1. rb.drive \in Drives /\ Owner \in Remotes /\ rb.cluster \in 1 .. Len(items[Owner])
      BY <2>2, BufferFacts
    <3>2. rb.drive = d
      BY <2>2, <3>1 DEF Owner, FileInv, MountShape
    <3>3. /\ \A g \in 1 .. Len(items[Owner]) : ItemsWith(Owner, n)[g] = items[Owner][g]
          /\ Len(items[Owner]) <= Len(ItemsWith(Owner, n))
          /\ ItemsWith(Owner, n) \in Seq(Names)
          /\ \A g \in 1 .. Len(ItemsWith(Owner, n)) : ItemsWith(Owner, n)[g] = n => g = h
      <4>1. ItemsShape /\ h = HandleOf(Owner, n)
        BY <2>2 DEF FileInv
      <4> HIDE DEF h
      <4> QED
        BY <3>1, <4>1, HandleFacts
    <3>4. rb.cluster \in 1 .. Len(ItemsWith(Owner, n)) /\ ItemsWith(Owner, n)[rb.cluster] = n
      <4>1. Len(items[Owner]) \in Nat /\ Len(ItemsWith(Owner, n)) \in Nat
        BY <3>1, <3>3 DEF FileInv, ItemsShape
      <4>2. items[Owner][rb.cluster] = n
        BY <2>2 DEF Path
      <4> QED
        BY <3>1, <3>3, <4>1, <4>2
    <3>5. rb.cluster = h
      BY <3>3, <3>4
    <3>6. Emptied(rb).data = << >> /\ (Checked = rb \/ Checked = Emptied(rb))
      BY CheckedFacts DEF FileInv
    <3> HIDE DEF h
    <3> QED
      BY <2>1, <2>2, <3>2, <3>5, <3>6 DEF Holds
  <2> QED
    BY <1>4, <2>1, <2>2
<1>7. ASSUME NEW d \in Drives, NEW n \in Names, CreateReplyLost(d, n) PROVE FALSE
  BY <1>7 DEF CreateReplyLost
<1> QED
  BY <1>1, <1>2, <1>3, <1>5, <1>6, <1>7 DEF Opens

\* The write of a failed call, executed when the client knows nothing of it.
LEMMA ExecuteLateBuffer ==
  ASSUME FileInv, BufferInv, HandlesKept, NEW r \in Remotes, ExecuteLate(r)
  PROVE  BufferInv'
<1> DEFINE q == late[r]
<1>1. /\ q # NoRequest /\ file[r][q.name] # NoFile /\ Overtaken(r)
      /\ file' = [file EXCEPT ![r][q.name] = Written(file[r][q.name], q.off, q.n)]
      /\ UNCHANGED <<rb, pc, job>>
  BY DEF ExecuteLate, Exists, ChangeFile
<1>2. q.name \in Names /\ q.off \in Nat /\ q.n \in Nat /\ q.off + q.n <= MaxPos
  BY <1>1 DEF FileInv, LateShape, Request
<1> SUFFICES ASSUME rb.data # << >>
             PROVE  /\ file'[Owner][Path] # NoFile
                    /\ rb.data = Slice(file'[Owner][Path], rb.offset, Len(rb.data))
                    /\ late'[Owner] = NoRequest \/ late'[Owner] = late[Owner]
                    /\ pc' = "write" /\ job'.o.drive = rb.drive
                         /\ job'.o.cluster = rb.cluster => Misses(job'.pos, job'.n)
  BY <1>1, BufferKept
<1>3. LateMisses /\ JobMisses
  BY DEF BufferInv
<1>4. r = Owner /\ q.name = Path => Misses(q.off, q.n)
  BY <1>1, <1>3 DEF LateMisses
<1> HIDE DEF q
<1>5. /\ file'[Owner][Path] # NoFile
      /\ rb.data = Slice(file'[Owner][Path], rb.offset, Len(rb.data))
  BY <1>1, <1>2, <1>4, WriteKept
<1>6. late'[Owner] = NoRequest \/ late'[Owner] = late[Owner]
  BY <1>1, BufferFacts DEF Overtaken, FileInv, LateShape
<1> QED
  BY <1>1, <1>3, <1>5, <1>6 DEF JobMisses

\* The buffer stays coherent as long as no call has changed names, the drives
\* stay mounted, other clients do not write and CREATE is answered.
LEMMA NextBufferInv ==
  ASSUME FileInv, BufferInv, [Next]_vars,
         ~NameChanges, ~Remounts, ~Aliases, ~Others, "create" \notin LostCalls
  PROVE  BufferInv'
<1>0. HandlesKept
  BY NextHandlesKept
<1>1. CASE Reads
  <2>1. CASE \E o \in open, pos \in 0 .. MaxPos, n \in 1 .. MaxPos :
               ReadHit(o, pos, n) \/ ReadBegin(o, pos, n)
    BY <1>0, <2>1, QuietBuffer DEF ReadHit, ReadBegin, Idle, serverVars
  <2>2. CASE \E o \in open, pos \in 0 .. MaxPos, n \in 1 .. MaxPos : ReadMiss(o, pos, n)
    BY <1>0, <2>2, ReadMissBuffer
  <2>3. CASE ReadNextChunk
    <3>1. /\ UNCHANGED <<file, rb>> /\ Overtaken(mount[job.o.drive])
          /\ pc' = "idle" \/ pc' = "read"
      BY <2>3 DEF ReadNextChunk
    <3> QED
      BY <1>0, <3>1, QuietBuffer
  <2>4. CASE ReadFails
    BY <1>0, <2>4, QuietBuffer DEF ReadFails, serverVars
  <2> QED
    BY <1>1, <2>1, <2>2, <2>3, <2>4 DEF Reads
<1>2. CASE Writes
  BY <1>0, <1>2, WritesBuffer
<1>3. CASE Opens
  BY <1>0, <1>3, OpensBuffer
<1>4. CASE OtherCalls
  <2>1. OtherCall \/ \E d \in Drives, m \in MinReadLens : SetMinReadLen(d, m)
    BY <1>4 DEF OtherCalls, Delete, Rename, Remount
  <2> QED
    BY <1>0, <2>1, QuietBuffer DEF OtherCall, SetMinReadLen, Idle, serverVars
<1>5. CASE Environment
  <2>1. CASE Tick
    BY <1>0, <2>1, QuietBuffer DEF Tick, serverVars
  <2>2. CASE \E r \in Remotes : ExecuteLate(r)
    BY <1>0, <2>2, ExecuteLateBuffer
  <2> QED
    BY <1>5, <2>1, <2>2 DEF Environment, OtherWrite
<1>6. CASE UNCHANGED vars
  BY <1>0, <1>6, QuietBuffer DEF vars, serverVars
<1> QED
  BY <1>1, <1>2, <1>3, <1>4, <1>5, <1>6 DEF Next

-----------------------------------------------------------------------------
(* What a READ returns *)

\* No bytes are a slice of any file.
LEMMA EmptySlice ==
  ASSUME NEW S, NEW s \in Seq(S), NEW off \in Nat
  PROVE  Slice(s, off, 0) = << >>
<1>1. /\ Slice(s, off, 0) \in Seq(S)
      /\ Len(Slice(s, off, 0)) = IF off >= Len(s) THEN 0
                                 ELSE IF off + 0 <= Len(s) THEN 0 ELSE Len(s) - off
  BY SliceProperties, 0 \in Nat, Zenon
<1>2. Len(Slice(s, off, 0)) = 0
  <2>1. Len(s) \in Nat
    OBVIOUS
  <2> QED
    BY <1>1, <2>1
<1> QED
  BY <1>1, <1>2

\* The bytes a READ finds in the buffer are the first of those it wants.
LEMMA BufferedIsContent ==
  ASSUME FileInv, BufferInv, NEW o \in open, minLen[o.drive] \in Nat \ {0},
         NEW pos \in Nat, NEW n \in Nat
  PROVE  LET have == Buffered(Checked, o, pos, n)
             s == file[mount[o.drive]][o.name]
         IN  have # << >> => s \in Seq(Byte) /\ have = Slice(s, pos, Len(have))
<1> DEFINE have == Buffered(Checked, o, pos, n)
           s == file[mount[o.drive]][o.name]
           k == Len(have)
           a == pos - rb.offset
           l == Len(rb.data)
<1> SUFFICES ASSUME have # << >>
             PROVE  s \in Seq(Byte) /\ have = Slice(s, pos, k)
  BY Zenon
<1>1. /\ rb.data # << >> /\ rb.drive = o.drive /\ rb.cluster = o.cluster
      /\ a \in Nat /\ have = Slice(rb.data, a, n)
  BY BufferedFacts
<1>2. have \in Seq(Byte) /\ k \in Nat /\ k <= n
  BY BufferedFacts
<1>3. Owner = mount[o.drive] /\ Path = o.name
  <2>1. mount[o.drive] = Owner /\ PathOf(o) = Path
    BY <1>1 DEF PathOf, Path, Owner
  <2> QED
    BY <2>1, ContentFacts
<1>4. /\ rb.offset \in Nat /\ rb.data \in Seq(Byte) /\ l \in Nat
      /\ s \in Seq(Byte) /\ rb.data = Slice(s, rb.offset, l)
  BY <1>1, <1>3, BufferFacts
<1>5. rb.offset + a = pos
  BY <1>4
<1> HIDE DEF have, s, a, l
<1>6. have = Slice(rb.data, a, k)
  BY <1>1, <1>4, SliceOwnLength
<1>7. a + k <= l
  <2>1. k = IF a >= Len(rb.data) THEN 0
            ELSE IF a + n <= Len(rb.data) THEN n ELSE Len(rb.data) - a
    <3>1. rb.data \in Seq(Byte) /\ a \in Nat
      BY <1>1, <1>4
    <3>2. Len(Slice(rb.data, a, n)) = IF a >= Len(rb.data) THEN 0
            ELSE IF a + n <= Len(rb.data) THEN n ELSE Len(rb.data) - a
      BY <3>1, SliceProperties, ZenonT(40)
    <3>3. k = Len(Slice(rb.data, a, n))
      BY <1>1
    <3> QED
      BY <3>2, <3>3
  <2>2. k # 0
    BY <1>2
  <2>3. l = Len(rb.data)
    BY DEF l
  <2> QED
    BY <1>1, <1>4, <2>1, <2>2, <2>3
<1> HIDE DEF k
<1>8. Slice(Slice(s, rb.offset, l), a, k) = Slice(s, rb.offset + a, k)
  <2> DEFINE b == rb.offset
  <2>1. /\ s \in Seq(Byte) /\ b \in Nat /\ l \in Nat
        /\ a \in Nat /\ k \in Nat /\ a + k <= l
    BY <1>1, <1>2, <1>4, <1>7
  <2> HIDE DEF b
  <2>2. Slice(Slice(s, b, l), a, k) = Slice(s, b + a, k)
    BY <2>1, SliceOfSlice
  <2> QED
    BY <2>2 DEF b
<1> QED
  BY <1>4, <1>5, <1>6, <1>8

\* A READ answered by the buffer alone.
LEMMA ReadHitCorrect ==
  ASSUME FileInv, BufferInv, NEW o \in open, NEW pos \in Nat, NEW n \in Nat,
         ReadHit(o, pos, n), correct = TRUE
  PROVE  correct' = TRUE
<1> DEFINE have == Buffered(Checked, o, pos, n)
           s == file[mount[o.drive]][o.name]
<1>1. /\ n > 0 /\ Len(have) = n
      /\ correct' = (correct /\ have = Slice(s, pos, n))
  BY DEF ReadHit, Return
<1>2. have # << >>
  BY <1>1
<1>3. have = Slice(s, pos, Len(have))
  BY <1>2, SmallRead, BufferedIsContent
<1> QED
  BY <1>1, <1>3

\* A READ of which the buffer has the first bytes or none.
LEMMA ReadMissCorrect ==
  ASSUME FileInv, BufferInv, NEW o \in open, NEW pos \in Nat, NEW n \in Nat,
         ReadMiss(o, pos, n), correct = TRUE
  PROVE  correct' = TRUE
<1> DEFINE have == Buffered(Checked, o, pos, n)
           k == Len(have)
           from == pos + k
           to == pos + n
           b == minLen[o.drive]
           at == FetchFrom(from, to, b)
           l == FetchLen(from, to, b)
           s == file[mount[o.drive]][o.name]
           reply == Slice(Content(o), at, l)
           rest == Slice(reply, from - at, n - k)
<1>1. /\ Content(o) # NoFile
      /\ correct' = (correct /\ have \o rest = Slice(s, pos, n))
  BY DEF ReadMiss, Return
<1>2. Content(o) = s /\ s \in Seq(Byte)
  BY <1>1, ContentFacts DEF Contents
<1>0. b \in Nat \ {0}
  BY SmallRead
<1>3. have \in Seq(Byte) /\ k \in Nat /\ k <= n
  BY <1>0, BufferedFacts
<1>4. have = Slice(s, pos, k)
  <2>1. CASE have # << >>
    BY <1>0, <2>1, BufferedIsContent
  <2>2. CASE have = << >>
    <3>1. k = 0
      BY <2>2
    <3> HIDE DEF have, s
    <3>2. Slice(s, pos, 0) = << >>
      BY <1>2, EmptySlice
    <3> QED
      BY <2>2, <3>1, <3>2
  <2> QED
    BY <2>1, <2>2
<1>5. Len(Slice(s, pos, k)) = k
  BY <1>4
<1> HIDE DEF have, s
<1>6. from \in Nat /\ to \in Nat /\ from <= to /\ from = pos + k /\ to = pos + n
  BY <1>3
<1>7. /\ at \in Nat /\ l \in Nat /\ at <= from
      /\ at + l = Align(to, b) + b /\ to < Align(to, b) + b
  <2> HIDE DEF from, to, b
  <2> QED
    BY <1>0, <1>6, FetchFacts
<1>8. Align(to, b) \in Nat /\ b \in Nat
  <2> HIDE DEF from, to, b
  <2> QED
    BY <1>0, <1>6, AlignFacts
<1> DEFINE a == from - at
           m == n - k
<1> HIDE DEF k, from, to, at, l, b
<1>9. a \in Nat /\ m \in Nat /\ a + m <= l /\ at + a = from
  BY <1>3, <1>6, <1>7, <1>8
<1>10. rest = Slice(Slice(s, at, l), a, m)
  BY <1>2
<1> HIDE DEF a, m, rest
<1>11. rest = Slice(s, from, m)
  <2>1. Slice(Slice(s, at, l), a, m) = Slice(s, at + a, m)
    BY <1>2, <1>7, <1>9, SliceOfSlice
  <2> QED
    BY <1>9, <1>10, <2>1
<1>12. Slice(s, pos, k) \o Slice(s, pos + k, n - k) = Slice(s, pos, n)
  BY <1>2, <1>3, <1>5, SlicesJoin
<1>13. have \o rest = Slice(s, pos, n)
  BY <1>4, <1>6, <1>11, <1>12 DEF m
<1> QED
  BY <1>1, <1>13

\* k bytes from pos and the reply to a request for c more: all of them, or
\* the file ends with the reply.
ChunkJoined(s, pos, n, k, c) ==
  Len(Slice(s, pos, k)) = k =>
    /\ Slice(s, pos, k) \o Slice(s, pos + k, c) \in Seq(Byte)
    /\ Len(Slice(s, pos, k) \o Slice(s, pos + k, c)) = k + Len(Slice(s, pos + k, c))
    /\ Len(Slice(s, pos + k, c)) \in Nat /\ Len(Slice(s, pos + k, c)) <= c
    /\ Len(Slice(s, pos + k, c)) = c =>
         Slice(s, pos, k) \o Slice(s, pos + k, c) = Slice(s, pos, k + c)
    /\ Len(Slice(s, pos + k, c)) < c =>
         Slice(s, pos, k) \o Slice(s, pos + k, c) = Slice(s, pos, n)

\* What a large READ of n bytes has got after one more chunk.
LEMMA ChunkJoins ==
  ASSUME NEW s \in Seq(Byte), NEW pos \in Nat, NEW n \in Nat,
         NEW k \in Nat, k <= n, NEW c \in Nat, c <= n - k
  PROVE  ChunkJoined(s, pos, n, k, c)
<1> DEFINE have == Slice(s, pos, k)
           b == pos + k
           m == n - k
           e == k + c
           reply == Slice(s, b, c)
           data == have \o reply
<1>1. /\ b \in Nat /\ m \in Nat /\ c <= m /\ e \in Nat /\ k <= e /\ e - k = c
  OBVIOUS
<1>2. b \in Nat /\ m \in Nat
  BY <1>1
<1> HIDE DEF b
<1>3. reply \in Seq(Byte)
  BY <1>2, SliceProperties
<1>4. Len(reply) \in Nat /\ Len(reply) <= c
  BY <1>2, SliceOwnLength
<1>5. have \in Seq(Byte)
  BY SliceProperties
<1>6. data \in Seq(Byte) /\ Len(data) = Len(have) + Len(reply)
  <2> HIDE DEF have, reply
  <2> QED
    BY <1>3, <1>5, ConcatProperties
<1>7. Len(have) = k => have \o Slice(s, pos + k, e - k) = Slice(s, pos, e)
  <2> HIDE DEF e
  <2> QED
    BY <1>1, SlicesJoin
<1>8. Len(have) = k => have \o Slice(s, pos + k, m) = Slice(s, pos, n)
  BY SlicesJoin
<1>9. Len(reply) < c => reply = Slice(s, b, m)
  <2> HIDE DEF m
  <2> QED
    BY <1>1, <1>2, ShortSlice
<1>10. Len(have) = k => data = Slice(s, pos, e)
  BY <1>1, <1>7 DEF b
<1>11. Len(have) = k /\ Len(reply) < c => data = Slice(s, pos, n)
  BY <1>8, <1>9 DEF b
<1>12. /\ Len(have) = k =>
            /\ data \in Seq(Byte) /\ Len(data) = k + Len(reply)
            /\ Len(reply) \in Nat /\ Len(reply) <= c
            /\ Len(reply) = c => data = Slice(s, pos, e)
            /\ Len(reply) < c => data = Slice(s, pos, n)
  BY <1>4, <1>6, <1>10, <1>11
<1> QED
  BY <1>12 DEF b, ChunkJoined

\* The next chunk of a large READ is the next slice of the same file.
LEMMA ReadChunkCorrect ==
  ASSUME FileInv, ReadInv, ReadNextChunk, correct = TRUE
  PROVE  ReadInv' /\ correct' = TRUE
<1> DEFINE have == job.data
           k == Len(have)
           left == job.n - k
           chunk == IF left < ReadChunk THEN left ELSE ReadChunk
           s == Content(job.o)
           reply == Slice(s, job.pos + k, chunk)
           data == have \o reply
<1>1. /\ pc = "read" /\ s # NoFile /\ UNCHANGED <<mount, file, items>>
      /\ Overtaken(mount[job.o.drive])
      /\ \/ /\ Len(reply) < chunk \/ Len(data) = job.n
            /\ pc' = "idle" /\ Return(job.o, job.pos, job.n, data, << >>)
         \/ /\ ~(Len(reply) < chunk) /\ Len(data) # job.n
            /\ job' = [job EXCEPT !.data = data] /\ UNCHANGED <<pc, historyVars>>
  BY DEF ReadNextChunk
<1>2. /\ job = [o |-> job.o, pos |-> job.pos, n |-> job.n, data |-> job.data]
      /\ job.o \in open /\ job.pos \in Nat /\ job.n \in Nat /\ have \in Seq(Byte)
  BY <1>1, JobFacts
<1>3. /\ s \in Seq(Byte) /\ s = file[mount[job.o.drive]][job.o.name]
      /\ mount[job.o.drive] \in Remotes
  BY <1>1, <1>2, ContentFacts DEF Contents
<1>4. have = Slice(s, job.pos, k) /\ k \in Nat /\ k <= job.n
  <2>1. CASE have # << >>
    BY <1>1, <1>2, <2>1 DEF ReadInv
  <2>2. CASE have = << >>
    <3>1. k = 0
      BY <2>2
    <3> HIDE DEF have, s
    <3>2. Slice(s, job.pos, 0) = << >>
      BY <1>2, <1>3, EmptySlice
    <3> QED
      BY <1>2, <2>2, <3>1, <3>2
  <2> QED
    BY <2>1, <2>2
<1>5. Len(Slice(s, job.pos, k)) = k
  BY <1>4
<1>6. chunk \in Nat /\ chunk <= job.n - k
  BY <1>2, <1>4, FileAssumption
<1> DEFINE d == Slice(s, job.pos, k) \o reply
<1>7. /\ d \in Seq(Byte) /\ Len(d) = k + Len(reply)
      /\ Len(reply) \in Nat /\ Len(reply) <= chunk
      /\ Len(reply) = chunk => d = Slice(s, job.pos, k + chunk)
      /\ Len(reply) < chunk => d = Slice(s, job.pos, job.n)
  <2> DEFINE p == job.pos
             n == job.n
  <2>1. p \in Nat /\ n \in Nat /\ k \in Nat /\ k <= n /\ chunk \in Nat /\ chunk <= n - k
    BY <1>2, <1>4, <1>6
  <2>2. s \in Seq(Byte)
    BY <1>3
  <2>3. Len(Slice(s, p, k)) = k
    BY <1>5
  <2> HIDE DEF p, n, s, k, chunk
  <2> DEFINE c == chunk
  <2>4. p \in Nat /\ n \in Nat /\ k \in Nat /\ k <= n /\ c \in Nat /\ c <= n - k
    BY <2>1
  <2> HIDE DEF c
  <2>5. ChunkJoined(s, p, n, k, c)
    BY <2>2, <2>4, ChunkJoins
  <2> QED
    BY <2>3, <2>5 DEF p, n, c, ChunkJoined
<1>8. data = d
  BY <1>4
<1> HIDE DEF d, data, reply, chunk
<1>9. CASE pc' = "idle" /\ (Len(reply) < chunk \/ Len(data) = job.n)
             /\ Return(job.o, job.pos, job.n, data, << >>)
  <2>1. ReadInv'
    BY <1>9 DEF ReadInv
  <2>2. data = Slice(s, job.pos, job.n)
    <3>1. CASE Len(reply) < chunk
      BY <1>7, <1>8, <3>1
    <3>2. CASE Len(reply) = chunk /\ Len(data) = job.n
      <4>1. k + chunk = job.n
        BY <1>7, <1>8, <3>2
      <4> QED
        BY <1>7, <1>8, <3>2, <4>1
    <3> QED
      BY <1>6, <1>7, <1>9, <3>1, <3>2
  <2>3. correct' = (correct /\ data = Slice(file[mount[job.o.drive]][job.o.name], job.pos, job.n))
    BY <1>9 DEF Return
  <2> QED
    BY <1>3, <2>1, <2>2, <2>3
<1>10. CASE /\ ~(Len(reply) < chunk) /\ Len(data) # job.n
            /\ job' = [job EXCEPT !.data = data] /\ UNCHANGED <<pc, historyVars>>
  <2>1. job' = [o |-> job.o, pos |-> job.pos, n |-> job.n, data |-> data]
    BY <1>2, <1>10
  <2>2. Len(reply) = chunk /\ Len(data) = k + chunk /\ k + chunk <= job.n
    BY <1>2, <1>4, <1>6, <1>7, <1>8, <1>10
  <2>3. data = Slice(s, job.pos, Len(data))
    BY <1>7, <1>8, <2>2
  <2>4. job'.o = job.o /\ job'.pos = job.pos /\ job'.n = job.n /\ job'.data = data
    BY <2>1
  <2>5. Content(job.o)' = s
    BY <1>1, <2>4 DEF Content, PathOf
  <2>6. late'[mount[job.o.drive]] = NoRequest
    BY <1>1, <1>3 DEF Overtaken, FileInv, LateShape
  <2>7. ReadInv'
    BY <1>1, <2>2, <2>3, <2>4, <2>5, <2>6 DEF ReadInv
  <2> QED
    BY <1>10, <2>7 DEF historyVars
<1> QED
  BY <1>1, <1>9, <1>10 DEF data, reply, chunk

\* Between two chunks the file of a large READ stays as it is.
LEMMA NextReadInv ==
  ASSUME FileInv, ReadInv, [Next]_vars, correct = TRUE,
         ~NameChanges, ~Remounts, ~Others
  PROVE  ReadInv'
<1>1. ASSUME pc' # "read" PROVE ReadInv'
  BY <1>1 DEF ReadInv
<1>2. CASE Reads
  <2>1. CASE \E o \in open, pos \in 0 .. MaxPos, n \in 1 .. MaxPos :
               ReadHit(o, pos, n) \/ ReadMiss(o, pos, n)
    BY <1>1, <2>1 DEF ReadHit, ReadMiss, Idle
  <2>2. CASE \E o \in open, pos \in 0 .. MaxPos, n \in 1 .. MaxPos : ReadBegin(o, pos, n)
    <3>1. job'.data = << >>
      BY <2>2 DEF ReadBegin
    <3> QED
      BY <3>1 DEF ReadInv
  <2>3. CASE ReadNextChunk
    BY <2>3, ReadChunkCorrect
  <2>4. CASE ReadFails
    BY <1>1, <2>4 DEF ReadFails
  <2> QED
    BY <1>2, <2>1, <2>2, <2>3, <2>4 DEF Reads
<1>3. CASE Writes
  <2>1. pc' # "read"
    BY <1>3 DEF Writes, WriteBegin, WriteNextChunk, WriteRefused, WriteReplyLost, WriteFails
  <2> QED
    BY <1>1, <2>1
<1>4. CASE Opens
  <2>1. pc' = "idle"
    BY <1>4 DEF Opens, Open, Create, ExtendedCreate, ExtendedReplace, CreateReplyLost, Close, Idle
  <2> QED
    BY <1>1, <2>1
<1>5. CASE OtherCalls
  <2>1. pc' = "idle"
    BY <1>5 DEF OtherCalls, Delete, Rename, SetMinReadLen, Remount, OtherCall, Idle
  <2> QED
    BY <1>1, <2>1
<1>6. ASSUME UNCHANGED <<mount, items, pc, job>>,
             pc = "read" /\ job.data # << >> =>
               /\ file'[mount[job.o.drive]] = file[mount[job.o.drive]]
               /\ late'[mount[job.o.drive]] = late[mount[job.o.drive]]
      PROVE  ReadInv'
  BY <1>6 DEF ReadInv, Content, PathOf
<1>7. CASE Environment
  <2>1. CASE Tick
    BY <1>6, <2>1 DEF Tick, serverVars
  <2>2. ASSUME NEW r \in Remotes, ExecuteLate(r) PROVE ReadInv'
    <3>1. /\ UNCHANGED <<mount, items, pc, job>> /\ late[r] # NoRequest
          /\ file' = [file EXCEPT ![r][late[r].name] =
                        Written(file[r][late[r].name], late[r].off, late[r].n)]
          /\ late' = [late EXCEPT ![r] = NoRequest]
      BY <2>2 DEF ExecuteLate, ChangeFile, Overtaken
    <3>2. ASSUME pc = "read", job.data # << >>
          PROVE  /\ file'[mount[job.o.drive]] = file[mount[job.o.drive]]
                 /\ late'[mount[job.o.drive]] = late[mount[job.o.drive]]
      <4>1. mount[job.o.drive] # r /\ mount[job.o.drive] \in Remotes
        <5>1. job.o \in open
          BY <3>2, JobFacts
        <5> QED
          BY <3>1, <3>2, <5>1, ContentFacts DEF ReadInv
      <4> QED
        BY <3>1, <4>1 DEF FileInv, FileShape, LateShape
    <3> QED
      BY <1>6, <3>1, <3>2
  <2> QED
    BY <1>7, <2>1, <2>2 DEF Environment, OtherWrite
<1>8. CASE UNCHANGED vars
  BY <1>6, <1>8 DEF vars, serverVars
<1> QED
  BY <1>2, <1>3, <1>4, <1>5, <1>7, <1>8 DEF Next

\* Every READ that ends returns the bytes of its file.
LEMMA NextCorrect ==
  ASSUME FileInv, BufferInv, ReadInv, [Next]_vars, correct = TRUE
  PROVE  correct' = TRUE
<1>1. CASE Reads
  <2>0. \A x : x \in 0 .. MaxPos \/ x \in 1 .. MaxPos => x \in Nat
    BY FileAssumption
  <2>1. CASE \E o \in open, pos \in 0 .. MaxPos, n \in 1 .. MaxPos : ReadHit(o, pos, n)
    BY <2>0, <2>1, ReadHitCorrect
  <2>2. CASE \E o \in open, pos \in 0 .. MaxPos, n \in 1 .. MaxPos : ReadMiss(o, pos, n)
    BY <2>0, <2>2, ReadMissCorrect
  <2>3. CASE \E o \in open, pos \in 0 .. MaxPos, n \in 1 .. MaxPos : ReadBegin(o, pos, n)
    BY <2>3 DEF ReadBegin, historyVars
  <2>4. CASE ReadNextChunk
    BY <2>4, ReadChunkCorrect
  <2>5. CASE ReadFails
    BY <2>5 DEF ReadFails, historyVars
  <2> QED
    BY <1>1, <2>1, <2>2, <2>3, <2>4, <2>5 DEF Reads
<1>2. CASE Writes
  BY <1>2 DEF Writes, WriteBegin, WriteNextChunk, WriteRefused, WriteReplyLost,
              WriteFails, historyVars
<1>3. CASE Opens
  BY <1>3 DEF Opens, Open, Create, ExtendedCreate, ExtendedReplace, CreateReplyLost,
              Close, Opened, historyVars
<1>4. CASE OtherCalls
  BY <1>4 DEF OtherCalls, Delete, Rename, SetMinReadLen, Remount, OtherCall, historyVars
<1>5. CASE Environment
  BY <1>5 DEF Environment, ExecuteLate, OtherWrite, Tick, historyVars
<1>6. CASE UNCHANGED vars
  BY <1>6 DEF vars, historyVars
<1> QED
  BY <1>1, <1>2, <1>3, <1>4, <1>5, <1>6 DEF Next

\* The whole invariant, step by step.
LEMMA CoherentSteps ==
  ASSUME ~NameChanges, ~Remounts, ~Aliases, ~Others, "create" \notin LostCalls
  PROVE  Spec => []CoherentInv
<1>1. Init => CoherentInv
  <2> SUFFICES ASSUME Init PROVE CoherentInv
    OBVIOUS
  <2>1. rb.data = << >> /\ pc = "idle" /\ correct = TRUE
    BY DEF Init
  <2> QED
    BY <2>1, InitFileInv DEF CoherentInv, BufferInv, ReadInv
<1>2. CoherentInv /\ [Next]_vars => CoherentInv'
  <2> SUFFICES ASSUME CoherentInv, [Next]_vars PROVE CoherentInv'
    OBVIOUS
  <2>1. FileInv /\ BufferInv /\ ReadInv /\ correct = TRUE
    BY DEF CoherentInv
  <2>2. FileInv'
    BY <2>1, NextFileInv
  <2>3. BufferInv'
    BY <2>1, NextBufferInv
  <2>4. ReadInv'
    BY <2>1, NextReadInv
  <2>5. correct' = TRUE
    BY <2>1, NextCorrect
  <2> QED
    BY <2>2, <2>3, <2>4, <2>5 DEF CoherentInv
<1> QED
  BY <1>1, <1>2, PTL DEF Spec

\* The read buffer holds nothing but bytes of the server's file, for any
\* drives, files, block and chunk sizes and positions: although a WRITE that
\* failed may be executed later without the client being told.  It takes that
\* the files change through this client alone, that it neither deletes,
\* renames nor mounts anew, that no two of its drives are mounted from one
\* remote, and that no CREATE loses its reply: after each of those calls, and
\* after a WRITE through the other drive, handle_request_for_our_drive keeps
\* the buffer.  MIN_READ_LEN may change at any time.
THEOREM BufferCoherentHolds ==
  ASSUME ~NameChanges, ~Remounts, ~Aliases, ~Others, "create" \notin LostCalls
  PROVE  Spec => []BufferCoherent
<1>1. CoherentInv => BufferCoherent
  BY DEF CoherentInv, BufferInv, BufferCoherent
<1> QED
  BY <1>1, CoherentSteps, PTL

\* Under the same conditions every READ, small or large, out of the buffer,
\* around it or in chunks, returns what the file holds at that moment.
THEOREM ReadCorrectHolds ==
  ASSUME ~NameChanges, ~Remounts, ~Aliases, ~Others, "create" \notin LostCalls
  PROVE  Spec => []ReadCorrect
<1>1. CoherentInv => ReadCorrect
  BY DEF CoherentInv, ReadCorrect
<1> QED
  BY <1>1, CoherentSteps, PTL

=============================================================================
