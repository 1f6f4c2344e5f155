--------------------------- MODULE TimeoutsProofs ---------------------------
(***************************************************************************)
(* Proofs about Timeouts, for all options that users type, all clocks and  *)
(* any number of requests.                                                 *)
(***************************************************************************)
EXTENDS Timeouts, FiniteSetTheorems, TLAPS

(***************************************************************************)
(* The wait that goes on: the timeout is at most 1016 ticks, so that the   *)
(* low words of the clock tell the time waited, or that time and a day if  *)
(* midnight has passed; and the loop has not seen it exceeded.             *)
(***************************************************************************)
WaitInv ==
  Waiting =>
    /\ drv # Unmounted
    /\ Within(req.tmo, 16, 1016)
    /\ req.retries <= drv["MAX_RETRIES"]
    /\ ~crossed => waited <= clock /\ req.start = (clock - waited) % Word
    /\ crossed => clock < waited /\ req.start = (clock + Day - waited) % Word
    /\ polled => Elapsed <= req.tmo

IInv == TypeOK /\ WaitInTime /\ WaitInv

Requests == [st : {"idle", "wait", "failed"}, start : Nat, tmo : Nat, retries : Nat]
Waits == [tmo : Nat, waited : Nat, crossed : BOOLEAN]

-----------------------------------------------------------------------------
(* Settings *)

\* A value that MOUNT, INSTALL, drive_set or net_set accepts is stored as one the
\* client can work with.
LEMMA StoredOK ==
  ASSUME NEW v \in Nat, v <= 65535, NEW o \in DriveOptions \cup NetOptions, Accepted(o, v)
  PROVE  /\ Stored(o, v) \in Nat
         /\ o \in {"MIN_RCV_TMO", "MAX_RCV_TMO"} => Within(Stored(o, v), 4, 254)
         /\ o = "MAX_RETRIES" => Within(Stored(o, v), 0, 254)
         /\ o = "MIN_READ_LEN" => Stored(o, v) \in {0, 1, 2, 4, 8, 16, 32, 64}
         /\ o = "PORT" => Within(Stored(o, v), 1, 65535)
         /\ o = "MTU" => Within(Stored(o, v), 560, 1500)
<1>1. ASSUME o = "MIN_RCV_TMO" \/ o = "MAX_RCV_TMO"
      PROVE  Stored(o, v) \in Nat /\ Within(Stored(o, v), 4, 254)
  <2>1. Within(v, 1, 56)
    <3>1. CASE o = "MIN_RCV_TMO"
      BY <3>1 DEF Accepted
    <3>2. CASE o = "MAX_RCV_TMO"
      BY <3>2 DEF Accepted
    <3> QED BY <1>1, <3>1, <3>2
  <2>2. Stored(o, v) = (((v * 182) \div 10) \div 4) % 256
    BY <1>1 DEF Stored
  <2> QED BY <2>1, <2>2 DEF Within
<1>2. CASE o = "MAX_RETRIES"
  BY <1>2 DEF Accepted, Stored, Int16, NetOptions, Within
<1>3. CASE o = "MIN_READ_LEN"
  BY <1>3 DEF Accepted, Stored, IsPowerOf2, NetOptions
<1>4. CASE o = "PORT"
  BY <1>4 DEF Accepted, Stored, NetOptions, Within
<1>5. CASE o = "MTU"
  BY <1>5 DEF Accepted, Stored, NetOptions, Within
<1> QED BY <1>1, <1>2, <1>3, <1>4, <1>5 DEF DriveOptions, NetOptions

\* The defaults are acceptable.
LEMMA DefaultsOK ==
  /\ DOMAIN DefaultNet = NetOptions /\ DOMAIN DefaultDrive = DriveOptions
  /\ \A o \in NetOptions : DefaultNet[o] \in Nat /\ DefaultNet[o] <= 65535 /\ Accepted(o, DefaultNet[o])
  /\ \A o \in DriveOptions : DefaultDrive[o] \in Nat /\ DefaultDrive[o] <= 65535 /\ Accepted(o, DefaultDrive[o])
BY DEF DefaultNet, DefaultDrive, NetOptions, DriveOptions, Accepted, Int16, IsPowerOf2, Within

\* The numbers made of texts fit 16 bits.
LEMMA NumberOK ==
  ASSUME NEW t \in Text, NEW o
  PROVE  /\ Number(t) \in Nat /\ Number(t) <= 65535
         /\ OptionValue(o, t) \in Nat /\ OptionValue(o, t) <= 65535
BY DEF Text, Number, OptionValue, strto_ui16, HasDigits

\* SettingsOK, part by part.
DriveOK(d) ==
  /\ d \in [DriveOptions -> Nat]
  /\ Within(d["MIN_RCV_TMO"], 4, 254) /\ Within(d["MAX_RCV_TMO"], 4, 254)
  /\ Within(d["MAX_RETRIES"], 0, 254)
  /\ d["MIN_READ_LEN"] \in {0, 1, 2, 4, 8, 16, 32, 64}

NetOK(n) == n \in [NetOptions -> Nat] /\ Within(n["PORT"], 1, 65535) /\ Within(n["MTU"], 560, 1500)

\* The settings of a drive made of the options given to MOUNT.
LEMMA MountOK ==
  ASSUME NEW opts, DOMAIN opts \subseteq DriveOptions,
         \A o \in DOMAIN opts : opts[o] \in Text, Accepts(opts)
  PROVE  DriveOK(ValuesOf(opts, DefaultDrive))
<1> DEFINE V(o) == IF o \in DOMAIN opts THEN OptionValue(o, opts[o]) ELSE DefaultDrive[o]
<1>1. ASSUME NEW o \in DriveOptions PROVE V(o) \in Nat /\ V(o) <= 65535 /\ Accepted(o, V(o))
  BY <1>1, NumberOK, DefaultsOK DEF Accepts
<1>2. ValuesOf(opts, DefaultDrive) = [o \in DriveOptions |-> Stored(o, V(o))]
  BY DefaultsOK DEF ValuesOf
<1> HIDE DEF V
<1> QED BY <1>1, <1>2, StoredOK DEF DriveOK, DriveOptions

\* The settings of the interface made of the options given to INSTALL.
LEMMA InstallOK ==
  ASSUME NEW opts, DOMAIN opts \subseteq NetOptions,
         \A o \in DOMAIN opts : opts[o] \in Text, Accepts(opts)
  PROVE  NetOK(ValuesOf(opts, DefaultNet))
<1> DEFINE V(o) == IF o \in DOMAIN opts THEN OptionValue(o, opts[o]) ELSE DefaultNet[o]
<1>1. ASSUME NEW o \in NetOptions PROVE V(o) \in Nat /\ V(o) <= 65535 /\ Accepted(o, V(o))
  BY <1>1, NumberOK, DefaultsOK DEF Accepts
<1>2. ValuesOf(opts, DefaultNet) = [o \in NetOptions |-> Stored(o, V(o))]
  BY DefaultsOK DEF ValuesOf
<1> HIDE DEF V
<1> QED BY <1>1, <1>2, StoredOK DEF NetOK, NetOptions

\* No command leaves settings the client cannot work with.
LEMMA CommandOK == SettingsOK /\ Command => SettingsOK'
<1> SUFFICES ASSUME SettingsOK, Command PROVE SettingsOK'
  OBVIOUS
<1> USE SettingsAssumption
<1>1. ASSUME NEW m \in Mounts, NEW c \in SUBSET Checksums, Mount(m, c) PROVE SettingsOK'
  <2>1. DriveOK(drv')
    BY <1>1, MountOK DEF Mount
  <2> QED BY <1>1, <2>1 DEF Mount, SettingsOK, NetOK, DriveOK, Flags
<1>2. ASSUME NEW o \in DriveOptions, NEW t \in Texts, DriveSet(o, t) PROVE SettingsOK'
  <2>1. Number(t) \in Nat /\ Number(t) <= 65535 /\ Accepted(o, Number(t))
    BY <1>2, NumberOK DEF DriveSet
  <2>2. DriveOK(drv) /\ drv' = [drv EXCEPT ![o] = Stored(o, Number(t))]
    BY <1>2 DEF DriveSet, SettingsOK, NetOK, DriveOK
  <2>3. DriveOK(drv')
    BY <2>1, <2>2, StoredOK DEF DriveOK, DriveOptions
  <2> QED BY <1>2, <2>3 DEF DriveSet, Manage, SettingsOK, NetOK, DriveOK
<1>3. ASSUME NEW o \in NetOptions, NEW t \in Texts, NetSet(o, t) PROVE SettingsOK'
  <2>1. Number(t) \in Nat /\ Number(t) <= 65535 /\ Accepted(o, Number(t))
    BY <1>3, NumberOK DEF NetSet
  <2>2. NetOK(net) /\ net' = [net EXCEPT ![o] = Stored(o, Number(t))]
    BY <1>3 DEF NetSet, SettingsOK, NetOK, DriveOK
  <2>3. NetOK(net')
    BY <2>1, <2>2, StoredOK DEF NetOK, NetOptions
  <2> QED BY <1>3, <2>3 DEF NetSet, Manage, SettingsOK, NetOK, DriveOK
<1>4. ASSUME NEW f \in Flags, Manage, Switch(f) PROVE SettingsOK'
  BY <1>4 DEF Switch, Manage, SettingsOK, NetOK, DriveOK
<1> QED BY <1>1, <1>2, <1>3, <1>4 DEF Command, SetChecksum, SetArpRequests, Flags

-----------------------------------------------------------------------------
(* The clock *)

\* The number of ticks of a day is a number.
LEMMA DayNat == Day \in Nat
BY SMT DEF Day

\* What the loop reads as the time passed: the ticks waited, or 176 fewer modulo
\* 2^16 after midnight (a day has 24 * 2^16 + 176 ticks).
LEMMA ElapsedIs ==
  ASSUME TypeOK, WaitInv, Waiting, waited <= 1193
  PROVE  /\ Elapsed \in Nat
         /\ ~crossed => Elapsed = waited
         /\ crossed => Elapsed = IF waited >= 176 THEN waited - 176 ELSE waited + 65360
<1> USE DEF Word, Day
<1>1. clock \in Nat /\ waited \in Nat /\ req.start \in Nat /\ crossed \in BOOLEAN
  BY DEF TypeOK
<1>2. CASE ~crossed
  <2>1. req.start = (clock - waited) % 65536 /\ waited <= clock
    BY <1>2 DEF WaitInv
  <2> QED BY <1>1, <1>2, <2>1 DEF Elapsed, time
<1>3. CASE crossed
  <2>1. req.start = (clock + 1573040 - waited) % 65536 /\ clock < waited
    BY <1>3 DEF WaitInv
  <2> QED BY <1>1, <1>3, <2>1 DEF Elapsed, time
<1> QED BY <1>1, <1>2, <1>3

\* A wait that goes on has lasted no longer than the longest timeout and midnight.
LEMMA WaitedShort ==
  ASSUME IInv, Waiting
  PROVE  waited <= 1193
BY SMT DEF IInv, WaitInv, WaitInTime, Within, TypeOK, Word, Day

\* A wait that timed out was not shorter than its timeout unless midnight disturbed
\* it, and was never longer than midnight makes it.
LEMMA TimedOutOK ==
  ASSUME IInv, TimedOut
  PROVE  /\ waits' \in Seq([tmo : Nat, waited : Nat, crossed : BOOLEAN])
         /\ \A i \in DOMAIN waits' :
              /\ ~waits'[i].crossed => waits'[i].waited = waits'[i].tmo + 1
              /\ waits'[i].waited <= waits'[i].tmo + 1 + (Day % Word)
<1> DEFINE w == [tmo |-> req.tmo, waited |-> waited, crossed |-> crossed]
           R == [tmo : Nat, waited : Nat, crossed : BOOLEAN]
<1>1. waits \in Seq(R) /\ w \in R
  BY DEF IInv, TypeOK
<1>2. waits' = Append(waits, w)
  BY DEF TimedOut
<1>3. (~w.crossed => w.waited = w.tmo + 1) /\ w.waited <= w.tmo + 1 + 176
  <2>1. Waiting /\ Elapsed > req.tmo
    BY DEF TimedOut
  <2>2. waited <= req.tmo + 1 + (IF crossed THEN 176 ELSE 0)
    BY <2>1, SMT DEF IInv, WaitInTime, Day, Word
  <2>3. ~crossed => Elapsed = waited
    BY <2>1, WaitedShort, ElapsedIs DEF IInv
  <2>4. waited \in Nat /\ req.tmo \in Nat /\ crossed \in BOOLEAN
    BY DEF IInv, TypeOK
  <2> HIDE DEF Elapsed
  <2> QED BY <2>1, <2>2, <2>3, <2>4
<1>4. \A i \in DOMAIN waits :
        /\ ~waits[i].crossed => waits[i].waited = waits[i].tmo + 1
        /\ waits[i].waited <= waits[i].tmo + 1 + 176
  BY SMT DEF IInv, WaitInTime, Day, Word
<1>5. Day % Word = 176
  BY SMT DEF Day, Word
<1>6. waits' \in Seq(R) /\ DOMAIN waits' = 1..(Len(waits) + 1)
  BY <1>1, <1>2
<1>7. ASSUME NEW i \in DOMAIN waits'
      PROVE  waits'[i] = w \/ (i \in DOMAIN waits /\ waits'[i] = waits[i])
  BY <1>1, <1>2, <1>6, <1>7
<1>8. ASSUME NEW i \in DOMAIN waits'
      PROVE  /\ ~waits'[i].crossed => waits'[i].waited = waits'[i].tmo + 1
             /\ waits'[i].waited <= waits'[i].tmo + 1 + 176
  <2> HIDE DEF w, R
  <2> QED BY <1>3, <1>4, <1>7, <1>8
<1> QED BY <1>5, <1>6, <1>8

-----------------------------------------------------------------------------
(* The invariant *)

\* A client that was just installed satisfies the invariant.
LEMMA InitInv == Init => IInv
<1> SUFFICES ASSUME Init PROVE IInv
  OBVIOUS
<1> USE SettingsAssumption
<1>1. SettingsOK
  <2>1. PICK opts \in Installs :
          Accepts(opts) /\ net = ValuesOf(opts, DefaultNet)
    BY DEF Init, InitSettings
  <2>2. NetOK(net)
    BY <2>1, InstallOK
  <2> QED BY <2>2 DEF Init, InitSettings, SettingsOK, NetOK, Flags
<1>2. clock \in Nat /\ clock < Day
  BY DayNat, TimeoutsAssumption DEF Init
<1>3. requests \in 0..MaxRequests
  BY TimeoutsAssumption DEF Init
<1>4. polled \in BOOLEAN /\ crossed \in BOOLEAN /\ waited \in Nat /\ waits \in Seq(Waits)
  <2>1. polled \in BOOLEAN /\ crossed \in BOOLEAN
    BY Zenon DEF Init
  <2>2. waited \in Nat /\ waits \in Seq(Waits)
    BY DEF Init
  <2> QED BY <2>1, <2>2
<1>5. req \in Requests /\ req.start < Word /\ req.tmo < Word /\ req.retries <= 254
  BY DEF Init, NoRequest, Requests, Word
<1>6. TypeOK
  BY <1>1, <1>2, <1>3, <1>4, <1>5, Zenon DEF TypeOK, Requests, Waits
<1> QED BY <1>6 DEF IInv, Init, NoRequest, WaitInTime, WaitInv, Waiting

\* No step breaks the invariant.
LEMMA NextInv == IInv /\ [Next]_vars => IInv'
<1> SUFFICES ASSUME IInv, [Next]_vars PROVE IInv'
  OBVIOUS
<1>1. CASE RunCommand
  <2>1. SettingsOK'
    BY <1>1, CommandOK DEF IInv, TypeOK, RunCommand
  <2>2. ~Waiting' /\ UNCHANGED timeVars
    BY <1>1 DEF RunCommand, Waiting, timeVars
  <2>3. TypeOK'
    BY <2>1, <2>2 DEF IInv, TypeOK, timeVars
  <2> QED BY <2>2, <2>3 DEF IInv, WaitInTime, WaitInv, timeVars
<1>2. CASE SendRequest
  <2>1. DriveOK(drv) /\ UNCHANGED setVars
    BY <1>2 DEF IInv, TypeOK, SettingsOK, DriveOK, SendRequest
  <2>2. clock \in Nat /\ clock < Day /\ time \in Nat /\ time < Word
    BY DEF IInv, TypeOK, time, Word
  <2>3. req' = [st |-> "wait", start |-> time, tmo |-> drv["MIN_RCV_TMO"] * 4, retries |-> 0]
    BY <1>2 DEF SendRequest
  <2>4. drv["MIN_RCV_TMO"] * 4 \in Nat /\ Within(drv["MIN_RCV_TMO"] * 4, 16, 1016)
    BY <2>1 DEF DriveOK, DriveOptions, Within
  <2>5. TypeOK'
    <3>1. SettingsOK'
      BY <2>1 DEF IInv, TypeOK, SettingsOK, setVars
    <3>2. requests' \in 0..MaxRequests
      BY <1>2, TimeoutsAssumption DEF IInv, TypeOK, SendRequest
    <3>3. /\ polled' \in BOOLEAN /\ crossed' \in BOOLEAN
          /\ waited' \in Nat /\ waits' \in Seq(Waits)
      <4>1. polled' \in BOOLEAN /\ crossed' \in BOOLEAN
        BY <1>2, Zenon DEF SendRequest
      <4>2. waited' \in Nat /\ waits' \in Seq(Waits)
        BY <1>2 DEF SendRequest
      <4> QED BY <4>1, <4>2
    <3>4. req' \in Requests /\ req'.start < Word /\ req'.tmo < Word /\ req'.retries <= 254
      BY <2>2, <2>3, <2>4 DEF Requests, Within, Word
    <3>5. clock' \in Nat /\ clock' < Day
      BY <1>2, <2>2 DEF SendRequest
    <3> QED BY <3>1, <3>2, <3>3, <3>4, <3>5, Zenon DEF TypeOK, Requests, Waits
  <2>6. WaitInTime'
    BY <1>2, <2>3, <2>4, SMT DEF SendRequest, WaitInTime, Within, Word, Day
  <2>7. WaitInv'
    <3>1. drv' # Unmounted /\ 0 <= drv'["MAX_RETRIES"]
      BY <1>2, <2>1 DEF SendRequest, DriveOK, DriveOptions, setVars
    <3>2. clock' = clock /\ waited' = 0 /\ crossed' = FALSE
      BY <1>2 DEF SendRequest
    <3>3. Elapsed' = 0
      BY <2>2, <2>3, <3>2 DEF Elapsed, time, Word
    <3>4. req'.start = (clock' - waited') % Word
      BY <2>2, <2>3, <3>2 DEF time
    <3> HIDE DEF Elapsed
    <3> QED BY <2>2, <2>3, <2>4, <3>1, <3>2, <3>3, <3>4 DEF WaitInv, Within
  <2> QED BY <2>5, <2>6, <2>7 DEF IInv
<1>3. CASE Tick
  <2>1. /\ Waiting /\ polled /\ clock' = (clock + 1) % Day
        /\ polled' = FALSE /\ waited' = waited + 1 /\ crossed' = (crossed \/ clock' = 0)
        /\ UNCHANGED <<setVars, req, waits, requests>>
    BY <1>3 DEF Tick
  <2>2. clock \in Nat /\ clock < Day /\ waited \in Nat /\ req.tmo \in Nat /\ crossed \in BOOLEAN
    BY DEF IInv, TypeOK
  <2>3. Elapsed <= req.tmo /\ req.tmo <= 1016
    BY <2>1 DEF IInv, WaitInv, Within
  <2>4. /\ Elapsed \in Nat
        /\ ~crossed => Elapsed = waited
        /\ crossed => Elapsed = IF waited >= 176 THEN waited - 176 ELSE waited + 65360
    BY <2>1, WaitedShort, ElapsedIs DEF IInv
  <2>5. waited' <= req.tmo + 1 + (IF crossed THEN 176 ELSE 0)
    <3> HIDE DEF Elapsed
    <3>1. CASE crossed BY <2>1, <2>2, <2>3, <2>4, <3>1
    <3>2. CASE ~crossed BY <2>1, <2>2, <2>3, <2>4, <3>2
    <3> QED BY <2>2, <3>1, <3>2
  <2>6. IF clock = Day - 1 THEN clock' = 0 ELSE clock' = clock + 1
    BY <2>1, <2>2, SMT DEF Day
  <2>7. TypeOK'
    <3>1. SettingsOK'
      BY <2>1 DEF IInv, TypeOK, SettingsOK, setVars
    <3>2. clock' \in Nat /\ clock' < Day /\ waited' \in Nat
      BY <2>1, <2>2, <2>6, SMT DEF Day
    <3>3. polled' \in BOOLEAN /\ crossed' \in BOOLEAN
      BY <2>1, <2>2
    <3> QED BY <2>1, <3>1, <3>2, <3>3, Zenon DEF IInv, TypeOK
  <2>8. WaitInTime'
    <3>1. Waiting' /\ req' = req /\ waits' = waits
      BY <2>1 DEF Waiting
    <3>2. waited' <= req'.tmo + 1 + (IF crossed' THEN Day % Word ELSE 0)
      BY <2>1, <2>2, <2>5, <3>1, SMT DEF Day, Word
    <3> QED BY <3>1, <3>2 DEF IInv, WaitInTime
  <2>9. WaitInv'
    <3>1. waited <= 1193
      BY <2>1, WaitedShort
    <3>2. CASE crossed
      <4>1. clock < waited /\ req.start = (clock + Day - waited) % Word
        BY <2>1, <3>2 DEF IInv, WaitInv
      <4>2. clock' = clock + 1
        BY <2>2, <2>6, <3>1, <4>1, SMT DEF Day
      <4>3. clock' < waited' /\ req'.start = (clock' + Day - waited') % Word
        BY <2>1, <2>2, <4>1, <4>2, SMT DEF Day, Word
      <4>4. crossed' /\ ~polled' /\ req' = req /\ drv' = drv
        BY <2>1, <3>2, Zenon DEF setVars
      <4>5. /\ drv # Unmounted /\ Within(req.tmo, 16, 1016)
            /\ req.retries <= drv["MAX_RETRIES"]
        BY <2>1 DEF IInv, WaitInv
      <4> QED BY <4>3, <4>4, <4>5, Zenon DEF WaitInv, Within
    <3>3. CASE ~crossed /\ clock = Day - 1
      <4>1. req.start = (clock - waited) % Word
        BY <2>1, <3>3 DEF IInv, WaitInv
      <4>2. clock' < waited' /\ req'.start = (clock' + Day - waited') % Word
        BY <2>1, <2>2, <2>6, <3>3, <4>1, SMT DEF Day, Word
      <4>3. crossed' = TRUE
        BY <2>1, <2>6, <3>3
      <4> QED BY <2>1, <4>2, <4>3 DEF IInv, WaitInv, Waiting, Elapsed, time, setVars
    <3>4. CASE ~crossed /\ clock # Day - 1
      <4>1. waited <= clock /\ req.start = (clock - waited) % Word
        BY <2>1, <3>4 DEF IInv, WaitInv
      <4>2. waited' <= clock' /\ req'.start = (clock' - waited') % Word
        BY <2>1, <2>2, <2>6, <3>4, <4>1, SMT DEF Day, Word
      <4>3. crossed' = FALSE
        BY <2>1, <2>2, <2>6, <3>4
      <4> QED BY <2>1, <4>2, <4>3 DEF IInv, WaitInv, Waiting, Elapsed, time, setVars
    <3> QED BY <2>2, <3>2, <3>3, <3>4
  <2> QED BY <2>7, <2>8, <2>9 DEF IInv
<1>4. CASE KeepWaiting
  <2>1. UNCHANGED <<setVars, clock, req, waited, crossed, waits, requests>> /\ polled' = TRUE
    BY <1>4 DEF KeepWaiting
  <2>2. SettingsOK'
    BY <2>1 DEF IInv, TypeOK, SettingsOK, setVars
  <2>3. TypeOK'
    BY <2>1, <2>2 DEF IInv, TypeOK
  <2>4. WaitInTime'
    BY <2>1 DEF IInv, WaitInTime, Waiting
  <2>5. WaitInv'
    BY <1>4, <2>1 DEF IInv, WaitInv, Waiting, KeepWaiting, Elapsed, time, setVars
  <2> QED BY <2>3, <2>4, <2>5 DEF IInv
<1>5. CASE Resend
  <2>1. /\ TimedOut /\ UNCHANGED <<setVars, clock, requests>>
        /\ req' = [req EXCEPT !.start = time, !.tmo = Min(req.tmo * 2 % Word, MaxTmo),
                                 !.retries = req.retries + 1]
        /\ polled' = TRUE /\ waited' = 0 /\ crossed' = FALSE
        /\ Waiting /\ req.retries < drv["MAX_RETRIES"]
    BY <1>5 DEF Resend, TimedOut
  <2>2. /\ clock \in Nat /\ clock < Day /\ time \in Nat /\ time < Word
        /\ req \in [st : {"idle", "wait", "failed"}, start : Nat, tmo : Nat, retries : Nat]
    BY DEF IInv, TypeOK, time, Word
  <2>3. /\ drv # Unmounted /\ DriveOK(drv) /\ Within(req.tmo, 16, 1016)
    BY <2>1 DEF IInv, WaitInv, TypeOK, SettingsOK, DriveOK
  <2>4. MaxTmo \in Nat /\ Within(MaxTmo, 16, 1016) /\ drv["MAX_RETRIES"] \in Nat /\ drv["MAX_RETRIES"] <= 254
    BY <2>3 DEF MaxTmo, DriveOK, DriveOptions, Within
  <2>5. /\ Min(req.tmo * 2 % Word, MaxTmo) \in Nat
        /\ Within(Min(req.tmo * 2 % Word, MaxTmo), 16, 1016)
    <3> HIDE DEF MaxTmo
    <3>1. req.tmo * 2 % Word = req.tmo * 2
      BY <2>2, <2>3 DEF Within, Word
    <3> QED BY <2>2, <2>3, <2>4, <3>1 DEF Min, Within
  <2>6. /\ req'.st = "wait" /\ req'.start = time /\ req'.retries = req.retries + 1
        /\ req'.tmo = Min(req.tmo * 2 % Word, MaxTmo)
        /\ req' \in [st : {"idle", "wait", "failed"}, start : Nat, tmo : Nat, retries : Nat]
    <3> DEFINE m == Min(req.tmo * 2 % Word, MaxTmo)
    <3>1. m \in Nat
      BY <2>5
    <3>2. req' = [req EXCEPT !.start = time, !.tmo = m, !.retries = req.retries + 1]
      BY <2>1, Zenon
    <3>3. req.st = "wait"
      BY <2>1 DEF Waiting
    <3> HIDE DEF m
    <3>4. /\ req'.st = "wait" /\ req'.start = time /\ req'.retries = req.retries + 1
          /\ req'.tmo = m
      BY <2>2, <3>2, <3>3
    <3>5. req' \in Requests
      <4>1. req.retries + 1 \in Nat /\ req \in Requests /\ time \in Nat
        BY <2>2 DEF Requests
      <4> HIDE DEF time
      <4> QED BY <3>1, <3>2, <3>3, <4>1 DEF Requests
    <3> QED BY <3>4, <3>5, Zenon DEF m, Requests
  <2> HIDE DEF time, Min, MaxTmo
  <2>7. TypeOK'
    <3>1. SettingsOK'
      BY <2>1 DEF IInv, TypeOK, SettingsOK, setVars
    <3>2. req'.start < Word /\ req'.tmo < Word /\ req'.retries <= 254
      BY <2>1, <2>2, <2>4, <2>5, <2>6 DEF Within, Word
    <3> QED BY <2>1, <2>6, <3>1, <3>2, TimedOutOK DEF IInv, TypeOK
  <2>8. WaitInTime'
    <3>1. waited' <= req'.tmo + 1 + (IF crossed' THEN Day % Word ELSE 0)
      BY <2>1, <2>5, <2>6
    <3> QED BY <2>1, <3>1, TimedOutOK DEF WaitInTime
  <2>9. WaitInv'
    <3>1. Elapsed' = 0
      BY <2>1, <2>2, <2>6 DEF Elapsed, time, Word
    <3>2. req'.start = (clock' - waited') % Word /\ waited' <= clock'
      BY <2>1, <2>2, <2>6 DEF time
    <3>3. req'.retries <= drv'["MAX_RETRIES"] /\ drv' # Unmounted
      BY <2>1, <2>2, <2>3, <2>4, <2>6 DEF setVars
    <3> HIDE DEF Elapsed
    <3> QED BY <2>1, <2>5, <2>6, <3>1, <3>2, <3>3 DEF WaitInv, Within
  <2> QED BY <2>7, <2>8, <2>9 DEF IInv
<1>6. CASE GiveUp
  <2>1. /\ TimedOut /\ UNCHANGED <<setVars, requests>> /\ clock' \in Clocks
        /\ req' = [req EXCEPT !.st = "failed"]
        /\ polled' = TRUE /\ waited' = 0 /\ crossed' = FALSE
    BY <1>6 DEF GiveUp, TimedOut
  <2>2. ~Waiting'
    BY <2>1 DEF IInv, TypeOK, Waiting
  <2>3. clock' \in Nat /\ clock' < Day
    BY <2>1, DayNat, TimeoutsAssumption
  <2>4. TypeOK'
    <3>1. SettingsOK'
      BY <2>1 DEF IInv, TypeOK, SettingsOK, setVars
    <3>2. req' \in Requests /\ req'.start = req.start /\ req'.tmo = req.tmo /\ req'.retries = req.retries
      BY <2>1 DEF IInv, TypeOK, Requests
    <3>3. req'.start < Word /\ req'.tmo < Word /\ req'.retries <= 254
      BY <3>2 DEF IInv, TypeOK
    <3>4. polled' \in BOOLEAN /\ crossed' \in BOOLEAN /\ waited' \in Nat
      BY <2>1
    <3>5. waits' \in Seq(Waits)
      BY <2>1, TimedOutOK, Zenon DEF Waits
    <3> QED BY <2>1, <2>3, <3>1, <3>2, <3>3, <3>4, <3>5, Zenon DEF IInv, TypeOK, Requests, Waits
  <2>5. WaitInTime'
    BY <2>1, <2>2, TimedOutOK, Zenon DEF WaitInTime
  <2>6. WaitInv'
    BY <2>2, Zenon DEF WaitInv
  <2> QED BY <2>4, <2>5, <2>6, Zenon DEF IInv
<1>7. CASE Answered
  <2>1. /\ UNCHANGED <<setVars, polled, requests>> /\ clock' \in Clocks
        /\ req' = NoRequest /\ waited' = 0 /\ crossed' = FALSE /\ waits' = <<>>
    BY <1>7 DEF Answered
  <2>2. ~Waiting'
    BY <2>1 DEF Waiting, NoRequest
  <2>3. clock' \in Nat /\ clock' < Day
    BY <2>1, DayNat, TimeoutsAssumption
  <2>4. TypeOK'
    <3>1. SettingsOK'
      BY <2>1 DEF IInv, TypeOK, SettingsOK, setVars
    <3>2. req' \in Requests /\ req'.start < Word /\ req'.tmo < Word /\ req'.retries <= 254
      BY <2>1 DEF NoRequest, Requests, Word
    <3>3. /\ polled' \in BOOLEAN /\ crossed' \in BOOLEAN
          /\ waited' \in Nat /\ waits' \in Seq(Waits)
      <4>1. polled' \in BOOLEAN /\ crossed' \in BOOLEAN
        BY <2>1, Zenon DEF IInv, TypeOK
      <4>2. waited' \in Nat /\ waits' \in Seq(Waits)
        BY <2>1
      <4> QED BY <4>1, <4>2
    <3> QED BY <2>1, <2>3, <3>1, <3>2, <3>3, Zenon DEF IInv, TypeOK, Requests, Waits
  <2> QED BY <2>1, <2>2, <2>4 DEF IInv, WaitInTime, WaitInv
<1>8. CASE UNCHANGED vars
  <2>1. SettingsOK'
    BY <1>8 DEF IInv, TypeOK, SettingsOK, vars, setVars
  <2>2. TypeOK'
    BY <1>8, <2>1 DEF IInv, TypeOK, vars, timeVars
  <2>3. WaitInTime'
    BY <1>8 DEF IInv, WaitInTime, Waiting, vars, timeVars
  <2>4. WaitInv'
    BY <1>8 DEF IInv, WaitInv, Waiting, Elapsed, time, vars, setVars, timeVars
  <2> QED BY <2>2, <2>3, <2>4 DEF IInv
<1> QED BY <1>1, <1>2, <1>3, <1>4, <1>5, <1>6, <1>7, <1>8 DEF Next

\* Whatever is typed for the settings, send_request works with usable ones, and its
\* waits are as long as the timeouts say, with the exception of midnight: for every
\* clock, every setting and any number of retries.
THEOREM WaitsInTime == Spec => [](TypeOK /\ WaitInTime)
<1>1. Spec => []IInv
  BY InitInv, NextInv, PTL DEF Spec
<1>2. IInv => TypeOK /\ WaitInTime
  BY DEF IInv
<1> QED BY <1>1, <1>2, PTL

\* Whatever was typed at INSTALL, MOUNT or NMMANAGE, send_request finds settings
\* it can work with: timeouts from 4 to 254 quarters, at most 254 retries.
THEOREM SettingsUsable == Spec => []TypeOK
<1>1. Spec => []IInv
  BY InitInv, NextInv, PTL DEF Spec
<1>2. IInv => TypeOK
  BY DEF IInv
<1> QED BY <1>1, <1>2, PTL

-----------------------------------------------------------------------------
(* A request that is given up *)

\* The timeout of wait number i of the waits w.
Planned(w, i) ==
  IF i = 1 THEN drv["MIN_RCV_TMO"] * 4 ELSE Min(2 * w[i - 1].tmo, MaxTmo)

\* The waits so far were the planned ones, and so is the one that goes on.
PlanInv ==
  Waiting =>
    /\ Len(waits) = req.retries
    /\ \A i \in 1..Len(waits) : waits[i].tmo = Planned(waits, i)
    /\ req.tmo = Planned(waits, req.retries + 1)

\* Midnight came at most once since the request was sent, for all waits together
\* are shorter than a day: 255 waits of at most 1193 ticks.
Crossings == {i \in DOMAIN waits : waits[i].crossed}

MidnightInv ==
  Waiting =>
    /\ \A i, j \in Crossings : i = j
    /\ crossed => Crossings = {}
    /\ crossed \/ Crossings # {} => clock <= 1193 * Len(waits) + waited

\* A wait that timed out is the last of the planned ones, and only one of them was
\* disturbed by midnight.
LEMMA TimedOutPlan ==
  ASSUME IInv, PlanInv, MidnightInv, TimedOut
  PROVE  /\ Len(waits') = req.retries + 1 /\ req.retries \in Nat
         /\ waits'[req.retries + 1].tmo = req.tmo
         /\ \A i \in 1..Len(waits') : waits'[i].tmo = Planned(waits', i)
         /\ \A i, j \in DOMAIN waits' : waits'[i].crossed /\ waits'[j].crossed => i = j
         /\ (\E i \in DOMAIN waits' : waits'[i].crossed) => clock <= 1193 * Len(waits')
<1> DEFINE w == [tmo |-> req.tmo, waited |-> waited, crossed |-> crossed]
<1>1. /\ waits \in Seq(Waits) /\ w \in Waits /\ req.retries \in Nat
      /\ clock \in Nat /\ waited \in Nat /\ crossed \in BOOLEAN
  BY DEF IInv, TypeOK, Waits
<1>2. waits' = Append(waits, w) /\ Waiting
  BY DEF TimedOut
<1>3. /\ w.tmo = req.tmo /\ w.crossed = crossed
      /\ Len(waits) = req.retries
  BY <1>2 DEF PlanInv
<1> HIDE DEF w
<1>4. /\ Len(waits') = req.retries + 1 /\ DOMAIN waits' = 1..(req.retries + 1)
      /\ DOMAIN waits = 1..req.retries
      /\ waits'[req.retries + 1] = w
      /\ \A i \in 1..req.retries : waits'[i] = waits[i]
  BY <1>1, <1>2, <1>3
<1>5. ASSUME NEW i \in 1..(req.retries + 1)
      PROVE  waits'[i].tmo = Planned(waits', i)
  <2>1. Planned(waits', i) = Planned(waits, i)
    <3>1. CASE i = 1
      BY <3>1 DEF Planned
    <3>2. CASE i # 1
      <4>1. i - 1 \in 1..req.retries
        BY <1>1, <3>2
      <4>2. waits'[i - 1] = waits[i - 1]
        BY <1>4, <4>1
      <4> QED BY <3>2, <4>2 DEF Planned
    <3> QED BY <3>1, <3>2
  <2>2. CASE i = req.retries + 1
    BY <1>2, <1>3, <1>4, <2>1, <2>2 DEF PlanInv
  <2>3. CASE i \in 1..req.retries
    <3>1. waits[i].tmo = Planned(waits, i)
      BY <1>2, <1>3, <2>3 DEF PlanInv
    <3> QED BY <1>4, <2>1, <2>3, <3>1
  <2> QED BY <1>1, <2>2, <2>3
<1>6. ASSUME NEW i \in DOMAIN waits', waits'[i].crossed
      PROVE  i \in Crossings \/ (i = req.retries + 1 /\ crossed)
  <2>1. CASE i = req.retries + 1
    BY <1>3, <1>4, <1>6, <2>1
  <2>2. CASE i \in 1..req.retries
    BY <1>4, <1>6, <2>2 DEF Crossings
  <2> QED BY <1>1, <1>4, <2>1, <2>2
<1>7. ASSUME NEW i \in DOMAIN waits', NEW j \in DOMAIN waits',
             waits'[i].crossed, waits'[j].crossed
      PROVE  i = j
  <2>1. i \in Crossings \/ (i = req.retries + 1 /\ crossed)
    BY <1>6, <1>7
  <2>2. j \in Crossings \/ (j = req.retries + 1 /\ crossed)
    BY <1>6, <1>7
  <2> QED BY <1>2, <2>1, <2>2 DEF MidnightInv
<1>8. ASSUME NEW i \in DOMAIN waits', waits'[i].crossed
      PROVE  clock <= 1193 * Len(waits')
  <2>1. crossed \/ Crossings # {}
    BY <1>6, <1>8
  <2>2. clock <= 1193 * Len(waits) + waited
    BY <1>2, <2>1 DEF MidnightInv
  <2>3. waited <= 1193
    BY <1>2, WaitedShort
  <2> QED BY <1>1, <1>3, <1>4, <2>2, <2>3
<1> QED BY <1>1, <1>3, <1>4, <1>5, <1>7, <1>8

\* Both are kept by every step.
LEMMA NextPlan ==
  ASSUME IInv, PlanInv, MidnightInv, [Next]_vars
  PROVE  PlanInv' /\ MidnightInv'
<1>1. CASE RunCommand \/ GiveUp \/ Answered
  <2>1. ~Waiting'
    BY <1>1 DEF RunCommand, GiveUp, Answered, Waiting, timeVars, NoRequest, IInv, TypeOK
  <2> QED BY <2>1 DEF PlanInv, MidnightInv
<1>2. CASE SendRequest
  <2>1. /\ waits' = <<>> /\ crossed' = FALSE /\ UNCHANGED setVars
        /\ req'.retries = 0 /\ req'.tmo = drv["MIN_RCV_TMO"] * 4
    BY <1>2 DEF SendRequest
  <2>2. Len(waits') = 0 /\ Crossings' = {} /\ drv' = drv
    BY <2>1 DEF Crossings, setVars
  <2>3. PlanInv'
    BY <2>1, <2>2 DEF PlanInv, Planned
  <2>4. MidnightInv'
    BY <2>1, <2>2 DEF MidnightInv
  <2> QED BY <2>3, <2>4
<1>3. CASE KeepWaiting \/ UNCHANGED vars
  <2>1. UNCHANGED <<drv, req, waits, crossed, clock, waited>>
    BY <1>3 DEF KeepWaiting, vars, timeVars, setVars
  <2> QED BY <2>1 DEF PlanInv, MidnightInv, Waiting, Planned, MaxTmo, Crossings
<1>4. CASE Tick
  <2>1. /\ Waiting /\ clock' = (clock + 1) % Day
        /\ waited' = waited + 1 /\ crossed' = (crossed \/ clock' = 0)
        /\ UNCHANGED <<drv, req, waits>>
    BY <1>4 DEF Tick, setVars
  <2>2. PlanInv'
    BY <2>1 DEF PlanInv, Waiting, Planned, MaxTmo
  <2>3. /\ clock \in Nat /\ clock < Day /\ waited \in Nat /\ crossed \in BOOLEAN
        /\ Len(waits) \in Nat /\ Len(waits) <= 254 /\ waited <= 1193
    <3>1. clock \in Nat /\ clock < Day /\ waited \in Nat /\ crossed \in BOOLEAN
      BY DEF IInv, TypeOK
    <3>2. Len(waits) = req.retries /\ req.retries \in Nat /\ req.retries <= 254
      BY <2>1 DEF IInv, TypeOK, PlanInv
    <3> QED BY <2>1, <3>1, <3>2, WaitedShort
  <2>4. Crossings' = Crossings
    BY <2>1 DEF Crossings
  <2>5. CASE crossed \/ Crossings # {}
    <3>1. clock <= 1193 * Len(waits) + waited
      BY <2>1, <2>5 DEF MidnightInv
    <3>2. clock' = clock + 1
      BY <2>1, <2>3, <3>1, SMT DEF Day
    <3>3. crossed' = crossed
      BY <2>1, <2>3, <3>2
    <3>4. clock' <= 1193 * Len(waits') + waited'
      BY <2>1, <2>3, <3>1, <3>2
    <3> QED BY <2>1, <2>2, <2>4, <3>3, <3>4 DEF MidnightInv
  <2>6. CASE ~crossed /\ Crossings = {}
    <3>1. crossed' => clock' = 0
      BY <2>1, <2>6
    <3>2. 0 <= 1193 * Len(waits') + waited'
      BY <2>1, <2>3
    <3> QED BY <2>2, <2>4, <2>6, <3>1, <3>2 DEF MidnightInv
  <2> QED BY <2>5, <2>6
<1>5. CASE Resend
  <2>1. /\ TimedOut /\ UNCHANGED <<drv, clock>> /\ waited' = 0 /\ crossed' = FALSE
        /\ req' = [req EXCEPT !.start = time, !.tmo = Min(req.tmo * 2 % Word, MaxTmo),
                              !.retries = req.retries + 1]
    BY <1>5 DEF Resend, TimedOut, setVars
  <2>2. /\ req \in Requests /\ req.tmo \in Nat /\ req.tmo <= 1016
        /\ req.retries \in Nat /\ clock \in Nat
    BY <2>1 DEF IInv, TypeOK, Requests, WaitInv, Within, TimedOut
  <2>3. /\ req'.retries = req.retries + 1
        /\ req'.tmo = Min(req.tmo * 2 % Word, MaxTmo)
    BY <2>1, <2>2 DEF Requests
  <2>4. req.tmo * 2 % Word = 2 * req.tmo
    BY <2>2, SMT DEF Word
  <2>5. PlanInv'
    <3>1. Planned(waits', req.retries + 2) = Min(2 * req.tmo, MaxTmo)
      <4>1. req.retries + 2 # 1 /\ (req.retries + 2) - 1 = req.retries + 1
        BY <2>2
      <4> QED BY <2>1, <4>1, TimedOutPlan DEF Planned
    <3>2. \A i : Planned(waits', i) = Planned(waits, i)'
      BY <2>1 DEF Planned, MaxTmo
    <3>3. /\ Len(waits') = req'.retries
          /\ \A i \in 1..Len(waits') : waits'[i].tmo = Planned(waits', i)
      BY <2>1, <2>3, TimedOutPlan
    <3>4. req'.tmo = Planned(waits', req.retries + 2)
      BY <2>3, <2>4, <3>1
    <3>5. req'.retries + 1 = req.retries + 2
      BY <2>2, <2>3
    <3> HIDE DEF Planned, Min, MaxTmo
    <3>6. /\ \A i \in 1..Len(waits') : waits'[i].tmo = Planned(waits, i)'
          /\ req'.tmo = Planned(waits, req.retries + 1)'
      BY <3>2, <3>3, <3>4, <3>5
    <3> QED BY <3>3, <3>6 DEF PlanInv
  <2>6. MidnightInv'
    <3>1. \A i, j \in Crossings' : i = j
      BY <2>1, TimedOutPlan DEF Crossings
    <3>2. Crossings' # {} => clock' <= 1193 * Len(waits') + waited'
      <4>1. Crossings' # {} => clock <= 1193 * Len(waits')
        BY <2>1, TimedOutPlan DEF Crossings
      <4>2. Len(waits') \in Nat
        BY <2>1, <2>2, TimedOutPlan
      <4> QED BY <2>1, <2>2, <4>1, <4>2
    <3> QED BY <2>1, <3>1, <3>2 DEF MidnightInv
  <2> QED BY <2>5, <2>6
<1> QED BY <1>1, <1>2, <1>3, <1>4, <1>5 DEF Next

\* A request is given up only after every attempt that the setting allows, each
\* after the wait planned for it, and midnight shortens one of them at most: for all
\* settings and clocks.
THEOREM GivesUpInTimeHolds == Spec => GivesUpInTime
<1> DEFINE G == /\ Len(waits') = drv["MAX_RETRIES"] + 1
                /\ \A i \in DOMAIN waits' :
                     waits'[i].tmo = IF i = 1 THEN drv["MIN_RCV_TMO"] * 4
                                     ELSE Min(2 * waits'[i - 1].tmo, MaxTmo)
                /\ Cardinality({i \in DOMAIN waits' : waits'[i].waited <= waits'[i].tmo}) <= 1
<1>1. ASSUME IInv, PlanInv, MidnightInv, GiveUp PROVE G
  <2>1. TimedOut /\ req.retries = drv["MAX_RETRIES"]
    BY <1>1 DEF GiveUp
  <2>2. Len(waits') = drv["MAX_RETRIES"] + 1
    BY <1>1, <2>1, TimedOutPlan
  <2>3. waits' \in Seq(Waits)
    BY <1>1, <2>1, TimedOutOK DEF Waits
  <2>4. DOMAIN waits' = 1..Len(waits')
    BY <2>3
  <2>5. \A i \in DOMAIN waits' : waits'[i].tmo = Planned(waits', i)
    BY <1>1, <2>1, <2>4, TimedOutPlan
  <2> DEFINE S == {i \in DOMAIN waits' : waits'[i].waited <= waits'[i].tmo}
  <2>6. ASSUME NEW i \in S PROVE i \in DOMAIN waits' /\ waits'[i].crossed
    <3>1. waits'[i] \in Waits
      BY <2>3
    <3>2. ~waits'[i].crossed => waits'[i].waited = waits'[i].tmo + 1
      BY <1>1, <2>1, TimedOutOK
    <3> QED BY <3>1, <3>2 DEF Waits
  <2>7. \A i, j \in S : i = j
    BY <1>1, <2>1, <2>6, TimedOutPlan
  <2> HIDE DEF S
  <2>8. Cardinality(S) <= 1
    <3>1. CASE S = {}
      BY <3>1, FS_EmptySet
    <3>2. CASE S # {}
      <4>1. PICK x : x \in S
        BY <3>2
      <4>2. S = {x}
        BY <2>7, <4>1
      <4> QED BY <4>2, FS_Singleton
    <3> QED BY <3>1, <3>2
  <2> QED BY <2>2, <2>5, <2>8 DEF S, Planned
<1>2. IInv /\ PlanInv /\ MidnightInv /\ [Next]_vars => [GiveUp => G]_vars
  BY <1>1
<1>3. Init => IInv /\ PlanInv /\ MidnightInv
  BY InitInv DEF Init, NoRequest, Waiting, PlanInv, MidnightInv
<1>4. IInv /\ PlanInv /\ MidnightInv /\ [Next]_vars => (IInv /\ PlanInv /\ MidnightInv)'
  BY NextInv, NextPlan
<1> QED BY <1>2, <1>3, <1>4, PTL DEF Spec, GivesUpInTime

-----------------------------------------------------------------------------
(* What is shown *)

ShownOf(o, x) ==
  CASE o \in {"MIN_RCV_TMO", "MAX_RCV_TMO"} -> compute_rcv_tmo(x)
    [] o \in NetOptions -> Int16(x)
    [] OTHER -> x

\* Storing a value and showing it returns the value.
LEMMA RoundTrip ==
  ASSUME NEW v \in Nat, v <= 65535, NEW o \in DriveOptions \cup NetOptions,
         Accepted(o, v), Fits(o, v)
  PROVE  ShownOf(o, Stored(o, v)) = v
<1>1. ASSUME o = "MIN_RCV_TMO" \/ o = "MAX_RCV_TMO"
      PROVE  ShownOf(o, Stored(o, v)) = v
  <2>1. Within(v, 1, 56)
    <3>1. CASE o = "MIN_RCV_TMO"
      BY <3>1 DEF Accepted
    <3>2. CASE o = "MAX_RCV_TMO"
      BY <3>2 DEF Accepted
    <3> QED BY <1>1, <3>1, <3>2
  <2> DEFINE ticks == (((v * 182) \div 10) \div 4) % 256
  <2>2. Stored(o, v) = ticks
    BY <1>1 DEF Stored
  <2>3. ShownOf(o, Stored(o, v)) = compute_rcv_tmo(ticks)
    <3> HIDE DEF ticks
    <3>1. ASSUME NEW x PROVE ShownOf(o, x) = compute_rcv_tmo(x)
      <4>1. CASE o = "MIN_RCV_TMO"
        BY <4>1 DEF ShownOf, NetOptions
      <4>2. CASE o = "MAX_RCV_TMO"
        BY <4>2 DEF ShownOf, NetOptions
      <4> QED BY <1>1, <4>1, <4>2
    <3>2. ShownOf(o, ticks) = compute_rcv_tmo(ticks)
      BY <3>1
    <3> QED BY <2>2, <3>2, SMT
  <2>4. compute_rcv_tmo(ticks) = v
    BY <2>1 DEF Within, compute_rcv_tmo
  <2> HIDE DEF ticks
  <2> QED BY <2>3, <2>4, SMT
<1>2. CASE o = "MAX_RETRIES"
  BY <1>2 DEF Accepted, Stored, Int16, NetOptions, Within, ShownOf
<1>3. CASE o = "MIN_READ_LEN"
  BY <1>3 DEF Accepted, Stored, NetOptions, ShownOf
<1>4. CASE o = "PORT"
  <2>1. v <= 32767
    BY <1>4 DEF Fits, Within
  <2>2. Stored(o, v) = v
    BY <1>4 DEF Stored, NetOptions
  <2>3. ShownOf(o, v) = Int16(v)
    BY <1>4 DEF ShownOf, NetOptions
  <2> QED BY <2>1, <2>2, <2>3 DEF Int16
<1>5. CASE o = "MTU"
  <2>1. v <= 1500
    BY <1>5 DEF Accepted, Within
  <2>2. Stored(o, v) = v
    BY <1>5 DEF Stored, NetOptions
  <2>3. ShownOf(o, v) = Int16(v)
    BY <1>5 DEF ShownOf, NetOptions
  <2> QED BY <2>1, <2>2, <2>3 DEF Int16
<1> QED BY <1>1, <1>2, <1>3, <1>4, <1>5 DEF DriveOptions, NetOptions

\* A number that fits is taken for itself by strtoul and strto_ui16.
LEMMA FitsOK ==
  ASSUME NEW t \in Text, NEW o \in DriveOptions \cup NetOptions, Fits(o, t.num)
  PROVE  Number(t) = t.num /\ (HasDigits(t) => OptionValue(o, t) = t.num)
<1>1. t.num \in Int
  BY DEF Text
<1>2. CASE o = "MIN_READ_LEN"
  <2>1. 0 <= t.num /\ t.num <= 255
    BY <1>2 DEF Fits, Within
  <2>2. Number(t) = t.num /\ (HasDigits(t) => strto_ui16(t) = t.num)
    BY <1>1, <2>1 DEF Number, strto_ui16
  <2> QED BY <1>1, <1>2, <2>1, <2>2 DEF OptionValue
<1>3. CASE o # "MIN_READ_LEN"
  <2>1. 0 <= t.num /\ t.num <= 65535
    <3>1. CASE o = "PORT"
      BY <1>1, <3>1 DEF Fits, Within
    <3>2. CASE o # "PORT"
      BY <1>3, <3>2 DEF Fits, Within
    <3> QED BY <3>1, <3>2
  <2>2. Number(t) = t.num /\ (HasDigits(t) => strto_ui16(t) = t.num)
    BY <1>1, <2>1 DEF Number, strto_ui16
  <2> QED BY <1>3, <2>2 DEF OptionValue
<1> QED BY <1>2, <1>3

\* A new number for one of the entries.
LEMMA ExceptInt ==
  ASSUME NEW S, NEW f \in [S -> Int], NEW a, NEW n \in Int
  PROVE  DOMAIN [f EXCEPT ![a] = n] = S /\ [f EXCEPT ![a] = n] \in [S -> Int]
OBVIOUS

\* The inductive form of ShownAsTyped.
ShownInv ==
  /\ typed \in [NetOptions -> Int] \/ typed \in [DriveOptions \cup NetOptions -> Int]
  /\ \A o \in DOMAIN typed :
       Fits(o, typed[o]) => ShownOf(o, IF o \in NetOptions THEN net[o] ELSE drv[o]) = typed[o]

\* It says what ShownAsTyped says.
LEMMA ShownSame == ShownInv => ShownAsTyped
<1> SUFFICES ASSUME ShownInv, NEW o \in DOMAIN typed
             PROVE  Shown(o) = ShownOf(o, IF o \in NetOptions THEN net[o] ELSE drv[o])
  BY DEF ShownInv, ShownAsTyped
<1>1. o \in DriveOptions \cup NetOptions
  BY DEF ShownInv
<1>2. CASE o \in NetOptions
  BY <1>2 DEF Shown, net_get, drive_get, ShownOf, NetOptions
<1>3. CASE o = "MIN_RCV_TMO"
  BY <1>3 DEF Shown, net_get, drive_get, ShownOf, NetOptions
<1>4. CASE o = "MAX_RCV_TMO"
  BY <1>4 DEF Shown, net_get, drive_get, ShownOf, NetOptions
<1>5. CASE o = "MAX_RETRIES" \/ o = "MIN_READ_LEN"
  BY <1>5 DEF Shown, net_get, drive_get, ShownOf, NetOptions
<1> QED BY <1>1, <1>2, <1>3, <1>4, <1>5 DEF DriveOptions

\* Options that are accepted, and defaults, are shown as they were typed.
LEMMA OptionsShown ==
  ASSUME NEW opts, NEW default, NEW o \in DOMAIN default, o \in DriveOptions \cup NetOptions,
         \A p \in DOMAIN opts : opts[p] \in Text, Accepts(opts),
         default[o] \in Nat, default[o] <= 65535, Accepted(o, default[o]),
         Fits(o, TypedIn(opts, default)[o])
  PROVE  ShownOf(o, ValuesOf(opts, default)[o]) = TypedIn(opts, default)[o]
<1>1. CASE o \in DOMAIN opts
  <2>1. /\ opts[o] \in Text /\ HasDigits(opts[o]) /\ Accepted(o, OptionValue(o, opts[o]))
        /\ TypedIn(opts, default)[o] = opts[o].num
        /\ ValuesOf(opts, default)[o] = Stored(o, OptionValue(o, opts[o]))
    BY <1>1 DEF Accepts, TypedIn, ValuesOf
  <2>2. OptionValue(o, opts[o]) = opts[o].num
    BY <2>1, FitsOK
  <2>3. OptionValue(o, opts[o]) \in Nat /\ OptionValue(o, opts[o]) <= 65535
    BY <2>1, NumberOK
  <2> QED BY <2>1, <2>2, <2>3, RoundTrip
<1>2. CASE o \notin DOMAIN opts
  BY <1>2, RoundTrip DEF TypedIn, ValuesOf
<1> QED BY <1>1, <1>2

\* What INSTALL leaves is shown as it was typed.
LEMMA InitShown == Init => ShownInv
<1> SUFFICES ASSUME Init PROVE ShownInv
  OBVIOUS
<1>1. PICK opts \in Installs :
        /\ Accepts(opts)
        /\ net = ValuesOf(opts, DefaultNet) /\ typed = TypedIn(opts, DefaultNet)
  BY DEF Init, InitSettings
<1>2. \A p \in DOMAIN opts : opts[p] \in Text
  BY SettingsAssumption
<1>3. typed \in [NetOptions -> Int]
  BY <1>1, <1>2, DefaultsOK DEF TypedIn, Text
<1>4. ASSUME NEW o \in NetOptions, Fits(o, typed[o]) PROVE ShownOf(o, net[o]) = typed[o]
  BY <1>1, <1>2, <1>4, DefaultsOK, OptionsShown
<1> QED BY <1>3, <1>4 DEF ShownInv

\* Nor does a command leave anything that is shown differently.
LEMMA CommandShown == SettingsOK /\ ShownInv /\ Command => ShownInv'
<1> SUFFICES ASSUME SettingsOK, ShownInv, Command PROVE ShownInv'
  OBVIOUS
<1>0. /\ DOMAIN typed \subseteq DriveOptions \cup NetOptions /\ NetOptions \subseteq DOMAIN typed
      /\ typed \in [DOMAIN typed -> Int]
  BY DEF ShownInv
<1>1. ASSUME NEW m \in Mounts, NEW c \in SUBSET Checksums, Mount(m, c) PROVE ShownInv'
  <2>1. /\ Accepts(m) /\ drv' = ValuesOf(m, DefaultDrive) /\ net' = net
        /\ typed' = [o \in DriveOptions \cup NetOptions |->
                       IF o \in DriveOptions THEN TypedIn(m, DefaultDrive)[o] ELSE typed[o]]
    BY <1>1 DEF Mount
  <2>2. \A p \in DOMAIN m : m[p] \in Text
    BY SettingsAssumption
  <2>3. \A o \in DriveOptions : TypedIn(m, DefaultDrive)[o] \in Int
    BY <2>2, DefaultsOK DEF TypedIn, Text
  <2>4. typed' \in [DriveOptions \cup NetOptions -> Int]
    BY <1>0, <2>1, <2>3
  <2>5. ASSUME NEW o \in DriveOptions, Fits(o, typed'[o]) PROVE ShownOf(o, drv'[o]) = typed'[o]
    BY <2>1, <2>2, <2>5, DefaultsOK, OptionsShown
  <2>6. ASSUME NEW o \in NetOptions, Fits(o, typed'[o]) PROVE ShownOf(o, net'[o]) = typed'[o]
    <3>1. typed'[o] = typed[o] /\ o \in DOMAIN typed
      BY <1>0, <2>1 DEF DriveOptions, NetOptions
    <3> QED BY <2>1, <2>6, <3>1 DEF ShownInv
  <2> QED BY <2>4, <2>5, <2>6 DEF ShownInv
<1>2. ASSUME NEW o \in DriveOptions, NEW t \in Texts, DriveSet(o, t) PROVE ShownInv'
  <2>1. /\ Accepted(o, Number(t)) /\ net' = net /\ drv \in [DriveOptions -> Nat]
        /\ drv' = [drv EXCEPT ![o] = Stored(o, Number(t))]
        /\ typed' = [typed EXCEPT ![o] = t.num]
    BY <1>2 DEF DriveSet, SettingsOK
  <2>2. t \in Text /\ t.num \in Int /\ Number(t) \in Nat /\ Number(t) <= 65535
    BY SettingsAssumption, NumberOK DEF Text
  <2>3. DOMAIN typed' = DOMAIN typed /\ typed' \in [DOMAIN typed -> Int]
    BY <1>0, <2>1, <2>2, ExceptInt
  <2>4. ASSUME NEW p \in DOMAIN typed, Fits(p, typed'[p])
        PROVE  ShownOf(p, IF p \in NetOptions THEN net'[p] ELSE drv'[p]) = typed'[p]
    <3>1. CASE p = o
      <4>1. typed'[p] = t.num /\ drv'[p] = Stored(p, Number(t)) /\ p \notin NetOptions
        BY <1>0, <2>1, <3>1 DEF DriveOptions, NetOptions
      <4>2. Number(t) = t.num
        BY <2>2, <2>4, <3>1, <4>1, FitsOK
      <4> QED BY <2>1, <2>2, <2>4, <3>1, <4>1, <4>2, RoundTrip
    <3>2. CASE p # o
      <4>1. typed'[p] = typed[p] /\ (p \notin NetOptions => drv'[p] = drv[p])
        BY <1>0, <2>1, <3>2
      <4> QED BY <2>1, <2>4, <4>1 DEF ShownInv
    <3> QED BY <3>1, <3>2
  <2> QED BY <2>3, <2>4 DEF ShownInv
<1>3. ASSUME NEW o \in NetOptions, NEW t \in Texts, NetSet(o, t) PROVE ShownInv'
  <2>1. /\ Accepted(o, Number(t)) /\ drv' = drv /\ net \in [NetOptions -> Nat]
        /\ net' = [net EXCEPT ![o] = Stored(o, Number(t))]
        /\ typed' = [typed EXCEPT ![o] = t.num]
    BY <1>3 DEF NetSet, SettingsOK
  <2>2. t \in Text /\ t.num \in Int /\ Number(t) \in Nat /\ Number(t) <= 65535
    BY SettingsAssumption, NumberOK DEF Text
  <2>3. DOMAIN typed' = DOMAIN typed /\ typed' \in [DOMAIN typed -> Int]
    BY <1>0, <2>1, <2>2, ExceptInt
  <2>4. ASSUME NEW p \in DOMAIN typed, Fits(p, typed'[p])
        PROVE  ShownOf(p, IF p \in NetOptions THEN net'[p] ELSE drv'[p]) = typed'[p]
    <3>1. CASE p = o
      <4>1. typed'[p] = t.num /\ net'[p] = Stored(p, Number(t))
        BY <1>0, <2>1, <3>1
      <4>2. Number(t) = t.num
        BY <2>2, <2>4, <3>1, <4>1, FitsOK
      <4> QED BY <2>1, <2>2, <2>4, <3>1, <4>1, <4>2, RoundTrip
    <3>2. CASE p # o
      <4>1. typed'[p] = typed[p] /\ (p \in NetOptions => net'[p] = net[p])
        BY <1>0, <2>1, <3>2
      <4> QED BY <2>1, <2>4, <4>1 DEF ShownInv
    <3> QED BY <3>1, <3>2
  <2> QED BY <2>3, <2>4 DEF ShownInv
<1>4. ASSUME NEW f, Switch(f) PROVE ShownInv'
  BY <1>4 DEF Switch, ShownInv
<1> QED BY <1>1, <1>2, <1>3, <1>4 DEF Command, SetChecksum, SetArpRequests

\* What is typed for a setting and accepted is what drive_get and net_get show, for
\* every number that fits, though timeouts are kept in ticks without their two lowest
\* bits.
THEOREM SettingsShown == Spec => []ShownAsTyped
<1>1. IInv /\ ShownInv /\ [Next]_vars => ShownInv'
  <2> SUFFICES ASSUME IInv, ShownInv, [Next]_vars PROVE ShownInv'
    OBVIOUS
  <2>1. CASE RunCommand
    BY <2>1, CommandShown DEF IInv, TypeOK, RunCommand
  <2>2. CASE UNCHANGED setVars
    BY <2>2 DEF ShownInv, setVars
  <2> QED
    BY <2>1, <2>2 DEF Next, SendRequest, Tick, KeepWaiting, Resend, GiveUp, Answered, vars
<1>2. Spec => []IInv
  BY InitInv, NextInv, PTL DEF Spec
<1> QED BY <1>1, <1>2, InitShown, ShownSame, PTL DEF Spec
=============================================================================
