------------------------------ MODULE Settings ------------------------------
(***************************************************************************)
(* The settings of the client: those of the interface, which INSTALL and   *)
(* NMMANAGE NET SET write, and those of a mounted drive, which MOUNT and   *)
(* NMMANAGE DRIVE SET write.  They are shared data of the resident client, *)
(* kept in 8 and 16 bits.  One drive is modelled, drives do not share      *)
(* settings.                                                               *)
(*                                                                         *)
(* An argument is a text [num, digits, junk]: the number it begins with,   *)
(* whether there is one at all, and whether other characters follow.       *)
(* An argument that is refused ends the program and changes nothing.       *)
(***************************************************************************)
EXTENDS Integers

CONSTANTS
  Texts,     \* the arguments users type
  Installs,  \* the options given to INSTALL: functions from NetOptions to texts
  Mounts,    \* the options given to MOUNT: functions from DriveOptions to texts
  MaxSets    \* bound on the uses of NMMANAGE

DriveOptions == {"MIN_RCV_TMO", "MAX_RCV_TMO", "MAX_RETRIES", "MIN_READ_LEN"}
NetOptions == {"PORT", "MTU"}
Checksums == {"CHECKSUM_NETMOUNT", "CHECKSUM_IP_HEADER"}
Flags == Checksums \cup {"NO_ARP_REQUESTS"}

Text == [num : Int, digits : BOOLEAN, junk : BOOLEAN]

ASSUME SettingsAssumption ==
  /\ \A t \in Texts : t \in Text
  /\ \A m \in Installs : DOMAIN m \subseteq NetOptions /\ \A o \in DOMAIN m : m[o] \in Text
  /\ \A m \in Mounts : DOMAIN m \subseteq DriveOptions /\ \A o \in DOMAIN m : m[o] \in Text
  /\ MaxSets \in Nat

VARIABLES
  net,       \* interface settings
  flags,     \* disable_sending_arp_request, enabled_checksums of the drive
  drv,       \* settings of the drive, Unmounted if there is none
  typed,     \* history: the number typed for each setting
  sets       \* number of uses of NMMANAGE so far

setVars == <<net, flags, drv, typed, sets>>

Unmounted == [mounted |-> FALSE]

DefaultNet == [o \in NetOptions |-> IF o = "PORT" THEN 12200 ELSE 1500]
DefaultDrive == [o \in DriveOptions |->
                   CASE o = "MIN_RCV_TMO" -> 1
                     [] o = "MAX_RCV_TMO" -> 5
                     [] o = "MAX_RETRIES" -> 4
                     [] OTHER -> 64]

-----------------------------------------------------------------------------
(* Numbers *)

\* strtoul of NMMANAGE, its result put into 16 bits.
IsNumber(t) == t.digits /\ ~t.junk
Number(t) == t.num % 65536

\* strto_ui16 of NETMOUNT takes digits only, and does not look at what follows.
HasDigits(t) == t.digits /\ t.num >= 0
strto_ui16(t) == IF HasDigits(t) THEN t.num % 65536 ELSE 0

Within(v, min, max) == min <= v /\ v <= max

Int16(v) == IF v < 32768 THEN v ELSE v - 65536

\* n & (n - 1) = 0 in 16 bits
IsPowerOf2(n) == n \in {0, 1, 2, 4, 8, 16, 32, 64, 128, 256, 512, 1024, 2048, 4096, 8192,
                         16384, 32768}

\* A check of the upper limit only.
AcceptedUpTo(o, v) ==
  CASE o \in {"MIN_RCV_TMO", "MAX_RCV_TMO"} -> v <= 56
    [] o = "MAX_RETRIES"  -> Int16(v) <= 254
    [] o = "MIN_READ_LEN" -> v <= 64
    [] o = "PORT"         -> TRUE
    [] o = "MTU"          -> v <= 1500

Accepted(o, v) ==
  CASE o \in {"MIN_RCV_TMO", "MAX_RCV_TMO"} -> Within(v, 1, 56)
    [] o = "MAX_RETRIES"  -> Within(Int16(v), 0, 254)
    [] o = "MIN_READ_LEN" -> v <= 64 /\ IsPowerOf2(v)
    [] o = "PORT"         -> v # 0
    [] o = "MTU"          -> Within(v, 560, 1500)

\* Seconds are kept as ticks of 18.2 Hz without their two lowest bits.
Stored(o, v) ==
  IF o \in {"MIN_RCV_TMO", "MAX_RCV_TMO"} THEN (((v * 182) \div 10) \div 4) % 256
  ELSE IF o \in NetOptions THEN v ELSE v % 256

\* The seconds, not rounded.
compute_rcv_tmo_down(s) == ((s * 4 * 100) \div 182) \div 10

\* What GET and INFO show for a timeout: tenths of seconds, rounded.
compute_rcv_tmo(s) ==
  LET dsec == (s * 4 * 100) \div 182
      sec  == dsec \div 10
  IN  IF dsec - sec * 10 >= 5 THEN sec + 1 ELSE sec

\* The numbers of the interface are printed as signed ones.
net_get(o) == Int16(net[o])

drive_get(o) ==
  IF o \in {"MIN_RCV_TMO", "MAX_RCV_TMO"} THEN compute_rcv_tmo(drv[o]) ELSE drv[o]

Shown(o) == IF o \in NetOptions THEN net_get(o) ELSE drive_get(o)

-----------------------------------------------------------------------------
(* Commands *)

(***************************************************************************)
(* The value INSTALL and MOUNT take from an option.  Without digits it is  *)
(* 0, or refused where 0 is not; min_server_read_len is a byte before it   *)
(* is checked.                                                             *)
(***************************************************************************)
OptionValue(o, t) == IF o = "MIN_READ_LEN" THEN strto_ui16(t) % 256 ELSE strto_ui16(t)

Accepts(opts) == \A o \in DOMAIN opts : HasDigits(opts[o]) /\ Accepted(o, OptionValue(o, opts[o]))

ValuesOf(opts, default) ==
  [o \in DOMAIN default |->
     Stored(o, IF o \in DOMAIN opts THEN OptionValue(o, opts[o]) ELSE default[o])]

TypedIn(opts, default) ==
  [o \in DOMAIN default |-> IF o \in DOMAIN opts THEN opts[o].num ELSE default[o]]

\* INSTALL, which is when there is a resident client to look at.
InitSettings ==
  \E opts \in Installs :
    /\ Accepts(opts)
    /\ net = ValuesOf(opts, DefaultNet) /\ typed = TypedIn(opts, DefaultNet)
    /\ flags \in {{}, {"NO_ARP_REQUESTS"}}
    /\ drv = Unmounted /\ sets = 0

\* The checksums are all enabled or the ones listed.
Mount(opts, checksums) ==
  /\ drv = Unmounted
  /\ Accepts(opts)
  /\ drv' = ValuesOf(opts, DefaultDrive)
  /\ flags' = flags \cup checksums
  /\ typed' = [o \in DriveOptions \cup NetOptions |->
                 IF o \in DriveOptions THEN TypedIn(opts, DefaultDrive)[o] ELSE typed[o]]
  /\ UNCHANGED <<net, sets>>

\* NMMANAGE runs once more; its own checks of commands and arguments are passed.
Manage == sets < MaxSets /\ sets' = sets + 1

DriveSet(o, t) ==
  /\ Manage
  /\ drv # Unmounted
  /\ IsNumber(t) /\ Accepted(o, Number(t))
  /\ drv' = [drv EXCEPT ![o] = Stored(o, Number(t))]
  /\ typed' = [typed EXCEPT ![o] = t.num]
  /\ UNCHANGED <<net, flags>>

NetSet(o, t) ==
  /\ Manage
  /\ IsNumber(t) /\ Accepted(o, Number(t))
  /\ net' = [net EXCEPT ![o] = Stored(o, Number(t))]
  /\ typed' = [typed EXCEPT ![o] = t.num]
  /\ UNCHANGED <<flags, drv>>

\* ENABLED or DISABLED
Switch(f) == flags' \in {flags \cup {f}, flags \ {f}} /\ UNCHANGED <<net, drv, typed>>

SetChecksum(f) == Manage /\ drv # Unmounted /\ Switch(f)

SetArpRequests == Manage /\ Switch("NO_ARP_REQUESTS")

Command ==
  \/ \E m \in Mounts, c \in SUBSET Checksums : Mount(m, c)
  \/ \E o \in DriveOptions, t \in Texts : DriveSet(o, t)
  \/ \E o \in NetOptions, t \in Texts : NetSet(o, t)
  \/ \E f \in Checksums : SetChecksum(f)
  \/ SetArpRequests

-----------------------------------------------------------------------------
(* Properties *)

\* Whatever is typed, the settings are ones the client can work with: a timeout
\* is never 0 and fits its byte, and a read length is 0 or a power of two not
\* above FILE_BUFFER_SIZE (the checks of MOUNT, drive_set and net_set).
SettingsOK ==
  /\ net \in [NetOptions -> Nat] /\ Within(net["PORT"], 1, 65535) /\ Within(net["MTU"], 560, 1500)
  /\ flags \subseteq Flags /\ sets \in 0..MaxSets
  /\ drv # Unmounted =>
       /\ drv \in [DriveOptions -> Nat]
       /\ Within(drv["MIN_RCV_TMO"], 4, 254) /\ Within(drv["MAX_RCV_TMO"], 4, 254)
       /\ Within(drv["MAX_RETRIES"], 0, 254)
       /\ drv["MIN_READ_LEN"] \in {0, 1, 2, 4, 8, 16, 32, 64}

\* The numbers that fit the variable they are put into before they are checked, and
\* the format they are printed with.
Fits(o, n) ==
  Within(n, 0, CASE o = "MIN_READ_LEN" -> 255 [] o = "PORT" -> 32767 [] OTHER -> 65535)

\* A setting is shown as it was typed (drive_get and net_get after INSTALL, MOUNT,
\* drive_set or net_set): the conversion of seconds to ticks without their lowest bits
\* loses nothing within the limits.  The exceptions are the numbers that do not fit:
\* NMMANAGE takes 65537 for 1, MOUNT a read length of 320 for 64, and a port above
\* 32767 is printed as a negative number.
ShownAsTyped ==
  \A o \in DOMAIN typed : Fits(o, typed[o]) => Shown(o) = typed[o]
=============================================================================
