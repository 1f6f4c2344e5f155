------------------------------ MODULE Timeouts ------------------------------
(***************************************************************************)
(* The waiting of send_request by the clock of the BIOS: a request is sent *)
(* again when no answer came in time, and the time is doubled up to the    *)
(* limit set for the drive.  The clock is read as the low 16 bits of the   *)
(* ticks since midnight; it wraps, and at midnight it falls back to 0.     *)
(* What an answer is, and how it gets there, is Transport's.               *)
(***************************************************************************)
EXTENDS Settings, Sequences, FiniteSets

CONSTANTS
  Clocks,      \* ticks since midnight at which requests begin
  MaxRetries,  \* bound on the retries of the requests that are followed
  MaxRequests  \* bound on the requests

Word == 65536
Day == 1573040  \* 0x1800B0 ticks

ASSUME TimeoutsAssumption == 
  Clocks \subseteq 0..(Day - 1) /\ MaxRetries \in Nat /\ MaxRequests \in Nat

VARIABLES
  clock,     \* ticks since midnight, followed while a request waits
  req,       \* locals of send_request: st, start (rcv_start_time), tmo, retries
  polled,    \* has the loop looked at the clock since the last tick?
  waited,    \* history: ticks since the request was last sent
  crossed,   \* history: was midnight among them?
  waits,     \* history: the waits of this request that timed out
  requests   \* number of requests so far

timeVars == <<clock, req, polled, waited, crossed, waits, requests>>
vars == <<setVars, timeVars>>

NoRequest == [st |-> "idle", start |-> 0, tmo |-> 0, retries |-> 0]

Init ==
  /\ InitSettings
  /\ clock \in Clocks /\ req = NoRequest
  /\ polled = TRUE /\ waited = 0 /\ crossed = FALSE /\ waits = <<>> /\ requests = 0

Waiting == req.st = "wait"
Min(x, y) == IF x < y THEN x ELSE y

\* The low word that the program sees.
time == clock % Word

\* Compared as signed numbers, without the wrap of 16 bits.
ElapsedSigned == time - req.start

Elapsed == (time - req.start) % Word

MaxTmo == drv["MAX_RCV_TMO"] * 4

\* A command is a program of its own, it runs between two requests.
RunCommand ==
  /\ ~Waiting
  /\ Command
  /\ UNCHANGED timeVars

\* The settings are read and the request is sent.
SendRequest ==
  /\ ~Waiting /\ drv # Unmounted /\ drv["MAX_RETRIES"] <= MaxRetries
  /\ requests < MaxRequests /\ requests' = requests + 1
  /\ req' = [st |-> "wait", start |-> time, tmo |-> drv["MIN_RCV_TMO"] * 4, retries |-> 0]
  /\ polled' = TRUE /\ waited' = 0 /\ crossed' = FALSE /\ waits' = <<>>
  /\ UNCHANGED <<setVars, clock>>

\* The timer interrupt (external).  The loop runs far more often than this.
Tick ==
  /\ Waiting /\ polled
  /\ clock' = (clock + 1) % Day
  /\ polled' = FALSE /\ waited' = waited + 1 /\ crossed' = (crossed \/ clock' = 0)
  /\ UNCHANGED <<setVars, req, waits, requests>>

KeepWaiting ==
  /\ Waiting /\ ~polled /\ Elapsed <= req.tmo
  /\ polled' = TRUE
  /\ UNCHANGED <<setVars, clock, req, waited, crossed, waits, requests>>

TimedOut ==
  /\ Waiting /\ ~polled /\ Elapsed > req.tmo
  /\ waits' = Append(waits, [tmo |-> req.tmo, waited |-> waited, crossed |-> crossed])
  /\ polled' = TRUE /\ waited' = 0 /\ crossed' = FALSE

\* The doubled time is not limited.
ResendUnlimited ==
  /\ TimedOut /\ req.retries < drv["MAX_RETRIES"]
  /\ req' = [req EXCEPT !.start = time, !.tmo = @ * 2 % Word, !.retries = @ + 1]
  /\ UNCHANGED <<setVars, clock, requests>>

Resend ==
  /\ TimedOut /\ req.retries < drv["MAX_RETRIES"]
  /\ req' = [req EXCEPT !.start = time, !.tmo = Min(@ * 2 % Word, MaxTmo), !.retries = @ + 1]
  /\ UNCHANGED <<setVars, clock, requests>>

GiveUp ==
  /\ TimedOut /\ req.retries = drv["MAX_RETRIES"]
  /\ req' = [req EXCEPT !.st = "failed"]
  /\ clock' \in Clocks
  /\ UNCHANGED <<setVars, requests>>

\* A valid answer; the loop looks for one after it has looked at the clock.
Answered ==
  /\ Waiting /\ polled
  /\ req' = NoRequest
  /\ clock' \in Clocks
  /\ waited' = 0 /\ crossed' = FALSE /\ waits' = <<>>
  /\ UNCHANGED <<setVars, polled, requests>>

Next ==
  \/ RunCommand \/ SendRequest
  \/ Tick \/ KeepWaiting \/ Resend \/ GiveUp \/ Answered

Spec == Init /\ [][Next]_vars

-----------------------------------------------------------------------------
(* Properties *)

\* Types, and settings the client can work with.
TypeOK ==
  /\ SettingsOK
  /\ clock \in Nat /\ clock < Day /\ polled \in BOOLEAN /\ crossed \in BOOLEAN
  /\ req \in [st : {"idle", "wait", "failed"}, start : Nat, tmo : Nat, retries : Nat]
  /\ req.start < Word /\ req.tmo < Word /\ req.retries <= 254
  /\ waited \in Nat /\ waits \in Seq([tmo : Nat, waited : Nat, crossed : BOOLEAN])
  /\ requests \in 0..MaxRequests

\* An answer is waited for as long as the timeout says and not a tick longer,
\* also when the low word of the clock wraps during the wait (the 16-bit difference
\* in send_request).  Only midnight disturbs a wait: it ends at once, or, if it has
\* lasted for the low word of a day's ticks already (176, 9.7 seconds), it takes as
\* much longer.
WaitInTime ==
  /\ Waiting => waited <= req.tmo + 1 + (IF crossed THEN Day % Word ELSE 0)
  /\ \A i \in DOMAIN waits :
       /\ ~waits[i].crossed => waits[i].waited = waits[i].tmo + 1
       /\ waits[i].waited <= waits[i].tmo + 1 + (Day % Word)

\* A request is given up only after every attempt of the drive's setting, each
\* after its own wait, the first one as long as MIN_RCV_TMO and the others twice
\* the one before up to MAX_RCV_TMO; midnight takes away one wait at most.
GivesUpInTime ==
  [][GiveUp =>
       /\ Len(waits') = drv["MAX_RETRIES"] + 1
       /\ \A i \in DOMAIN waits' :
            waits'[i].tmo = IF i = 1 THEN drv["MIN_RCV_TMO"] * 4
                            ELSE Min(2 * waits'[i - 1].tmo, MaxTmo)
       /\ Cardinality({i \in DOMAIN waits' : waits'[i].waited <= waits'[i].tmo}) <= 1]_vars
=============================================================================
