---------------------------- MODULE AddressTable ----------------------------
(***************************************************************************)
(* The client's drive table and IP/MAC table (struct shared_data in        *)
(* shared/shdata.h): NETMOUNT INSTALL, MOUNT, UMOUNT and UNINSTALL, the    *)
(* part of send_request that finds the hardware address of a drive's       *)
(* server, and handle_arp, which the packet driver's interrupt runs        *)
(* between any two steps of the others.                                    *)
(*                                                                         *)
(* DOS runs one program at a time: commands and INT 2Fh requests do not    *)
(* overlap.  Only the accesses that an ARP frame can interrupt to some     *)
(* effect are steps of their own: filling a slot's hardware address and    *)
(* copying it into a frame go byte by byte.                                *)
(***************************************************************************)
EXTENDS Integers

CONSTANTS
  Drives,     \* local drives; MAX_DRIVES_COUNT = 26 in the code
  SlotCount,  \* entries of ip_mac_map; 4 in the code
  Ips,        \* remote addresses: servers and gateway
  LocalIps,   \* those inside the client's network (local_ipv4, net_mask)
  FreeIp,     \* 255.255.255.255, the address of a free slot
  MacBytes,   \* separate accesses to a hardware address; 6 bytes in the code
  FF, Zero    \* the bytes 0xFF and 0x00

Slots == 0 .. SlotCount - 1

\* 0xFF as an index
NoSlot == SlotCount

(***************************************************************************)
(* Nobody mounts from, or routes over, the broadcast address.              *)
(***************************************************************************)
ASSUME AddressAssumption ==
  /\ SlotCount \in Nat \ {0}
  /\ MacBytes \in Nat \ {0}
  /\ LocalIps \subseteq Ips
  /\ FreeIp \notin Ips
  /\ FF \notin Ips /\ Zero \notin Ips /\ FF # Zero

\* The hardware address of host h, abstracted to bytes no other host has.
MacOf(h) == [b \in 1 .. MacBytes |-> h]
Broadcast == [b \in 1 .. MacBytes |-> FF]
Mac == [1 .. MacBytes -> Ips \cup {FF, Zero}]

VARIABLES
  installed,  \* is the client resident?
  noArp,      \* disable_sending_arp_request
  gateway,    \* gateway_ip_slot
  ip, mac,    \* ip_mac_map[].ip and .mac_addr
  idx,        \* drives[].remote_ip_idx
  mounted,    \* drive_map[] # 0xFF
  cds,        \* CDS flags # 0: DOS uses the drive letter
  target,     \* the server address each drive was mounted with (history)
  pc, job,    \* where the foreground is, and [drive, slot, addr, byte] of the
              \* MOUNT or request in hand
  arpTarget,  \* the address the last ARP request asked for
  dst,        \* destination hardware address of the frame being built
  refused     \* the last MOUNT found no slot

tableVars == <<installed, noArp, gateway, ip, mac, idx, mounted, cds, target>>
workVars == <<pc, job, arpTarget, dst, refused>>
vars == <<tableVars, workVars>>

PC == {"idle", "fill", "commit", "arpwait", "copy", "sent"}
Job == [drive : Drives, slot : Slots, addr : Ips, byte : 1 .. MacBytes]

TypeOK ==
  /\ installed \in BOOLEAN /\ noArp \in BOOLEAN
  /\ gateway \in Slots \cup {NoSlot}
  /\ ip \in [Slots -> Ips \cup {FreeIp}]
  /\ mac \in [Slots -> Mac]
  /\ idx \in [Drives -> Slots \cup {NoSlot}]
  /\ mounted \in [Drives -> BOOLEAN]
  /\ cds \in [Drives -> BOOLEAN]
  /\ target \in [Drives -> Ips \cup {FreeIp}]
  /\ pc \in PC
  /\ pc # "idle" => job \in Job
  /\ arpTarget \in Ips \cup {FreeIp}
  /\ dst \in Mac
  /\ refused \in BOOLEAN

\* The image of a client not yet installed: the resident variables are zero,
\* the slots' addresses are set before the command line is read.  INSTALL
\* does not touch remote_ip_idx.
FreshTable(gw, ips, macs, indices, mountedDrives, targets) ==
  /\ gw = NoSlot
  /\ ips = [s \in Slots |-> FreeIp]
  /\ macs = [s \in Slots |-> [b \in 1 .. MacBytes |-> Zero]]
  /\ indices = [d \in Drives |-> 0]
  /\ mountedDrives = [d \in Drives |-> FALSE]
  /\ targets = [d \in Drives |-> FreeIp]

\* DOS itself may use any of the drive letters.
Init ==
  /\ installed = FALSE /\ noArp = FALSE
  /\ FreshTable(gateway, ip, mac, idx, mounted, target)
  /\ cds \in [Drives -> BOOLEAN]
  /\ pc = "idle" /\ job = << >>
  /\ arpTarget = FreeIp
  /\ dst = [b \in 1 .. MacBytes |-> Zero]
  /\ refused = FALSE

-----------------------------------------------------------------------------
(* assign_remote_ip_addr_slot *)

Matches(s, i) == ip[s] = i

Free(s) == ip[s] = FreeIp

\* Mutant: a slot is not looked up among the mounted drives.
ReusableByAnyone(s) == s # gateway

\* Neither the gateway's nor any drive's.
Reusable(s) == s # gateway /\ \A d \in Drives : idx[d] # s

\* The slot that has the address; or else the last free one; or else the
\* first reusable one.
IsSlotFor(s, i) ==
  \/ /\ Matches(s, i)
     /\ \A t \in Slots : Matches(t, i) => s <= t
  \/ /\ \A t \in Slots : ~Matches(t, i)
     /\ Free(s)
     /\ \A t \in Slots : Free(t) => t <= s
  \/ /\ \A t \in Slots : ~Matches(t, i) /\ ~Free(t)
     /\ Reusable(s)
     /\ \A t \in Slots : Reusable(t) => s <= t

NoSlotFor(i) ==
  \A s \in Slots : ~Matches(s, i) /\ ~Free(s) /\ ~Reusable(s)

-----------------------------------------------------------------------------
(* The commands *)

\* INSTALL without /GW.  Frames are not received before the client is
\* resident, so this is one step.
Install(na) ==
  /\ pc = "idle" /\ ~installed
  /\ installed' = TRUE
  /\ noArp' = na
  /\ UNCHANGED <<gateway, ip, mac, idx, mounted, cds, target, workVars>>

\* INSTALL /GW:g gives the gateway a slot of the empty table.
InstallGateway(na, g, s) ==
  /\ pc = "idle" /\ ~installed
  /\ IsSlotFor(s, g)
  /\ installed' = TRUE
  /\ noArp' = na
  /\ gateway' = s
  /\ ip' = [ip EXCEPT ![s] = g]
  /\ mac' = [mac EXCEPT ![s] = Broadcast]
  /\ UNCHANGED <<idx, mounted, cds, target, workVars>>

\* Mutant: the hardware address of the slot's last user stays.
MountBeginKeepingMac(d, i, s) ==
  /\ pc = "idle" /\ installed
  /\ ~cds[d]
  /\ IsSlotFor(s, i)
  /\ ip' = [ip EXCEPT ![s] = i]
  /\ pc' = "commit"
  /\ job' = [drive |-> d, slot |-> s, addr |-> i, byte |-> 1]
  /\ refused' = FALSE
  /\ UNCHANGED <<installed, noArp, gateway, mac, idx, mounted, cds, target,
                 arpTarget, dst>>

\* MOUNT of server i as drive d, up to the assignment of the address to slot
\* s; the hardware address of a slot that already had it is kept.
MountBegin(d, i, s) ==
  /\ pc = "idle" /\ installed
  /\ ~cds[d]
  /\ IsSlotFor(s, i)
  /\ ip' = [ip EXCEPT ![s] = i]
  /\ pc' = IF Matches(s, i) THEN "commit" ELSE "fill"
  /\ job' = [drive |-> d, slot |-> s, addr |-> i, byte |-> 1]
  /\ refused' = FALSE
  /\ UNCHANGED <<installed, noArp, gateway, mac, idx, mounted, cds, target,
                 arpTarget, dst>>

MountRefused(d, i) ==
  /\ pc = "idle" /\ installed
  /\ ~cds[d]
  /\ NoSlotFor(i)
  /\ refused' = TRUE
  /\ UNCHANGED <<tableVars, pc, job, arpTarget, dst>>

\* One byte of the new slot's hardware address becomes 0xFF.
FillByte ==
  /\ pc = "fill"
  /\ mac' = [mac EXCEPT ![job.slot][job.byte] = FF]
  /\ IF job.byte = MacBytes
     THEN pc' = "commit" /\ UNCHANGED job
     ELSE job' = [job EXCEPT !.byte = @ + 1] /\ UNCHANGED pc
  /\ UNCHANGED <<installed, noArp, gateway, ip, idx, mounted, cds, target,
                 arpTarget, dst, refused>>

\* The rest of MOUNT: the drive's entry and its CDS.
MountCommit ==
  /\ pc = "commit"
  /\ idx' = [idx EXCEPT ![job.drive] = job.slot]
  /\ mounted' = [mounted EXCEPT ![job.drive] = TRUE]
  /\ cds' = [cds EXCEPT ![job.drive] = TRUE]
  /\ target' = [target EXCEPT ![job.drive] = job.addr]
  /\ pc' = "idle" /\ job' = << >>
  /\ UNCHANGED <<installed, noArp, gateway, ip, mac, arpTarget, dst, refused>>

\* Mutant: the drive keeps its slot.
UmountDrivesKeepingSlot(D) ==
  LET gone == {d \in D : mounted[d]}
  IN /\ mounted' = [d \in Drives |-> d \notin gone /\ mounted[d]]
     /\ cds' = [d \in Drives |-> d \notin gone /\ cds[d]]
     /\ target' = [d \in Drives |-> IF d \in gone THEN FreeIp ELSE target[d]]
     /\ refused' = FALSE
     /\ UNCHANGED <<installed, noArp, gateway, ip, mac, idx, pc, job, arpTarget, dst>>

\* umount() for every drive of D that is mounted.
UmountDrives(D) ==
  LET gone == {d \in D : mounted[d]}
  IN /\ idx' = [d \in Drives |-> IF d \in gone THEN NoSlot ELSE idx[d]]
     /\ mounted' = [d \in Drives |-> d \notin gone /\ mounted[d]]
     /\ cds' = [d \in Drives |-> d \notin gone /\ cds[d]]
     /\ target' = [d \in Drives |-> IF d \in gone THEN FreeIp ELSE target[d]]
     /\ refused' = FALSE
     /\ UNCHANGED <<installed, noArp, gateway, ip, mac, pc, job, arpTarget, dst>>

Umount(d) == pc = "idle" /\ installed /\ mounted[d] /\ UmountDrives({d})

UmountAll == pc = "idle" /\ installed /\ UmountDrives(Drives)

\* UNINSTALL: refused while a drive is mounted.  The memory is freed, the
\* next INSTALL loads a fresh image.
Uninstall ==
  /\ pc = "idle" /\ installed
  /\ \A d \in Drives : ~mounted[d]
  /\ installed' = FALSE
  /\ noArp' = FALSE
  /\ FreshTable(gateway', ip', mac', idx', mounted', target')
  /\ refused' = FALSE
  /\ UNCHANGED <<cds, pc, job, arpTarget, dst>>

-----------------------------------------------------------------------------
(* A request: finding the server's hardware address *)

Outside(i) == i \notin LocalIps

\* send_arp_request asks for the server, or for the gateway on the way to it.
ArpTarget(i) == IF Outside(i) /\ gateway # NoSlot THEN ip[gateway] ELSE i

\* send_request for drive d: is the hardware address still unknown?
Resolve(d) ==
  /\ pc = "idle" /\ installed /\ mounted[d]
  /\ LET s == idx[d]
     IN /\ job' = [drive |-> d, slot |-> s, addr |-> ip[s], byte |-> 1]
        /\ IF mac[s] = Broadcast /\ ~noArp
           THEN pc' = "arpwait" /\ arpTarget' = ArpTarget(ip[s])
           ELSE pc' = "copy" /\ UNCHANGED arpTarget
  /\ UNCHANGED <<tableVars, dst, refused>>

\* The wait of send_arp_request ends: the address is known.
ArpKnown ==
  /\ pc = "arpwait"
  /\ mac[job.slot] # Broadcast
  /\ pc' = "copy"
  /\ UNCHANGED <<tableVars, job, arpTarget, dst, refused>>

\* ... or all retries are over: the frame goes to the broadcast address.
ArpTimeout ==
  /\ pc = "arpwait"
  /\ pc' = "copy"
  /\ UNCHANGED <<tableVars, job, arpTarget, dst, refused>>

\* The hardware address is copied into the frame.
CopyByte ==
  /\ pc = "copy"
  /\ dst' = [dst EXCEPT ![job.byte] = mac[job.slot][job.byte]]
  /\ IF job.byte = MacBytes
     THEN pc' = "sent" /\ UNCHANGED job
     ELSE job' = [job EXCEPT !.byte = @ + 1] /\ UNCHANGED pc
  /\ UNCHANGED <<tableVars, arpTarget, refused>>

\* The frame is sent, as often as the request is retried; the handler ends.
RequestDone ==
  /\ pc = "sent"
  /\ pc' = "idle" /\ job' = << >>
  /\ UNCHANGED <<tableVars, arpTarget, dst, refused>>

-----------------------------------------------------------------------------
(* The interrupt *)

\* Mutant: the test for addresses outside the network is turned round.
ViaGatewayInside(s, g, t) == t # s /\ s = g /\ ~Outside(ip[t])

\* The slots whose hardware address is that of the gateway in slot s.
ViaGateway(s, g, t) == t # s /\ s = g /\ Outside(ip[t])

\* handle_arp: an ARP frame from host h.
HandleArp(h) ==
  /\ installed
  /\ mac' = [t \in Slots |->
               IF \E s \in Slots :
                    /\ Matches(s, h) /\ \A u \in Slots : Matches(u, h) => s <= u
                    /\ t = s \/ ViaGateway(s, gateway, t)
               THEN MacOf(h) ELSE mac[t]]
  /\ UNCHANGED <<installed, noArp, gateway, ip, idx, mounted, cds, target,
                 workVars>>

-----------------------------------------------------------------------------
(* NMMANAGE, a program that writes into the resident client's data *)

\* MAC SET: the user gives an address of the table the hardware address that
\* leads to it (one that leads elsewhere is the user's mistake).
MacSet(s, h) ==
  /\ pc = "idle" /\ installed /\ ip[s] # FreeIp
  /\ h = ip[s] \/ (Outside(ip[s]) /\ gateway # NoSlot /\ h = ip[gateway])
  /\ mac' = [mac EXCEPT ![s] = MacOf(h)]
  /\ UNCHANGED <<installed, noArp, gateway, ip, idx, mounted, cds, target,
                 workVars>>

\* NET SET ARP_REQUESTS
ArpRequestsSet(na) ==
  /\ pc = "idle" /\ installed
  /\ noArp' = na
  /\ UNCHANGED <<installed, gateway, ip, mac, idx, mounted, cds, target,
                 workVars>>

-----------------------------------------------------------------------------
Commands ==
  \/ \E na \in BOOLEAN : Install(na)
  \/ \E na \in BOOLEAN, g \in LocalIps, s \in Slots : InstallGateway(na, g, s)
  \/ \E d \in Drives, i \in Ips :
       (\E s \in Slots : MountBegin(d, i, s)) \/ MountRefused(d, i)
  \/ FillByte \/ MountCommit
  \/ \E d \in Drives : Umount(d)
  \/ UmountAll \/ Uninstall
  \/ \E s \in Slots, h \in Ips : MacSet(s, h)
  \/ \E na \in BOOLEAN : ArpRequestsSet(na)

Requests ==
  \/ \E d \in Drives : Resolve(d)
  \/ ArpKnown \/ ArpTimeout \/ CopyByte \/ RequestDone

Next == Commands \/ Requests \/ \E h \in Ips : HandleArp(h)

Spec == Init /\ [][Next]_vars

-----------------------------------------------------------------------------
(* Properties *)

\* A mounted drive keeps the server it was mounted from, and the gateway its
\* slot, whatever else is mounted and unmounted in between: no slot in use
\* is given to another address.
MountedAddress ==
  \A d \in Drives :
    mounted[d] => idx[d] \in Slots /\ ip[idx[d]] = target[d]

\* No address has two slots.  handle_arp relies on it: it updates the first
\* slot it finds and stops.
DistinctAddresses ==
  \A s, t \in Slots : ip[s] = ip[t] /\ ip[s] # FreeIp => s = t

\* x is 0xFF, a byte of the hardware address of i, or one of the gateway's on
\* the way to i.
OwnByte(x, i) ==
  \/ x \in {FF, i}
  \/ Outside(i) /\ gateway # NoSlot /\ x = ip[gateway]

\* Whenever an ARP frame comes between the bytes that MOUNT writes: what a slot
\* in use holds are bytes that lead to the slot's host, or 0xFF.  Only the bytes
\* that MOUNT's loop has still to write may be those of the slot's last user.
KnownBytes ==
  \A s \in Slots, b \in 1 .. MacBytes :
    ip[s] # FreeIp /\ ~(pc = "fill" /\ job.slot = s /\ job.byte <= b)
      => OwnByte(mac[s][b], ip[s])

\* It would be better if the whole address led there or were all 0xFF, which
\* send_request takes for unknown; of two accesses or more it does not hold.
KnownAddress ==
  \A s \in Slots :
    ip[s] # FreeIp /\ ~(pc = "fill" /\ job.slot = s) =>
      \/ mac[s] \in {Broadcast, MacOf(ip[s])}
      \/ Outside(ip[s]) /\ gateway # NoSlot /\ mac[s] = MacOf(ip[gateway])

\* A request's frame carries no byte of the hardware address of any host but
\* the drive's server and the gateway on the way to it, although send_request
\* copies the address byte by byte while ARP frames come in.
SentToOwner ==
  pc = "sent" => \A b \in 1 .. MacBytes : OwnByte(dst[b], target[job.drive])

\* While send_arp_request waits, an ARP frame from the address it asked for
\* ends the wait: handle_arp puts the answer into the drive's slot, through
\* the gateway's slot or directly.
ArpAnswerEndsWait ==
  [][\A h \in Ips :
       pc = "arpwait" /\ arpTarget = h /\ HandleArp(h)
         => mac'[job.slot] # Broadcast]_vars

\* A slot is in use by the gateway or by a mounted drive.
InUse(s) == s = gateway \/ \E d \in Drives : mounted[d] /\ idx[d] = s

\* MOUNT is refused for want of a slot only while all slots but slot 0 are in use,
\* whatever was mounted and unmounted before (assign_remote_ip_addr_slot and umount).
RefusedWhenFull == refused => \A s \in Slots \ {0} : InUse(s)

\* It does not hold of slot 0, which belongs to every drive that was never mounted
\* (remote_ip_idx is 0 in a fresh image): once left it stays occupied.
RefusedOnlyWhenFull == refused => \A s \in Slots : InUse(s)

-----------------------------------------------------------------------------
(* The inductive invariant behind them *)

\* A slot in use has an address; before INSTALL nothing is in use.
SlotsHeld ==
  /\ \A d \in Drives : mounted[d] => /\ idx[d] \in Slots
                                    /\ ip[idx[d]] = target[d]
                                    /\ target[d] \in Ips
  /\ gateway # NoSlot => ip[gateway] \in Ips
  /\ ~installed => /\ gateway = NoSlot
                   /\ \A d \in Drives : ~mounted[d]
                   /\ \A s \in Slots : ip[s] = FreeIp

\* The MOUNT or the request in hand agrees with the tables.
JobOK ==
  /\ pc # "idle" => installed
  /\ pc \in {"fill", "commit"} => ip[job.slot] = job.addr
  /\ pc \in {"arpwait", "copy", "sent"} =>
       mounted[job.drive] /\ job.slot = idx[job.drive]
  /\ pc = "arpwait" => arpTarget = ArpTarget(ip[job.slot])

TableInv == TypeOK /\ DistinctAddresses /\ SlotsHeld /\ JobOK
=============================================================================
