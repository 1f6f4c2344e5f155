------------------------- MODULE AddressTableProofs -------------------------
(***************************************************************************)
(* Theorems about AddressTable, for every number of drives, slots and      *)
(* addresses.                                                              *)
(***************************************************************************)
EXTENDS AddressTable, TLAPS

\* A slot that is given to a new address was nobody's.
LEMMA SlotForFacts ==
  ASSUME TableInv, NEW i \in Ips, NEW s \in Slots, IsSlotFor(s, i)
  PROVE  \/ ip[s] = i
         \/ /\ \A t \in Slots : ip[t] # i
            /\ s # gateway
            /\ \A d \in Drives : mounted[d] => idx[d] # s
<1>1. CASE ip[s] = i
  BY <1>1
<1>2. CASE (\A t \in Slots : ip[t] # i) /\ ip[s] = FreeIp
  <2>1. FreeIp \notin Ips /\ NoSlot \notin Slots
    BY AddressAssumption DEF NoSlot, Slots
  <2>2. s # gateway
    BY <1>2, <2>1 DEF TableInv, SlotsHeld
  <2>3. \A d \in Drives : mounted[d] => idx[d] # s
    BY <1>2, <2>1 DEF TableInv, SlotsHeld
  <2> QED BY <1>2, <2>2, <2>3
<1>3. CASE (\A t \in Slots : ip[t] # i) /\ Reusable(s)
  BY <1>3 DEF Reusable
<1> QED BY <1>1, <1>2, <1>3 DEF IsSlotFor, Matches, Free

\* The hardware addresses the actions write are well typed.
LEMMA MacTypes ==
  /\ Broadcast \in Mac
  /\ \A h \in Ips : MacOf(h) \in Mac
  /\ [b \in 1 .. MacBytes |-> Zero] \in Mac
BY DEF Broadcast, Mac, MacOf

\* TableInv holds at the start.
LEMMA InitTableInv == Init => TableInv
<1> SUFFICES ASSUME Init PROVE TableInv
  OBVIOUS
<1>1. 0 \in Slots
  BY AddressAssumption DEF Slots
<1>2. TypeOK
  BY <1>1, MacTypes DEF Init, FreshTable, TypeOK, PC
<1>3. DistinctAddresses /\ SlotsHeld /\ JobOK
  BY DEF Init, FreshTable, DistinctAddresses, SlotsHeld, JobOK
<1> QED BY <1>2, <1>3 DEF TableInv

\* INSTALL keeps TableInv.
LEMMA InstallInv ==
  ASSUME TableInv, NEW na \in BOOLEAN, Install(na)
  PROVE  TableInv'
BY DEF TableInv, TypeOK, DistinctAddresses, SlotsHeld, JobOK, Install, workVars,
   ArpTarget

\* INSTALL /GW keeps TableInv.
LEMMA InstallGatewayInv ==
  ASSUME TableInv, NEW na \in BOOLEAN, NEW g \in LocalIps, NEW s \in Slots,
         InstallGateway(na, g, s)
  PROVE  TableInv'
<1>1. g \in Ips /\ FreeIp \notin Ips
  BY AddressAssumption
<1>2. TypeOK'
  BY <1>1, MacTypes DEF TableInv, TypeOK, InstallGateway, workVars
<1>3. \A t \in Slots : ip[t] = FreeIp
  BY DEF TableInv, SlotsHeld, InstallGateway
<1>4. DistinctAddresses'
  BY <1>1, <1>3 DEF TableInv, TypeOK, DistinctAddresses, InstallGateway
<1>5. SlotsHeld' /\ JobOK'
  BY <1>1 DEF TableInv, TypeOK, SlotsHeld, JobOK, InstallGateway, workVars
<1> QED BY <1>2, <1>4, <1>5 DEF TableInv

\* MOUNT takes no slot in use and gives no address a second slot.
LEMMA MountBeginInv ==
  ASSUME TableInv, NEW d \in Drives, NEW i \in Ips, NEW s \in Slots,
         MountBegin(d, i, s)
  PROVE  TableInv'
<1>1. /\ ip' = [ip EXCEPT ![s] = i]
      /\ job' = [drive |-> d, slot |-> s, addr |-> i, byte |-> 1]
      /\ pc' \in {"commit", "fill"} /\ installed
      /\ UNCHANGED <<installed, noArp, gateway, mac, idx, mounted, cds, target,
                     arpTarget, dst>>
      /\ refused' = FALSE
  BY DEF MountBegin
<1>2. \/ ip[s] = i
      \/ /\ \A t \in Slots : ip[t] # i
         /\ s # gateway
         /\ \A e \in Drives : mounted[e] => idx[e] # s
  BY SlotForFacts DEF MountBegin
<1>3. job' \in Job
  BY <1>1, AddressAssumption DEF Job
<1>4. TypeOK'
  BY <1>1, <1>3 DEF TableInv, TypeOK, PC
<1>5. CASE ip[s] = i
  <2>1. ip' = ip
    BY <1>1, <1>5 DEF TableInv, TypeOK
  <2>2. DistinctAddresses' /\ SlotsHeld'
    BY <1>1, <2>1 DEF TableInv, DistinctAddresses, SlotsHeld
  <2>3. JobOK'
    BY <1>1, <1>5, <2>1 DEF JobOK
  <2> QED BY <1>4, <2>2, <2>3 DEF TableInv
<1>6. CASE /\ \A t \in Slots : ip[t] # i
           /\ s # gateway
           /\ \A e \in Drives : mounted[e] => idx[e] # s
  <2>1. DistinctAddresses'
    BY <1>1, <1>6 DEF TableInv, TypeOK, DistinctAddresses
  <2>2. SlotsHeld'
    BY <1>1, <1>6 DEF TableInv, TypeOK, SlotsHeld
  <2>3. JobOK'
    BY <1>1 DEF JobOK, TableInv, TypeOK
  <2> QED BY <1>4, <2>1, <2>2, <2>3 DEF TableInv
<1> QED BY <1>2, <1>5, <1>6

\* A refused MOUNT keeps TableInv.
LEMMA MountRefusedInv ==
  ASSUME TableInv, NEW d \in Drives, NEW i \in Ips, MountRefused(d, i)
  PROVE  TableInv'
BY DEF TableInv, TypeOK, DistinctAddresses, SlotsHeld, JobOK, MountRefused,
   tableVars, ArpTarget

\* MOUNT's loop over the hardware address keeps TableInv.
LEMMA FillByteInv ==
  ASSUME TableInv, FillByte
  PROVE  TableInv'
<1>1. job \in Job /\ pc = "fill"
  BY DEF TableInv, TypeOK, FillByte
<1>2. mac' \in [Slots -> Mac]
  BY <1>1 DEF FillByte, TableInv, TypeOK, Mac, Job
<1>3. /\ pc' \in {"fill", "commit"} /\ job' \in Job
      /\ job'.slot = job.slot /\ job'.addr = job.addr
  BY <1>1, AddressAssumption DEF FillByte, Job
<1>4. UNCHANGED <<installed, noArp, gateway, ip, idx, mounted, cds, target,
                  arpTarget, dst, refused>>
  BY DEF FillByte
<1>5. TypeOK'
  BY <1>2, <1>3, <1>4 DEF TableInv, TypeOK, PC
<1>6. DistinctAddresses' /\ SlotsHeld'
  BY <1>4 DEF TableInv, DistinctAddresses, SlotsHeld
<1>7. JobOK'
  BY <1>1, <1>3, <1>4 DEF TableInv, JobOK
<1> QED BY <1>5, <1>6, <1>7 DEF TableInv

\* The entry MOUNT makes agrees with the slot.
LEMMA MountCommitInv ==
  ASSUME TableInv, MountCommit
  PROVE  TableInv'
<1>1. job \in Job /\ pc = "commit" /\ installed /\ ip[job.slot] = job.addr
  BY DEF TableInv, TypeOK, JobOK, MountCommit
<1>2. job.drive \in Drives /\ job.slot \in Slots /\ job.addr \in Ips
  BY <1>1 DEF Job
<1>3. TypeOK'
  BY <1>2 DEF MountCommit, TableInv, TypeOK, PC
<1>4. DistinctAddresses' /\ JobOK'
  BY <1>1 DEF MountCommit, TableInv, DistinctAddresses, JobOK
<1>5. SlotsHeld'
  BY <1>1, <1>2 DEF MountCommit, TableInv, TypeOK, SlotsHeld
<1> QED BY <1>3, <1>4, <1>5 DEF TableInv

\* UMOUNT keeps TableInv, of one drive or of all.
LEMMA UmountInv ==
  ASSUME TableInv, NEW D \in SUBSET Drives, pc = "idle", UmountDrives(D)
  PROVE  TableInv'
<1>1. TypeOK'
  BY DEF UmountDrives, TableInv, TypeOK
<1>2. DistinctAddresses' /\ JobOK'
  BY DEF UmountDrives, TableInv, DistinctAddresses, JobOK
<1>3. SlotsHeld'
  BY DEF UmountDrives, TableInv, TypeOK, SlotsHeld
<1> QED BY <1>1, <1>2, <1>3 DEF TableInv

\* UNINSTALL keeps TableInv.
LEMMA UninstallInv ==
  ASSUME TableInv, Uninstall
  PROVE  TableInv'
<1>1. /\ gateway' = NoSlot
      /\ ip' = [s \in Slots |-> FreeIp]
      /\ mac' = [s \in Slots |-> [b \in 1 .. MacBytes |-> Zero]]
      /\ idx' = [d \in Drives |-> 0]
      /\ mounted' = [d \in Drives |-> FALSE]
      /\ target' = [d \in Drives |-> FreeIp]
      /\ installed' = FALSE /\ noArp' = FALSE /\ refused' = FALSE
      /\ pc = "idle" /\ UNCHANGED <<cds, pc, job, arpTarget, dst>>
  BY DEF Uninstall, FreshTable
<1>2. 0 \in Slots
  BY AddressAssumption DEF Slots
<1>3. TypeOK'
  BY <1>1, <1>2, MacTypes DEF TableInv, TypeOK
<1>4. DistinctAddresses' /\ JobOK' /\ SlotsHeld'
  BY <1>1 DEF DistinctAddresses, JobOK, SlotsHeld
<1> QED BY <1>3, <1>4 DEF TableInv

\* The request in hand agrees with the drive and with the ARP request.
LEMMA ResolveInv ==
  ASSUME TableInv, NEW d \in Drives, Resolve(d)
  PROVE  TableInv'
<1> DEFINE s == idx[d]
<1>1. /\ installed /\ mounted[d] /\ s \in Slots /\ ip[s] \in Ips
  BY DEF TableInv, SlotsHeld, Resolve
<1>2. /\ job' = [drive |-> d, slot |-> s, addr |-> ip[s], byte |-> 1]
      /\ \/ pc' = "arpwait" /\ arpTarget' = ArpTarget(ip[s])
         \/ pc' = "copy" /\ arpTarget' = arpTarget
      /\ UNCHANGED <<installed, noArp, gateway, ip, mac, idx, mounted, cds,
                     target, dst, refused>>
  BY DEF Resolve, tableVars
<1>3. job' \in Job
  BY <1>1, <1>2, AddressAssumption DEF Job
<1>4. ArpTarget(ip[s]) \in Ips
  BY <1>1 DEF TableInv, SlotsHeld, ArpTarget
<1>5. TypeOK'
  BY <1>2, <1>3, <1>4 DEF TableInv, TypeOK, PC
<1>6. DistinctAddresses' /\ SlotsHeld'
  BY <1>2 DEF TableInv, DistinctAddresses, SlotsHeld
<1>7. JobOK'
  BY <1>1, <1>2 DEF JobOK, ArpTarget
<1> QED BY <1>5, <1>6, <1>7 DEF TableInv

\* The steps that end a wait or a request keep TableInv.
LEMMA RequestStepInv ==
  ASSUME TableInv, ArpKnown \/ ArpTimeout \/ RequestDone
  PROVE  TableInv'
BY DEF ArpKnown, ArpTimeout, RequestDone, TableInv, TypeOK, PC,
   DistinctAddresses, SlotsHeld, JobOK, tableVars

\* Copying the hardware address keeps TableInv.
LEMMA CopyByteInv ==
  ASSUME TableInv, CopyByte
  PROVE  TableInv'
<1>1. job \in Job /\ pc = "copy"
  BY DEF TableInv, TypeOK, CopyByte
<1>2. dst' \in Mac
  <2>1. job.slot \in Slots /\ job.byte \in 1 .. MacBytes
    BY <1>1 DEF Job
  <2>2. mac[job.slot] \in Mac /\ dst \in Mac
    BY <2>1 DEF TableInv, TypeOK
  <2>3. mac[job.slot][job.byte] \in Ips \cup {FF, Zero}
    BY <2>1, <2>2 DEF Mac
  <2> QED BY <2>1, <2>2, <2>3 DEF CopyByte, Mac
<1>3. /\ pc' \in {"copy", "sent"} /\ job' \in Job
      /\ job'.slot = job.slot /\ job'.drive = job.drive
  BY <1>1, AddressAssumption DEF CopyByte, Job
<1>4. UNCHANGED <<installed, noArp, gateway, ip, mac, idx, mounted, cds, target,
                  arpTarget, refused>>
  BY DEF CopyByte, tableVars
<1>5. TypeOK'
  BY <1>2, <1>3, <1>4 DEF TableInv, TypeOK, PC
<1>6. DistinctAddresses' /\ SlotsHeld'
  BY <1>4 DEF TableInv, DistinctAddresses, SlotsHeld
<1>7. JobOK'
  BY <1>1, <1>3, <1>4 DEF TableInv, JobOK
<1> QED BY <1>5, <1>6, <1>7 DEF TableInv

\* The ARP interrupt keeps TableInv.
LEMMA HandleArpInv ==
  ASSUME TableInv, NEW h \in Ips, HandleArp(h)
  PROVE  TableInv'
<1>1. mac' \in [Slots -> Mac]
  BY MacTypes DEF HandleArp, TableInv, TypeOK
<1>2. UNCHANGED <<installed, noArp, gateway, ip, idx, mounted, cds, target,
                  pc, job, arpTarget, dst, refused>>
  BY DEF HandleArp, workVars
<1> QED BY <1>1, <1>2 DEF TableInv, TypeOK, DistinctAddresses, SlotsHeld, JobOK,
        ArpTarget

\* NMMANAGE changes a hardware address and a flag only: TableInv is kept.
LEMMA ManageInv ==
  ASSUME TableInv,
         \/ \E s \in Slots, h \in Ips : MacSet(s, h)
         \/ \E na \in BOOLEAN : ArpRequestsSet(na)
  PROVE  TableInv'
<1>1. mac' \in [Slots -> Mac] /\ noArp' \in BOOLEAN
  BY MacTypes DEF MacSet, ArpRequestsSet, TableInv, TypeOK
<1>2. UNCHANGED <<installed, gateway, ip, idx, mounted, cds, target,
                  pc, job, arpTarget, dst, refused>>
  BY DEF MacSet, ArpRequestsSet, workVars
<1> QED BY <1>1, <1>2 DEF TableInv, TypeOK, DistinctAddresses, SlotsHeld, JobOK,
        ArpTarget

\* TableInv is inductive.
LEMMA NextTableInv == TableInv /\ [Next]_vars => TableInv'
<1> SUFFICES ASSUME TableInv, [Next]_vars PROVE TableInv'
  OBVIOUS
<1>1. CASE Commands
  <2>1. CASE \E d \in Drives : Umount(d)
    BY <2>1, UmountInv DEF Umount
  <2>2. CASE UmountAll
    BY <2>2, UmountInv DEF UmountAll
  <2> QED BY <1>1, <2>1, <2>2, InstallInv, InstallGatewayInv, MountBeginInv,
          MountRefusedInv, FillByteInv, MountCommitInv, UninstallInv,
          ManageInv
          DEF Commands
<1>2. CASE Requests
  BY <1>2, ResolveInv, RequestStepInv, CopyByteInv DEF Requests
<1>3. CASE \E h \in Ips : HandleArp(h)
  BY <1>3, HandleArpInv
<1>4. CASE UNCHANGED vars
  BY <1>4 DEF vars, tableVars, workVars, TableInv, TypeOK, DistinctAddresses,
     SlotsHeld, JobOK, ArpTarget
<1> QED BY <1>1, <1>2, <1>3, <1>4 DEF Next

\* Types, distinct addresses, slots held by their users and the state of the
\* command or request in hand are inductive.
THEOREM TableInvariant == Spec => []TableInv
BY InitTableInv, NextTableInv, PTL DEF Spec

\* No sequence of mounts and unmounts, with a gateway or without, gives the
\* slot of a mounted drive to another server.
THEOREM MountedAddressHolds == Spec => []MountedAddress
<1>1. TableInv => MountedAddress
  BY DEF TableInv, SlotsHeld, MountedAddress
<1> QED BY <1>1, TableInvariant, PTL

\* The first slot with an address is the only one.
LEMMA FirstMatch ==
  ASSUME TableInv, NEW h \in Ips, NEW s \in Slots, ip[s] = h
  PROVE  Matches(s, h) /\ \A u \in Slots : Matches(u, h) => s <= u
<1>1. h # FreeIp
  BY AddressAssumption
<1>2. \A u \in Slots : ip[u] = h => u = s
  BY <1>1 DEF TableInv, DistinctAddresses
<1> QED BY <1>2 DEF Matches, Slots

\* The answer to the ARP request that send_arp_request sends, for the server
\* or for the gateway, reaches the slot it waits for.
THEOREM ArpAnswerEndsWaitHolds == Spec => ArpAnswerEndsWait
<1>1. ASSUME TableInv, NEW h \in Ips, pc = "arpwait", arpTarget = h, HandleArp(h)
      PROVE  mac'[job.slot] # Broadcast
  <2> DEFINE t == job.slot
  <2>1. /\ t \in Slots /\ ip[t] \in Ips /\ h = ArpTarget(ip[t])
        /\ gateway \in Slots \cup {NoSlot}
    BY <1>1 DEF TableInv, TypeOK, SlotsHeld, JobOK, Job
  <2>2. \E s \in Slots :
          /\ Matches(s, h) /\ \A u \in Slots : Matches(u, h) => s <= u
          /\ t = s \/ ViaGateway(s, gateway, t)
    <3>1. CASE ip[t] = h
      BY <1>1, <2>1, <3>1, FirstMatch
    <3>2. CASE Outside(ip[t]) /\ gateway # NoSlot /\ ip[gateway] = h
      BY <1>1, <2>1, <3>2, FirstMatch DEF ViaGateway
    <3> QED BY <2>1, <3>1, <3>2 DEF ArpTarget
  <2>3. mac'[t] = MacOf(h)
    BY <1>1, <2>1, <2>2 DEF HandleArp
  <2>4. MacOf(h)[1] = h /\ Broadcast[1] = FF /\ h # FF
    BY AddressAssumption DEF MacOf, Broadcast
  <2> QED BY <2>3, <2>4
<1>2. TableInv /\ [Next]_vars =>
        [\A h \in Ips : pc = "arpwait" /\ arpTarget = h /\ HandleArp(h)
           => mac'[job.slot] # Broadcast]_vars
  BY <1>1
<1> QED BY <1>2, TableInvariant, PTL DEF Spec, ArpAnswerEndsWait

(***************************************************************************)
(* Hardware addresses, byte by byte                                        *)
(***************************************************************************)

\* A step that leaves the slots alone and does not touch MOUNT's loop.
LEMMA QuietKnown ==
  ASSUME KnownBytes, UNCHANGED <<gateway, ip, mac>>,
         pc = "fill" => pc' = "fill" /\ job' = job
  PROVE  KnownBytes'
BY DEF KnownBytes, OwnByte

\* KnownBytes is inductive: an ARP frame writes the bytes of the slot's host or
\* of the gateway on the way to it, MOUNT's loop writes 0xFF.
LEMMA NextKnown ==
  ASSUME TableInv, KnownBytes, [Next]_vars
  PROVE  KnownBytes'
<1>1. ASSUME NEW na \in BOOLEAN, NEW g \in LocalIps, NEW s \in Slots,
             InstallGateway(na, g, s)
      PROVE  KnownBytes'
  <2>1. \A t \in Slots : ip[t] = FreeIp
    BY <1>1 DEF TableInv, SlotsHeld, InstallGateway
  <2>2. \A t \in Slots : ip'[t] # FreeIp => mac'[t] = Broadcast
    BY <1>1, <2>1 DEF InstallGateway, TableInv, TypeOK
  <2>3. \A t \in Slots, b \in 1 .. MacBytes : ip'[t] # FreeIp => mac'[t][b] = FF
    BY <2>2 DEF Broadcast
  <2> QED BY <2>3 DEF KnownBytes, OwnByte
<1>2. ASSUME NEW d \in Drives, NEW i \in Ips, NEW s \in Slots,
             MountBegin(d, i, s)
      PROVE  KnownBytes'
  <2>1. /\ ip' = [ip EXCEPT ![s] = i]
        /\ job'.slot = s /\ job'.byte = 1 /\ pc = "idle"
        /\ pc' = IF ip[s] = i THEN "commit" ELSE "fill"
        /\ UNCHANGED <<gateway, mac>>
    BY <1>2 DEF MountBegin, Matches
  <2>2. CASE ip[s] = i
    <3>1. ip' = ip
      BY <2>1, <2>2 DEF TableInv, TypeOK
    <3> QED BY <2>1, <3>1, QuietKnown
  <2>3. CASE ip[s] # i
    <3>1. s # gateway
      BY <1>2, <2>3, SlotForFacts DEF MountBegin
    <3>2. \A t \in Slots : t # s => ip'[t] = ip[t]
      BY <2>1 DEF TableInv, TypeOK
    <3>3. gateway # NoSlot => ip'[gateway] = ip[gateway]
      BY <3>1, <3>2 DEF TableInv, TypeOK
    <3>4. pc' = "fill" /\ pc # "fill" /\ \A b \in 1 .. MacBytes : job'.byte <= b
      BY <2>1, <2>3
    <3> QED BY <2>1, <3>2, <3>3, <3>4 DEF KnownBytes, OwnByte
  <2> QED BY <2>2, <2>3
<1>3. CASE FillByte
  <2>1. /\ job \in Job /\ job.byte \in 1 .. MacBytes /\ job.slot \in Slots
        /\ pc = "fill" /\ MacBytes \in Nat
    BY <1>3, AddressAssumption DEF FillByte, TableInv, TypeOK, Job
  <2>2. /\ mac'[job.slot][job.byte] = FF
        /\ \A b \in 1 .. MacBytes :
             b # job.byte => mac'[job.slot][b] = mac[job.slot][b]
        /\ \A t \in Slots : t # job.slot => mac'[t] = mac[t]
    BY <1>3, <2>1 DEF FillByte, TableInv, TypeOK, Mac
  <2>3. UNCHANGED <<gateway, ip>>
    BY <1>3 DEF FillByte
  <2>4. \/ pc' = "commit" /\ job' = job /\ job.byte = MacBytes
        \/ pc' = "fill" /\ job' = [job EXCEPT !.byte = job.byte + 1]
    BY <1>3, <2>1 DEF FillByte
  <2>5. job'.slot = job.slot /\ (pc' = "fill" => job'.byte = job.byte + 1)
    BY <2>1, <2>4 DEF Job
  <2>6. ASSUME NEW t \in Slots, NEW b \in 1 .. MacBytes, ip[t] # FreeIp,
               ~(pc' = "fill" /\ job'.slot = t /\ job'.byte <= b)
        PROVE  OwnByte(mac'[t][b], ip[t])
    <3>1. CASE t # job.slot
      BY <2>2, <2>6, <3>1 DEF KnownBytes
    <3>2. CASE t = job.slot /\ b = job.byte
      BY <2>2, <3>2 DEF OwnByte
    <3>3. CASE t = job.slot /\ b # job.byte
      <4>1. ~(job.byte <= b)
        BY <2>1, <2>4, <2>5, <2>6, <3>3
      <4> QED BY <2>2, <2>6, <3>3, <4>1 DEF KnownBytes
    <3> QED BY <3>1, <3>2, <3>3
  <2> QED BY <2>3, <2>6 DEF KnownBytes, OwnByte
<1>4. ASSUME NEW h \in Ips, HandleArp(h)
      PROVE  KnownBytes'
  <2>1. UNCHANGED <<gateway, ip, pc, job>>
    BY <1>4 DEF HandleArp, workVars
  <2>2. ASSUME NEW t \in Slots, NEW b \in 1 .. MacBytes, ip[t] # FreeIp,
               ~(pc = "fill" /\ job.slot = t /\ job.byte <= b)
        PROVE  OwnByte(mac'[t][b], ip[t])
    <3>1. CASE mac'[t] = mac[t]
      BY <2>2, <3>1 DEF KnownBytes
    <3>2. CASE mac'[t] # mac[t]
      <4>1. /\ mac'[t] = MacOf(h)
            /\ \/ ip[t] = h
               \/ /\ gateway \in Slots /\ ip[gateway] = h /\ Outside(ip[t])
        BY <1>4, <3>2 DEF HandleArp, Matches, ViaGateway
      <4>2. gateway \in Slots => gateway # NoSlot
        BY AddressAssumption DEF NoSlot, Slots
      <4>3. mac'[t][b] = h
        BY <4>1 DEF MacOf
      <4> QED BY <4>1, <4>2, <4>3 DEF OwnByte
    <3> QED BY <3>1, <3>2
  <2> QED BY <2>1, <2>2 DEF KnownBytes, OwnByte
<1>5. CASE Uninstall
  <2>1. \A t \in Slots : ip'[t] = FreeIp
    BY <1>5 DEF Uninstall, FreshTable
  <2> QED BY <2>1 DEF KnownBytes
<1>6. ASSUME NEW d \in Drives,
             Umount(d) \/ Resolve(d) \/ \E i \in Ips : MountRefused(d, i)
      PROVE  KnownBytes'
  <2>1. UNCHANGED <<gateway, ip, mac>> /\ pc = "idle"
    BY <1>6 DEF Umount, UmountDrives, Resolve, MountRefused, tableVars
  <2> QED BY <2>1, QuietKnown
<1>7. ASSUME NEW na \in BOOLEAN, Install(na) \/ ArpRequestsSet(na)
      PROVE  KnownBytes'
  <2>1. UNCHANGED <<gateway, ip, mac>> /\ pc = "idle"
    BY <1>7 DEF Install, ArpRequestsSet
  <2> QED BY <2>1, QuietKnown
<1>8. CASE \/ UmountAll \/ MountCommit \/ ArpKnown \/ ArpTimeout \/ CopyByte
           \/ RequestDone
  <2>1. UNCHANGED <<gateway, ip, mac>> /\ pc # "fill"
    BY <1>8 DEF UmountAll, UmountDrives, MountCommit, ArpKnown, ArpTimeout,
       CopyByte, RequestDone, tableVars
  <2> QED BY <2>1, QuietKnown
<1>9. CASE UNCHANGED vars
  <2>1. UNCHANGED <<gateway, ip, mac, pc, job>>
    BY <1>9 DEF vars, tableVars, workVars
  <2> QED BY <2>1, QuietKnown
<1>10. ASSUME NEW s \in Slots, NEW h \in Ips, MacSet(s, h)
       PROVE  KnownBytes'
  <2>1. UNCHANGED <<gateway, ip, pc, job>> /\ pc = "idle"
    BY <1>10 DEF MacSet, workVars
  <2>2. /\ mac'[s] = MacOf(h)
        /\ \A t \in Slots : t # s => mac'[t] = mac[t]
        /\ h = ip[s] \/ (Outside(ip[s]) /\ gateway # NoSlot /\ h = ip[gateway])
    BY <1>10 DEF MacSet, TableInv, TypeOK
  <2>3. \A b \in 1 .. MacBytes : mac'[s][b] = h
    BY <2>2 DEF MacOf
  <2> QED BY <2>1, <2>2, <2>3 DEF KnownBytes, OwnByte
<1> QED BY <1>1, <1>2, <1>3, <1>4, <1>5, <1>6, <1>7, <1>8, <1>9, <1>10
        DEF Next, Commands, Requests

\* The bytes copied so far lead to the drive's server.
CopiedBytes ==
  /\ pc = "arpwait" => job.byte = 1
  /\ pc \in {"copy", "sent"} =>
       \A b \in 1 .. MacBytes :
         b < job.byte \/ pc = "sent" => OwnByte(dst[b], target[job.drive])

\* CopiedBytes is inductive.
LEMMA NextCopied ==
  ASSUME TableInv, KnownBytes, CopiedBytes, [Next]_vars
  PROVE  CopiedBytes'
<1>1. CASE CopyByte
  <2>1. /\ job \in Job /\ pc = "copy" /\ MacBytes \in Nat
        /\ job.byte \in 1 .. MacBytes
    BY <1>1, AddressAssumption DEF CopyByte, TableInv, TypeOK, Job
  <2>2. /\ job.slot \in Slots /\ ip[job.slot] = target[job.drive]
        /\ target[job.drive] \in Ips
    BY <2>1 DEF TableInv, SlotsHeld, JobOK, Job
  <2>3. OwnByte(mac[job.slot][job.byte], target[job.drive])
    BY <2>1, <2>2, AddressAssumption DEF KnownBytes
  <2>4. /\ dst'[job.byte] = mac[job.slot][job.byte]
        /\ \A b \in 1 .. MacBytes : b # job.byte => dst'[b] = dst[b]
    BY <1>1, <2>1 DEF CopyByte, TableInv, TypeOK, Mac
  <2>5. /\ UNCHANGED <<gateway, ip, target>> /\ job'.drive = job.drive
        /\ \/ pc' = "sent" /\ job.byte = MacBytes
           \/ pc' = "copy" /\ job'.byte = job.byte + 1
    BY <1>1, <2>1 DEF CopyByte, tableVars, Job
  <2>6. ASSUME NEW b \in 1 .. MacBytes, b < job'.byte \/ pc' = "sent"
        PROVE  OwnByte(dst'[b], target[job.drive])
    <3>1. CASE b = job.byte
      BY <2>3, <2>4, <3>1
    <3>2. CASE b # job.byte
      <4>1. b < job.byte
        BY <2>1, <2>5, <2>6, <3>2
      <4> QED BY <2>1, <2>4, <3>2, <4>1 DEF CopiedBytes
    <3> QED BY <3>1, <3>2
  <2> QED BY <2>5, <2>6 DEF CopiedBytes, OwnByte
<1>2. CASE (\E h \in Ips : HandleArp(h)) \/ UNCHANGED vars
  <2>1. UNCHANGED <<gateway, ip, target, pc, job, dst>>
    BY <1>2 DEF HandleArp, workVars, vars, tableVars
  <2> QED BY <2>1 DEF CopiedBytes, OwnByte
<1>3. CASE \/ ArpKnown \/ ArpTimeout \/ \E d \in Drives : Resolve(d)
  <2>1. pc' # "sent" /\ job'.byte = 1
    BY <1>3 DEF Resolve, ArpKnown, ArpTimeout, CopiedBytes
  <2>2. \A b \in 1 .. MacBytes : ~(b < 1)
    OBVIOUS
  <2> QED BY <2>1, <2>2 DEF CopiedBytes
<1>4. CASE Commands \/ RequestDone
  <2>1. pc' \notin {"arpwait", "copy", "sent"}
    BY <1>4 DEF Commands, Install, InstallGateway, MountBegin, MountRefused,
       FillByte, MountCommit, Umount, UmountAll, UmountDrives, Uninstall,
       MacSet, ArpRequestsSet, RequestDone, workVars
  <2> QED BY <2>1 DEF CopiedBytes
<1> QED BY <1>1, <1>2, <1>3, <1>4 DEF Next, Requests

\* For hardware addresses of any number of bytes: what a slot in use holds, and
\* send_request sends to, are bytes of the slot's host, of the gateway on the
\* way to it, or 0xFF, at whatever moment of MOUNT's loop ARP frames come in.
THEOREM KnownBytesHolds == Spec => []KnownBytes
<1>1. Init => TableInv /\ KnownBytes
  BY InitTableInv DEF Init, FreshTable, KnownBytes
<1>2. TableInv /\ KnownBytes /\ [Next]_vars => (TableInv /\ KnownBytes)'
  BY NextTableInv, NextKnown
<1> QED BY <1>1, <1>2, PTL DEF Spec

\* No frame carries a byte of a hardware address of a host that is neither the
\* drive's server nor the gateway on the way to it: slots that change their
\* address, gateways and ARP frames between any two bytes included.
THEOREM SentToOwnerHolds == Spec => []SentToOwner
<1>1. Init => TableInv /\ KnownBytes /\ CopiedBytes
  BY InitTableInv DEF Init, FreshTable, KnownBytes, CopiedBytes
<1>2. TableInv /\ KnownBytes /\ CopiedBytes /\ [Next]_vars
        => (TableInv /\ KnownBytes /\ CopiedBytes)'
  BY NextTableInv, NextKnown, NextCopied
<1>3. CopiedBytes => SentToOwner
  BY DEF CopiedBytes, SentToOwner
<1> QED BY <1>1, <1>2, <1>3, PTL DEF Spec

(***************************************************************************)
(* MOUNT is refused only for want of a slot                                *)
(***************************************************************************)

\* A drive that is not mounted holds no slot but slot 0, and nothing was
\* refused while a MOUNT is at work.
IdleDrives ==
  /\ \A d \in Drives : ~mounted[d] => idx[d] \in {0, NoSlot}
  /\ pc \in {"fill", "commit"} => ~refused

\* Every step keeps IdleDrives and RefusedWhenFull.
LEMMA NextRefused ==
  ASSUME TableInv, IdleDrives, RefusedWhenFull, [Next]_vars
  PROVE  IdleDrives' /\ RefusedWhenFull'
<1>2. ASSUME NEW na \in BOOLEAN, NEW g \in LocalIps, NEW s \in Slots,
             InstallGateway(na, g, s)
      PROVE  IdleDrives' /\ RefusedWhenFull'
  <2>1. gateway = NoSlot /\ UNCHANGED <<idx, mounted, pc, refused>>
    BY <1>2 DEF InstallGateway, TableInv, SlotsHeld, workVars
  <2>2. \A t \in Slots : t # NoSlot
    BY AddressAssumption DEF NoSlot, Slots
  <2>3. \A t \in Slots : InUse(t) => InUse(t)'
    BY <2>1, <2>2 DEF InUse
  <2> QED BY <2>1, <2>3 DEF IdleDrives, RefusedWhenFull
<1>3. ASSUME NEW d \in Drives, NEW i \in Ips, NEW s \in Slots,
             MountBegin(d, i, s)
      PROVE  IdleDrives' /\ RefusedWhenFull'
  BY <1>3 DEF MountBegin, IdleDrives, RefusedWhenFull
<1>4. ASSUME NEW d \in Drives, NEW i \in Ips, MountRefused(d, i)
      PROVE  IdleDrives' /\ RefusedWhenFull'
  <2>1. UNCHANGED <<idx, mounted, gateway, pc>> /\ pc = "idle" /\ NoSlotFor(i)
    BY <1>4 DEF MountRefused, tableVars
  <2>2. ASSUME NEW s \in Slots \ {0} PROVE InUse(s)
    <3>1. s = gateway \/ \E e \in Drives : idx[e] = s
      BY <2>1 DEF NoSlotFor, Reusable
    <3>2. s # NoSlot
      BY AddressAssumption DEF NoSlot, Slots
    <3> QED BY <3>1, <3>2 DEF InUse, IdleDrives
  <2> QED BY <2>1, <2>2 DEF IdleDrives, RefusedWhenFull, InUse
<1>5. CASE FillByte
  <2>1. UNCHANGED <<idx, mounted, gateway, refused>> /\ pc = "fill"
    BY <1>5 DEF FillByte
  <2> QED BY <2>1 DEF IdleDrives, RefusedWhenFull, InUse
<1>6. CASE MountCommit
  <2>1. /\ pc = "commit" /\ pc' = "idle" /\ refused' = refused
        /\ job.drive \in Drives
        /\ mounted' = [mounted EXCEPT ![job.drive] = TRUE]
        /\ idx' = [idx EXCEPT ![job.drive] = job.slot]
    BY <1>6 DEF MountCommit, TableInv, TypeOK, Job
  <2>2. \A d \in Drives : ~mounted'[d] => ~mounted[d] /\ idx'[d] = idx[d]
    BY <2>1 DEF TableInv, TypeOK
  <2> QED BY <2>1, <2>2 DEF IdleDrives, RefusedWhenFull
<1>7. ASSUME NEW D \in SUBSET Drives, UmountDrives(D), pc = "idle"
      PROVE  IdleDrives' /\ RefusedWhenFull'
  BY <1>7 DEF UmountDrives, IdleDrives, RefusedWhenFull
<1>8. CASE Uninstall
  BY <1>8 DEF Uninstall, FreshTable, IdleDrives, RefusedWhenFull
<1>9. CASE \/ Requests \/ (\E h \in Ips : HandleArp(h))
           \/ (\E na \in BOOLEAN : Install(na) \/ ArpRequestsSet(na))
           \/ (\E s \in Slots, h \in Ips : MacSet(s, h)) \/ UNCHANGED vars
  <2>1. UNCHANGED <<idx, mounted, gateway, refused>>
    BY <1>9 DEF Requests, Resolve, ArpKnown, ArpTimeout, CopyByte, RequestDone,
       HandleArp, Install, ArpRequestsSet, MacSet, vars, tableVars, workVars
  <2>2. pc' \in {"fill", "commit"} => pc = pc'
    BY <1>9 DEF Requests, Resolve, ArpKnown, ArpTimeout, CopyByte, RequestDone,
       HandleArp, Install, ArpRequestsSet, MacSet, vars, tableVars, workVars
  <2> QED BY <2>1, <2>2 DEF IdleDrives, RefusedWhenFull, InUse
<1>10. CASE UmountAll \/ \E d \in Drives : Umount(d)
  <2>1. \A d \in Drives : {d} \in SUBSET Drives
    OBVIOUS
  <2> QED BY <1>7, <1>10, <2>1 DEF UmountAll, Umount
<1> QED BY <1>2, <1>3, <1>4, <1>5, <1>6, <1>8, <1>9, <1>10 DEF Next, Commands

\* However drives were mounted and unmounted before, MOUNT finds no slot only
\* while every slot but slot 0 is the gateway's or a mounted drive's: umount
\* gives back every slot that MOUNT takes.
THEOREM RefusedWhenFullHolds == Spec => []RefusedWhenFull
<1>1. Init => TableInv /\ IdleDrives /\ RefusedWhenFull
  BY InitTableInv DEF Init, FreshTable, IdleDrives, RefusedWhenFull
<1>2. TableInv /\ IdleDrives /\ RefusedWhenFull /\ [Next]_vars
        => (TableInv /\ IdleDrives /\ RefusedWhenFull)'
  BY NextTableInv, NextRefused
<1> QED BY <1>1, <1>2, PTL DEF Spec
=============================================================================
