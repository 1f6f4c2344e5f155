-------------------------------- MODULE Slip --------------------------------
(***************************************************************************)
(* The serial line of the server (slip_udp_serial.cpp): datagrams are sent *)
(* as SLIP frames, END data END with END and ESC escaped, and the receiver *)
(* rebuilds them from a stream of bytes of which some may be lost, damaged *)
(* or late.  One direction is modelled; the other end is a SLIP packet     *)
(* driver of the client (external), which codes frames the same way.       *)
(*                                                                         *)
(* A datagram is [port, data].  Its 28 bytes of headers are scaled down to *)
(* six symbols: IP version, total_len, hdr_csum and an address, then UDP   *)
(* dst_port and length.  192 is both the first byte of most addresses and  *)
(* END, so headers are escaped too.                                        *)
(***************************************************************************)
EXTENDS Integers, Sequences, SequencesExt, FiniteSets

CONSTANTS
  Datagrams,   \* what is sent: [port, data]
  BindPort,    \* the port the server listens on
  RxSize,      \* size of rx_buffer, MTU
  Noise,       \* bytes a damaged byte turns into
  MaxFrames,   \* bound on the frames sent
  MaxFaults    \* bound on the faults of the line

END == 192
ESC == 219
ESC_END == 220
ESC_ESC == 221

Byte == 0..255

IPv4 == 69     \* version_ihl
Address == 192
IpLen == 4     \* sizeof(ipv4_hdr)
UdpLen == 2    \* sizeof(udp_hdr)
HdrLen == IpLen + UdpLen

ASSUME SlipAssumption ==
  /\ \A d \in Datagrams : d.port \in Byte /\ d.data \in Seq(Byte) /\ d.data # <<>>
  /\ \A d \in Datagrams : HdrLen + Len(d.data) <= RxSize
  /\ BindPort \in Byte /\ RxSize \in Byte /\ Noise \subseteq Byte
  /\ MaxFrames \in Nat /\ MaxFaults \in Nat

VARIABLES
  sent,     \* history: the datagrams sent, one frame each
  line,     \* bytes under way
  rx,       \* locals of recv_decode_slip: started, esc, buf; from: the frame of buf[1]
  got,      \* datagrams handed to the main loop, with their frame
  faults,   \* number of faults of the line so far
  hit,      \* history: frames with a fault
  damaged   \* history: has a byte been changed?

vars == <<sent, line, rx, got, faults, hit, damaged>>

\* The state in which every call of recv_decode_slip begins.
NewCall == [started |-> FALSE, esc |-> FALSE, buf |-> <<>>, from |-> 0]

Init ==
  /\ sent = <<>> /\ line = <<>> /\ rx = NewCall /\ got = <<>>
  /\ faults = 0 /\ hit = {} /\ damaged = FALSE

-----------------------------------------------------------------------------
(* Sending *)

\* Internet checksum, with one byte for a word: the complement of the folded sum.
internet_checksum(s) ==
  LET upto[k \in 0 .. Len(s)] == IF k = 0 THEN 0 ELSE upto[k - 1] + s[k]
      sum == upto[Len(s)]
  IN  255 - (IF sum = 0 THEN 0 ELSE ((sum - 1) % 255) + 1)

build_headers(d) ==
  LET total == HdrLen + Len(d.data)
  IN  <<IPv4, total, internet_checksum(<<IPv4, total, 0, Address>>), Address,
        d.port, UdpLen + Len(d.data)>>

Escaped(b) == CASE b = END -> <<ESC, ESC_END>>
                [] b = ESC -> <<ESC, ESC_ESC>>
                [] OTHER   -> <<b>>

encode_slip_block(s) == FlattenSeq([i \in 1..Len(s) |-> Escaped(s[i])])

encode_slip(d) ==
  <<END>> \o encode_slip_block(build_headers(d)) \o encode_slip_block(d.data) \o <<END>>

(***************************************************************************)
(* SlipUdpSerial::send.  The receiver sees bytes and pauses only, so a     *)
(* frame is put on an empty line.  write_bytes may take only a part of the *)
(* frame: send throws, and the part stays on the line.  That data is not   *)
(* longer than the MTU, which send checks, is in SlipAssumption.           *)
(***************************************************************************)
Write(d, n) ==
  /\ line = <<>> /\ Len(sent) < MaxFrames
  /\ sent' = Append(sent, d)
  /\ line' = SubSeq(encode_slip(d), 1, n)
  /\ UNCHANGED <<rx, got, damaged>>

Send(d) ==
  /\ Write(d, Len(encode_slip(d)))
  /\ UNCHANGED <<faults, hit>>

Fault(k) ==
  /\ faults < MaxFaults
  /\ faults' = faults + 1 /\ hit' = hit \cup {k}

SendCutShort(d) ==
  /\ Fault(Len(sent) + 1)
  /\ \E n \in 1..Len(encode_slip(d)) - 1 : Write(d, n)

-----------------------------------------------------------------------------
(* Receiving *)

(***************************************************************************)
(* parse_udp_packet: is the received frame a whole datagram?  A longer one *)
(* is, its end is not looked at.  The check of the protocol field is left  *)
(* out, so more is taken for a datagram here than by the code.             *)
(***************************************************************************)
IsDatagram(buf) ==
  /\ Len(buf) >= HdrLen
  /\ buf[1] = IPv4
  /\ internet_checksum(SubSeq(buf, 1, IpLen)) = 0
  /\ Len(buf) >= buf[2]
  /\ buf[6] >= UdpLen
  /\ Len(buf) >= IpLen + buf[6]

parse_udp_packet(buf) == SubSeq(buf, HdrLen + 1, IpLen + buf[6])

\* The length received is trusted, without the checks of parse_udp_packet.
ReturnUnchecked(buf) ==
  /\ got' = IF Len(buf) > HdrLen /\ internet_checksum(SubSeq(buf, 1, IpLen)) = 0
            THEN Append(got, [from |-> rx.from, data |-> SubSeq(buf, HdrLen + 1, Len(buf))])
            ELSE got
  /\ rx' = NewCall

\* The count of received bytes is kept over the end of the call.
ReturnKeepingBuffer(buf) ==
  /\ got' = IF IsDatagram(buf) /\ parse_udp_packet(buf) # <<>> /\ buf[5] = BindPort
            THEN Append(got, [from |-> rx.from, data |-> parse_udp_packet(buf)])
            ELSE got
  /\ rx' = [NewCall EXCEPT !.buf = rx.buf, !.from = rx.from]

(***************************************************************************)
(* recv_decode_slip returns to receive, receive to the main loop, which    *)
(* takes a datagram that has data and is for its port and calls receive    *)
(* again.                                                                  *)
(***************************************************************************)
Return(buf) ==
  /\ got' = IF IsDatagram(buf) /\ parse_udp_packet(buf) # <<>> /\ buf[5] = BindPort
            THEN Append(got, [from |-> rx.from, data |-> parse_udp_packet(buf)])
            ELSE got
  /\ rx' = NewCall

\* Off by one: a full buffer is noticed one byte late.
FullLate == Len(rx.buf) > RxSize

Full == Len(rx.buf) = RxSize

\* The call goes on with one more byte in the buffer.
Store(b) ==
  rx' = [rx EXCEPT !.esc = FALSE, !.buf = Append(@, b),
                   !.from = IF rx.buf = <<>> THEN Len(sent) ELSE @]

\* Two ENDs in a row are taken for an empty frame.
ReadEndEmpty(b) ==
  /\ ~rx.esc /\ b = END
  /\ IF rx.started THEN Return(rx.buf)
     ELSE rx' = [rx EXCEPT !.started = TRUE] /\ UNCHANGED got

ReadEnd(b) ==
  /\ ~rx.esc /\ b = END
  /\ IF rx.started /\ rx.buf # <<>>
     THEN Return(rx.buf)
     ELSE rx' = [rx EXCEPT !.started = TRUE] /\ UNCHANGED got

ReadIgnored(b) ==
  /\ ~rx.esc /\ b # END /\ ~rx.started
  /\ UNCHANGED <<rx, got>>

ReadOverflow(b) ==
  /\ ~rx.esc /\ b # END /\ rx.started /\ Full
  /\ Return(<<>>)

ReadEsc(b) ==
  /\ ~rx.esc /\ b = ESC /\ rx.started /\ ~Full
  /\ rx' = [rx EXCEPT !.esc = TRUE]
  /\ UNCHANGED got

ReadPlain(b) ==
  /\ ~rx.esc /\ b \notin {END, ESC} /\ rx.started /\ ~Full
  /\ Store(b)
  /\ UNCHANGED got

\* After ESC: another byte than the two codes is dropped, END too.
ReadEscaped(b) ==
  /\ rx.esc
  /\ CASE b = ESC_END -> Store(END)
       [] b = ESC_ESC -> Store(ESC)
       [] OTHER       -> rx' = [rx EXCEPT !.esc = FALSE]
  /\ UNCHANGED got

Decode(b) ==
  \/ ReadEnd(b) \/ ReadIgnored(b) \/ ReadOverflow(b)
  \/ ReadEsc(b) \/ ReadPlain(b) \/ ReadEscaped(b)

Read ==
  /\ line # <<>> /\ line' = Tail(line)
  /\ Decode(Head(line))
  /\ UNCHANGED <<sent, faults, hit, damaged>>

(***************************************************************************)
(* read_byte waits a second (VTIME) and returns 0: the call returns what   *)
(* it has, also after an ESC.  Between two frames this is normal.          *)
(***************************************************************************)
Timeout ==
  /\ line = <<>> /\ rx # NewCall
  /\ Return(rx.buf)
  /\ UNCHANGED <<sent, line, faults, hit, damaged>>

-----------------------------------------------------------------------------
(* Faults of the line (external) *)

\* A pause of more than a second inside a frame.
Pause ==
  /\ line # <<>> /\ rx # NewCall
  /\ Fault(Len(sent))
  /\ Return(rx.buf)
  /\ UNCHANGED <<sent, line, damaged>>

Lose ==
  /\ line # <<>> /\ line' = Tail(line)
  /\ Fault(Len(sent))
  /\ UNCHANGED <<sent, rx, got, damaged>>

Damage ==
  /\ line # <<>> /\ line' = Tail(line)
  /\ Fault(Len(sent))
  /\ \E b \in Noise \ {Head(line)} : Decode(b)
  /\ damaged' = TRUE
  /\ UNCHANGED sent

Next ==
  \/ \E d \in Datagrams : Send(d) \/ SendCutShort(d)
  \/ Read \/ Timeout
  \/ Pause \/ Lose \/ Damage

Spec == Init /\ [][Next]_vars

-----------------------------------------------------------------------------
(* Properties *)

\* Types; the buffer of the receiver never holds more than its size, however
\* frames are run together on a bad line (recv_decode_slip).
TypeOK ==
  /\ sent \in Seq(Datagrams) /\ Len(sent) <= MaxFrames
  /\ line \in Seq(Byte)
  /\ rx.started \in BOOLEAN /\ rx.esc \in BOOLEAN /\ rx.from \in 0..Len(sent)
  /\ rx.buf \in Seq(Byte) /\ Len(rx.buf) <= RxSize
  /\ \A i \in DOMAIN got : got[i].from \in 1..Len(sent) /\ got[i].data \in Seq(Byte)
  /\ faults \in 0..MaxFaults /\ hit \subseteq 1..Len(sent) /\ damaged \in BOOLEAN

Differ(s, t) == {i \in DOMAIN s : s[i] # t[i]}

\* One lost byte, pause or cut frame never joins, cuts or shifts data: what
\* parse_udp_packet accepts has the length of the datagram sent and differs from
\* it in one byte at most (the second half of an escape whose ESC was lost).
\* The checks of lengths in parse_udp_packet and the checksum of the IP header
\* together with the framing of recv_decode_slip give this.
NeverJoined ==
  faults <= 1 /\ ~damaged =>
    \A i \in DOMAIN got :
      LET d == sent[got[i].from] IN
        /\ d.port = BindPort
        /\ Len(got[i].data) = Len(d.data)
        /\ Cardinality(Differ(got[i].data, d.data)) <= 1

\* No frame is handed on twice, although a pause or a damaged byte may end it
\* before its END (recv_decode_slip begins every call outside of a frame).
HandedOnce == \A i, j \in DOMAIN got : got[i].from = got[j].from => i = j

\* The receiver is in step again one frame after a fault at the latest: a frame
\* for this port is handed on, unchanged, when neither it nor the frame before it
\* met a fault, whatever came before (recv_decode_slip).
Resync ==
  line = <<>> =>
    \A k \in DOMAIN sent :
      sent[k].port = BindPort /\ {k - 1, k} \cap hit = {} =>
        \E i \in DOMAIN got : got[i] = [from |-> k, data |-> sent[k].data]

=============================================================================
