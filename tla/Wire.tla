-------------------------------- MODULE Wire --------------------------------
(***************************************************************************)
(* The messages of the NetMount drive protocol (shared/drvproto.h) as the  *)
(* client's receive path and the server's reply cache tell them apart.     *)
(*                                                                         *)
(* The payload is abstracted to an operation: two requests carry the same  *)
(* bytes exactly when their operation and their sequence number agree.     *)
(* Every message also carries the number of the request it belongs to      *)
(* ("id", counted from 1 by the client).  The id is not on the wire: no    *)
(* action reads it to decide anything, it is there for the properties.     *)
(***************************************************************************)
EXTENDS Integers, SequencesExt

CONSTANTS
  Servers,    \* the servers (IP address and UDP port) a client has mounted
  NoServer,   \* last_remote_ip before the first request
  Ops,        \* the distinct request payloads
  SilentOps,  \* the payloads a server never answers: unshared or invalid
              \* drive, unknown function, malformed arguments
  ReplyLen,   \* ReplyLen[op]: length in the header of the reply to op
  SeqCount    \* number of sequence numbers: 256, drive_proto_hdr.sequence
              \* is a uint8_t

(***************************************************************************)
(* The lengths on the wire are those of the code: a drive_proto_hdr has 8  *)
(* bytes; it follows 42 bytes of Ethernet, IPv4 and UDP header; a frame    *)
(* shorter than 60 bytes is padded by the network card.                    *)
(***************************************************************************)
HdrLen == 8
UdpDataOffset == 42
FrameLen(len) == IF UdpDataOffset + len < 60 THEN 60 ELSE UdpDataOffset + len

(***************************************************************************)
(* Every reply has a header and fits the 11 bits of length_flags.          *)
(***************************************************************************)
ASSUME WireAssumption ==
  /\ NoServer \notin Servers
  /\ Ops # {}
  /\ SilentOps \subseteq Ops
  /\ ReplyLen \in [Ops -> HdrLen .. 1458]
  /\ SeqCount \in Nat \ {0}

\* request_last_sent_seq_num starts at 0 and is incremented, modulo 2^8,
\* before every request: request number id is sent with this number.
Sequence(id) == id % SeqCount

Request == [id : Nat, seq : Nat, op : Ops]

Reply == [id : Nat, seq : Nat, src : Servers \cup {NoServer}, len : Nat]

RequestMsg(id, op) == [id |-> id, seq |-> Sequence(id), op |-> op]

\* The reply repeats the sequence number of the request it answers.
ReplyMsg(s, m) ==
  [id |-> m.id, seq |-> m.seq, src |-> s, len |-> ReplyLen[m.op]]

\* What the receive buffer holds after a frame that is no reply of a server
\* (ARP, other UDP traffic), n being what then stands where a reply has its
\* length.  The buffer of a client just started is Junk(0): zeroes.
Junk(n) == [id |-> 0, seq |-> 0, src |-> NoServer, len |-> n]
=============================================================================
