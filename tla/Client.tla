------------------------------- MODULE Client -------------------------------
(***************************************************************************)
(* The client's request path (netmount/netmount.c): send_request, which    *)
(* the INT 2Fh handler runs in the foreground, and pktdrv_recv with        *)
(* handle_ipv4, which the packet driver calls from its interrupt at any    *)
(* moment in between.                                                      *)
(*                                                                         *)
(* The two share three variables without a lock: the receive buffer, its   *)
(* length (0 = free) and the flag "a response is there".  A foreground     *)
(* step below is the code between two reads of shared memory; an interrupt *)
(* runs to its end before the foreground goes on, so it is one step.       *)
(***************************************************************************)
EXTENDS Wire

CONSTANTS
  MaxReq,          \* bound: requests the client issues
  MaxRetries,      \* drive_info.max_request_retries
  ChecksumEnabled, \* drive_info.enabled_checksums & CHECKSUM_NETMOUNT_PROTO
  JunkLens         \* values a foreign frame leaves in the length field

ASSUME ClientAssumption ==
  /\ MaxReq \in Nat /\ MaxRetries \in Nat
  /\ ChecksumEnabled \in BOOLEAN
  /\ JunkLens \subseteq Nat

VARIABLES
  pc,       \* where the foreground is
  req,      \* the current or last request [id, srv, op]; srv is also
            \* last_remote_ip / last_remote_udp_port
  retries,  \* retransmissions of the current request so far
  srr,      \* server_response_received
  recvLen,  \* global_recv_data_len
  buf,      \* global_recv_buff
  vlen      \* send_request's local len, read from the buffer

clientVars == <<pc, req, retries, srr, recvLen, buf, vlen>>

\* idle      no INT 2Fh request for a mounted drive is being served
\* prepared  headers built, last_remote_ip set, flag not yet cleared
\* poll      in the wait loop of send_request
\* checklen  length field read, not yet compared with recv_data_len
\* validate  length accepted, sequence number and checksum to be checked
\* use       send_request returned: the handler reads the reply in the buffer
\* failed    send_request returned NETWORK_ERROR
PC == {"idle", "prepared", "poll", "checklen", "validate", "use", "failed"}

NoRequest == [id |-> 0, srv |-> NoServer, op |-> CHOOSE op \in Ops : TRUE]

ClientTypeOK ==
  /\ pc \in PC
  /\ req \in [id : 0 .. MaxReq, srv : Servers \cup {NoServer}, op : Ops]
  /\ retries \in 0 .. MaxRetries
  /\ srr \in {0, 1}
  /\ recvLen \in Nat
  /\ buf \in Reply
  /\ vlen \in Nat

\* The CS_VARIABLEs of a client just installed.
ClientInit ==
  /\ pc = "idle" /\ req = NoRequest /\ retries = 0
  /\ srr = 0 /\ recvLen = 0 /\ buf = Junk(0) /\ vlen = 0

-----------------------------------------------------------------------------
(* The foreground *)

\* handle_request_for_our_drive up to line 720 of send_request: the headers
\* are built and the remote address that handle_ipv4 will accept is set.
\* The receive buffer is left as it is.  (The address is written before the
\* port; a frame received between the two would have to pass handle_ipv4 with one
\* of each, and is dropped or taken as a late reply is.)
Prepare(s, op) ==
  /\ pc = "idle"
  /\ req.id < MaxReq
  /\ req' = [id |-> req.id + 1, srv |-> s, op |-> op]
  /\ pc' = "prepared"
  /\ UNCHANGED <<retries, srr, recvLen, buf, vlen>>

\* An INT 2Fh request that is answered without the network (read buffer hit,
\* local error): only the common end of the handler touches the buffer.
LocalRequest ==
  /\ pc = "idle"
  /\ recvLen' = 0
  /\ UNCHANGED <<pc, req, retries, srr, buf, vlen>>

\* The flag is cleared and the request is sent for the first time; whoever
\* composes the client with a network transmits RequestMsg(req.id, req.op).
StartWait ==
  /\ pc = "prepared"
  /\ srr' = 0
  /\ retries' = 0
  /\ pc' = "poll"
  /\ UNCHANGED <<req, recvLen, buf, vlen>>

\* Mutant: the retransmissions are not counted.
ResendUncounted ==
  /\ pc = "poll"
  /\ retries < MaxRetries
  /\ UNCHANGED <<pc, req, retries, srr, recvLen, buf, vlen>>

\* Mutant: the flag is cleared before every attempt.
ResendClearingFlag ==
  /\ pc = "poll"
  /\ retries < MaxRetries
  /\ retries' = retries + 1
  /\ srr' = 0
  /\ UNCHANGED <<pc, req, recvLen, buf, vlen>>

\* The response time is over; the request is sent again.
Resend ==
  /\ pc = "poll"
  /\ retries < MaxRetries
  /\ retries' = retries + 1
  /\ UNCHANGED <<pc, req, srr, recvLen, buf, vlen>>

\* The response time is over and all retries are used: NETWORK_ERROR.
GiveUp ==
  /\ pc = "poll"
  /\ retries = MaxRetries
  /\ pc' = "failed"
  /\ UNCHANGED <<req, retries, srr, recvLen, buf, vlen>>

\* The loop sees the flag and reads the length field of the buffer.
ReadLen ==
  /\ pc = "poll"
  /\ srr = 1
  /\ vlen' = buf.len
  /\ pc' = "checklen"
  /\ UNCHANGED <<req, retries, srr, recvLen, buf>>

\* Label ignore_frame: the buffer is marked empty, the flag stays set.
IgnoreFrame ==
  /\ recvLen' = 0
  /\ pc' = "poll"
  /\ UNCHANGED <<req, retries, srr, buf, vlen>>

\* Mutant: a length is not compared with the number of bytes received.
LengthOKHeaderOnly == HdrLen <= vlen

LengthOK == vlen <= recvLen /\ HdrLen <= vlen

\* The length read before is compared with the length received.  (A frame the
\* interrupt puts in between a comparison that fails and label ignore_frame is
\* dropped with the buffer, as if it had been lost on the way.)
CheckLen ==
  /\ pc = "checklen"
  /\ IF LengthOK
     THEN /\ pc' = "validate"
          /\ UNCHANGED <<req, retries, srr, recvLen, buf, vlen>>
     ELSE IgnoreFrame

\* Mutant: the sequence number is not checked.
SequenceOKUnchecked == TRUE

SequenceOK == buf.seq = Sequence(req.id)

\* Mutant: the checksum is not compared.
ChecksumOKUnchecked == TRUE

\* With checksums off the reply carries DRIVE_PROTO_MAGIC, and no length
\* enters the check.  With checksums on, the sum over vlen bytes is compared
\* with the one the server took over the reply's own length: bsd_checksum is
\* modelled as telling the two apart.
ChecksumOK == ChecksumEnabled => vlen = buf.len

Validate ==
  /\ pc = "validate"
  /\ IF SequenceOK /\ ChecksumOK
     THEN /\ pc' = "use"
          /\ UNCHANGED <<req, retries, srr, recvLen, buf, vlen>>
     ELSE IgnoreFrame

\* Label finish of the handler, and the end of a chunk of a long read or
\* write: the buffer is marked empty.
Finish ==
  /\ pc \in {"use", "failed"}
  /\ recvLen' = 0
  /\ pc' = "idle"
  /\ UNCHANGED <<req, retries, srr, buf, vlen>>

-----------------------------------------------------------------------------
(* The interrupt *)

\* Mutant: the buffer is given away whatever it holds.
BufferFreeAlways == TRUE

\* pktdrv_recv, first call: the buffer is given away only when it is free.
BufferFree == recvLen = 0

\* Mutant: the source address is not checked.
FromAnyRemote(f) == TRUE

\* handle_ipv4: is this frame from the server last spoken to?
FromLastRemote(f) == f.src = req.srv

\* pktdrv_recv is offered the reply f.  A refused frame is lost; a frame
\* handle_ipv4 rejects is copied, then dropped by freeing the buffer again.
ReceiveReply(f) ==
  /\ UNCHANGED <<pc, req, retries, vlen>>
  /\ IF ~BufferFree
     THEN UNCHANGED <<srr, recvLen, buf>>
     ELSE /\ buf' = f
          /\ IF FromLastRemote(f)
             THEN srr' = 1 /\ recvLen' = FrameLen(f.len)
             ELSE srr' = srr /\ recvLen' = 0

\* pktdrv_recv is offered a frame that is not a server's reply (ARP, other
\* UDP, wrong protocol version): copied when the buffer is free, then dropped.
ReceiveOther(n) ==
  /\ BufferFree
  /\ buf' = Junk(n)
  /\ recvLen' = 0
  /\ UNCHANGED <<pc, req, retries, srr, vlen>>
=============================================================================
