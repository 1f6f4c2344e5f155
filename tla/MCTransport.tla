---------------------------- MODULE MCTransport -----------------------------
(* Transport for TLC. *)
EXTENDS Transport, TLC

CONSTANTS Rd, Wr, Bad  \* a read, a write, a request to an unshared drive

\* A read's reply (64 bytes of data) is longer than a write's (2 bytes).
MCReplyLen == [op \in Ops |-> IF op = Rd THEN 72 ELSE 10]

\* No action tells one server from another.
ServerSymmetry == Permutations(Servers)
=============================================================================
