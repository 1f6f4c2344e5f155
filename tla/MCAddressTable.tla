--------------------------- MODULE MCAddressTable ---------------------------
(* AddressTable for TLC. *)
EXTENDS AddressTable, TLC

\* No action tells one drive letter from another.
DriveSymmetry == Permutations(Drives)
=============================================================================
