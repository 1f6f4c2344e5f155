---------------------------- MODULE MCFileAccess ----------------------------
(* FileAccess for TLC. *)
EXTENDS FileAccess, TLC

\* No action tells one path from another, nor one remote or one drive from another.
NameSymmetry ==
  Permutations(Names) \cup Permutations(Remotes) \cup Permutations(Drives)
=============================================================================
