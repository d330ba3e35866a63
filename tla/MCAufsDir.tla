----------------------------- MODULE MCAufsDir ------------------------------
(***************************************************************************)
(* Small instances of AufsDir for TLC.                                     *)
(***************************************************************************)
EXTENDS AufsDir, TLC

\* Nothing is claimed about names after a crash that lost inode map bits.
NotLost == ~lost

\* Threads are interchangeable, and so are names.
Symmetry == Permutations(Threads) \cup Permutations(Names)
=============================================================================
