---------------------------- MODULE MCAufsBitmap ----------------------------
(***************************************************************************)
(* Small instances of AufsBitmap for TLC: maps of two blocks with two or   *)
(* three bits each, bit 0 of each map in use (the root zone and root inode *)
(* are left free to have more to allocate), so that calls cross from one   *)
(* map block to the next, exhaust the maps and are refused.                *)
(***************************************************************************)
EXTENDS AufsBitmap

\* In use at mount: bit 0, and one bit of the second block.
MCZoneBits0 == {0, BitsPerBlock + 1}
MCInodeBits0 == {0, BitsPerBlock}
=============================================================================
