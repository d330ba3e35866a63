---------------------------- MODULE MCAufsDevice ----------------------------
(***************************************************************************)
(* AufsDevice with the byte sizes of the code divided by 256: blocks of 16 *)
(* bytes with 16 inodes of one byte, 128 bits in a map block.  The three   *)
(* devices have room for the fewest zones, for some, and for more zones    *)
(* than the map has bits.  The cache writes when it has more than two      *)
(* blocks, so that it writes while mkfs still holds and changes them.      *)
(***************************************************************************)
EXTENDS AufsDevice

MCDevices == {128, 1040, 2304}
=============================================================================
