---------------------------- MODULE MCAufsLayout ----------------------------
(***************************************************************************)
(* AufsLayout with the byte sizes of the code divided by 64: blocks of 64  *)
(* bytes with 64 inodes of one byte, zones of 8 bytes and more, 512 bits   *)
(* in a map block.  Word is scaled so that the product in VerifyDevice     *)
(* wraps at the zone size at which 2^32 wraps it, 32 blocks.               *)
(***************************************************************************)
EXTENDS AufsLayout

MCDevices == {512 * k : k \in 1 .. 24}
=============================================================================
