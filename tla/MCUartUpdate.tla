---------------------------- MODULE MCUartUpdate ----------------------------
(***************************************************************************)
(* An instance of UartUpdate: two firmware pages that differ in every      *)
(* byte, each byte of which tells its place.                               *)
(***************************************************************************)
EXTENDS UartUpdate

UartContent == {[i \in 0..ByteWrap - 1 |-> v * ByteWrap + i] : v \in 1..2}

UartByte == {Old, Blank} \cup ByteWrap..(3 * ByteWrap - 1)
=============================================================================
