-------------------------------- MODULE Bytes --------------------------------
(***************************************************************************)
(* How a uint32_t is copied to and from a buffer: the bytes of the host,   *)
(* least significant first.                                                *)
(***************************************************************************)
EXTENDS Integers

\* The values of a uint32_t: those whose top byte is a byte.
EnUint32(v) == v \in Nat /\ v \div 16777216 < 256

\* buffer_add_uint32: the four bytes it adds.
buffer_add_uint32(v) ==
  <<v % 256, (v \div 256) % 256, (v \div 65536) % 256, v \div 16777216>>

\* buffer_read_uint32, of four bytes.
buffer_read_uint32(b) == b[1] + 256 * b[2] + 65536 * b[3] + 16777216 * b[4]

=============================================================================
