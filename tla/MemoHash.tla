------------------------------ MODULE MemoHash ------------------------------
(***************************************************************************)
(* __hash of src/src/trans_wrapper.cc: shifts and exclusive ors in 64 bits *)
(* of which the lowest ten are kept.  No bit of the result depends on a    *)
(* bit of an argument above them, so that it is enough to keep ten bits    *)
(* all along.                                                              *)
(***************************************************************************)
EXTENDS Integers, Bitwise

TenBits(n) == n % 1024

Mix(id, a1, a2, a3) ==
  LET words == (TenBits(4 * id) ^^ TenBits(2 * a1)) ^^ TenBits(a2)
  IN  TenBits(2 * words) ^^ TenBits(a3)

__hash(key) == Mix(key.id, key.args[1], key.args[2], key.args[3])
=============================================================================
