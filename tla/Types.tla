------------------------------- MODULE Types -------------------------------
(***************************************************************************)
(* Data types and immediates: src/include/type.h, src/src/type.cpp,        *)
(* src/src/imm.cpp, src/include/value.h, and what a constant instruction   *)
(* is calculated to (src/src/ir_opr_instr.cpp, ir_cmp_instr.cpp,           *)
(* ir_cast_instr.cpp).  An immediate holds its integer in 64 bits whatever *)
(* its type is; the model leaves it unbounded.  Floating point types are   *)
(* told apart, floating point arithmetic is not modelled.                  *)
(***************************************************************************)
EXTENDS Integers, Sequences, SequencesExt

(* enum ImmType: the order is what join_imm_type compares.                 *)
ImmTypes == <<"I1", "U1", "I8", "U8", "I16", "U16", "I32", "U32", "F32", "I64", "U64", "F64">>
Rank(t) == SelectInSeq(ImmTypes, LAMBDA u : u = t)

is_imm_float(t) == t \in {"F32", "F64"}
is_imm_signed(t) == t \in {"I1", "I8", "I16", "I32", "I64", "F32", "F64"}
is_imm_integer(t) == ~is_imm_float(t)

bytes_of_imm_type(t) ==
  CASE t \in {"I1", "U1", "I8", "U8"} -> 1
    [] t \in {"I16", "U16"} -> 2
    [] t \in {"I32", "U32", "F32"} -> 4
    [] OTHER -> 8

join_imm_type(a, b) == IF Rank(a) < Rank(b) THEN b ELSE a

(* gImmName: a signed and an unsigned type of one width share their name.  *)
IrName(t) ==
  CASE t = "U1" -> "I1" [] t = "U8" -> "I8" [] t = "U16" -> "I16"
    [] t = "U32" -> "I32" [] t = "U64" -> "I64" [] OTHER -> t
-----------------------------------------------------------------------------
Void == <<"void">>
Basic(t) == <<"basic", t>>
PointerTo(ty) == <<"pointer", ty>>
ArrayOf(ty, n) == <<"array", ty, n>>

is_basic_type(ty) == ty[1] = "basic"
is_pointer(ty) == ty[1] = "pointer"
is_array(ty) == ty[1] = "array"
is_integer(ty) == is_basic_type(ty) /\ is_imm_integer(ty[2])
is_float(ty) == is_basic_type(ty) /\ is_imm_float(ty[2])

(* to_pointed_type of a pointer, to_elem_type of an array.                 *)
Inner(ty) == ty[2]

is_same_type(a, b) ==
  \/ a = b
  \/ is_basic_type(a) /\ is_basic_type(b) /\ IrName(a[2]) = IrName(b[2])

NoType == <<"none">>
join_type(a, b) ==
  IF is_same_type(a, b) THEN a
  ELSE IF (is_pointer(a) /\ is_integer(b)) \/ (is_pointer(b) /\ is_integer(a)) THEN Basic("U64")
  ELSE IF is_basic_type(a) /\ is_basic_type(b) THEN Basic(join_imm_type(a[2], b[2]))
  ELSE NoType

is_castableNarrow(from, to) == is_same_type(from, to) \/ (is_integer(from) /\ is_integer(to) /\ Rank(to[2]) >= Rank(from[2]))
is_castable(from, to) ==
  LET Wide(ty) == is_integer(ty) /\ bytes_of_imm_type(ty[2]) = 8
  IN \/ is_same_type(from, to)
     \/ is_basic_type(from) /\ is_basic_type(to)
     \/ is_pointer(from) /\ (is_pointer(to) \/ Wide(to))
     \/ is_pointer(to) /\ Wide(from)

RECURSIVE bytes_of_type(_)
bytes_of_type(ty) ==
  CASE is_basic_type(ty) -> bytes_of_imm_type(ty[2])
    [] is_pointer(ty) -> 8
    [] is_array(ty) -> ty[3] * bytes_of_type(ty[2])
    [] OTHER -> 0

(* get_cast_method.  An i1 is widened with zeros, or 1 would become -1.    *)
get_cast_method(src, dest) ==
  LET Narrower == bytes_of_type(dest) < bytes_of_type(src)
  IN CASE is_pointer(src) /\ is_pointer(dest) -> "bitcast"
       [] is_pointer(src) /\ is_integer(dest) -> "ptrtoint"
       [] is_pointer(dest) /\ is_integer(src) -> "inttoptr"
       [] is_integer(src) /\ is_integer(dest) /\ Narrower -> "trunc"
       [] is_float(dest) /\ is_integer(src) ->
            IF is_imm_signed(src[2]) THEN "sitofp" ELSE "uitofp"
       [] is_float(src) /\ is_integer(dest) ->
            IF is_imm_signed(dest[2]) THEN "fptosi" ELSE "fptoui"
       [] is_integer(src) /\ is_integer(dest) ->
            IF is_imm_signed(dest[2]) /\ src[2] # "I1" THEN "sext" ELSE "zext"
       [] OTHER -> IF Narrower THEN "fptrunc" ELSE "fpext"
-----------------------------------------------------------------------------
(* ImmValue.  The constructor from a long long narrows nothing.            *)
ImmValue(n, t) == [val |-> n, ty |-> t]
ImmBool(p) == ImmValue(IF p THEN 1 ELSE 0, "I1")
cast_to(v, t) == [v EXCEPT !.ty = t]
IsTrue(v) == v.val # 0

(* Division of the host's signed integers rounds towards zero.             *)
Quot(a, b) ==
  LET Magnitude(n) == IF n < 0 THEN -n ELSE n
      q == Magnitude(a) \div Magnitude(b)
  IN IF (a < 0) = (b < 0) THEN q ELSE -q
Rem(a, b) == a - b * Quot(a, b)

(* a & b, a | b, a ^ b on bits of two's complement numbers.                *)
RECURSIVE Bits(_, _, _)
Bits(Op(_, _), a, b) ==
  IF a \in {0, -1} /\ b \in {0, -1}
  THEN -Op(-a, -b)
  ELSE 2 * Bits(Op, a \div 2, b \div 2) + Op(a % 2, b % 2)
AndBit(x, y) == x * y
OrBit(x, y) == x + y - x * y
XorBit(x, y) == (x + y) % 2

IntOp(op, a, b) ==
  CASE op = "add" -> a + b
    [] op = "sub" -> a - b
    [] op = "mul" -> a * b
    [] op = "sdiv" -> Quot(a, b)
    [] op = "srem" -> Rem(a, b)
    [] op = "and" -> Bits(AndBit, a, b)
    [] op = "or" -> Bits(OrBit, a, b)
    [] op = "xor" -> Bits(XorBit, a, b)
    [] op = "shl" -> a * 2^b

BinaryOps == {"add", "sub", "mul", "sdiv", "srem", "and", "or", "xor", "shl"}

CmpTypes == {"eq", "ne", "slt", "sle", "sgt", "sge"}
Compare(cmp, a, b) ==
  CASE cmp = "eq" -> a = b
    [] cmp = "ne" -> a # b
    [] cmp = "slt" -> a < b
    [] cmp = "sle" -> a <= b
    [] cmp = "sgt" -> a > b
    [] cmp = "sge" -> a >= b

(* BinInstr::calculate, CmpInstr::calculate, CastInstr::calculate.         *)
CalculateBinary(op, a, b) == ImmValue(IntOp(op, a.val, b.val), join_imm_type(a.ty, b.ty))
CalculateCompare(cmp, a, b) == ImmBool(Compare(cmp, a.val, b.val))
CalculateCast(ty, a) == cast_to(a, ty[2])
Negate(v) == ImmValue(-v.val, "I32")
=============================================================================
