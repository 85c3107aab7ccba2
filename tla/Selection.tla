------------------------------ MODULE Selection ------------------------------
(***************************************************************************)
(* Instruction selection (src/src/convert_ir_to_asm.cpp, translate) and    *)
(* the peephole optimizations (src/src/bkd_peephole.cpp), floats left out. *)
(* A virtual register is named by the operand whose value it holds, or is  *)
(* <<"temp", n>>; <<"a", k>> is the k-th register for arguments.  The      *)
(* address of a variable of the frame is <<"local", index>>, offsets are   *)
(* in bytes.  Func and ConvertBulk together are the record                 *)
(*   F, globals, name  the function and the types of the globals           *)
(*   out, temps        the instructions so far, the temporaries in use     *)
(*   localIndex, localAddress, locals, args    the frame                   *)
(*   thrown            whether std::stoi or unreachable threw              *)
(* A block that is selected is [name, body], the body a sequence of        *)
(* records with the field op.  An immediate has ImmBits bits: 12 of 32,    *)
(* and as much less as IntBits is.                                         *)
(***************************************************************************)
EXTENDS LoopMotion

ImmBits == (3 * IntBits) \div 8
Zero == <<"zero">>
A(k) == <<"a", k>>
ArgRegs == 8
Local(index) == <<"local", index>>

Move(rd, v) == [op |-> "mv", rd |-> rd, v |-> v]
Alu(sub, rd, l, r) == [op |-> "alu", sub |-> sub, rd |-> rd, l |-> l, r |-> r]
Test(sub, rd) == [op |-> "test", sub |-> sub, rd |-> rd]
LoadFrom(rd, base, off) == [op |-> "load", rd |-> rd, base |-> base, off |-> off]
StoreTo(rs, base, off) == [op |-> "store", rs |-> rs, base |-> base, off |-> off]
SpillArg(rs, k, own) == [op |-> "spill", rs |-> rs, k |-> k, own |-> own]
LoadArg(rd, k) == [op |-> "arg", rd |-> rd, k |-> k]
Branch(rel, l, r, to) == [op |-> "branch", sub |-> rel, l |-> l, r |-> r, to |-> to]
J(to) == [op |-> "j", to |-> to]
CallTo(f, tail) == [op |-> "call", sub |-> f, tail |-> tail]
ReturnInstr == [op |-> "ret"]
Prolog == 0
Epilog == -1
Caller == -2
-----------------------------------------------------------------------------
Emit(c, x) == [c EXCEPT !.out = Append(@, x)]
Temp(c) == <<"temp", c.temps>>
allocate_reg(c) == [c EXCEPT !.temps = @ + 1]
InReg(c, r) == [c |-> c, r |-> r]
check_itype_immediate(n) == n \in (-2^(ImmBits - 1))..(2^(ImmBits - 1) - 1)
Fits(o, sign) == IsImm(o) /\ check_itype_immediate(sign * o[2])

li(c, n) ==
  IF n = 0 THEN InReg(c, Zero)
  ELSE InReg(Emit(allocate_reg(c), Move(Temp(c), Imm(n, "I32"))), Temp(c))
(* A number that is no int and the name of a global make std::stoi throw.  *)
toReg(c, o) ==
  IF IsImm(o) THEN [li(c, o[2]) EXCEPT !.c.thrown = @ \/ ~InRange(o[2])]
  ELSE InReg([c EXCEPT !.thrown = @ \/ IsGlobal(o)], o)

OnStack(c, o) == IsRef(o) /\ c.F.ins[o[2]].op = "alloca"
(* localIndex of an alloca that was not translated yet is a new entry, 0.  *)
IndexOf(c, o) == IF o[2] \in DOMAIN c.localIndex THEN c.localIndex[o[2]] ELSE 0
LoadLocalAddress(c, index) ==
  [Emit(allocate_reg(c), Move(Temp(c), Local(index))) EXCEPT !.localAddress = (index :> Temp(c)) @@ @]
load_address(c, o) ==
  LET index == IndexOf(c, o)
  IN IF IsGlobal(o) THEN InReg(Emit(allocate_reg(c), Move(Temp(c), o)), Temp(c))
     ELSE IF ~OnStack(c, o) THEN toReg(c, o)
     ELSE IF index \in DOMAIN c.localAddress THEN InReg(c, c.localAddress[index])
     ELSE InReg(LoadLocalAddress(c, index), Temp(c))
-----------------------------------------------------------------------------
(* Immediate operands where an instruction has room for one.               *)
RITypes == {"add", "and", "or", "xor", "shl", "slt"}
IRTypes == {"add", "and", "or", "xor"}
add_int_binary(c, rd, op, lhs, rhs) ==
  LET L == toReg(c, lhs)
      R == toReg(c, rhs)
      Both == toReg(L.c, rhs)
  IN IF Fits(rhs, 1) /\ op \in RITypes THEN Emit(L.c, Alu(op, rd, L.r, rhs))
     ELSE IF Fits(rhs, -1) /\ op = "sub" THEN Emit(L.c, Alu("add", rd, L.r, Imm(-rhs[2], "I32")))
     ELSE IF Fits(lhs, 1) /\ op \in IRTypes THEN Emit(R.c, Alu(op, rd, R.r, lhs))
     ELSE Emit(Both.c, Alu(op, rd, L.r, Both.r))

convert_return_instr(c, x) ==
  LET R == toReg(c, x.args[1])
  IN Emit(IF x.args = <<>> THEN c ELSE Emit(R.c, Move(A(0), R.r)), J(Epilog))

convert_cast_instr(c, rd, x) ==
  LET R == IF x.sub = "bitcast" THEN load_address(c, x.args[1]) ELSE toReg(c, x.args[1])
  IN IF x.sub \in {"bitcast", "sext", "zext"} THEN Emit(R.c, Move(rd, R.r)) ELSE [c EXCEPT !.thrown = TRUE]

(* The copies for the phis of a block that is about to be entered from b.  *)
LeadingPhis(F, b) ==
  LET n == SelectInSeq(F.body[b], LAMBDA i : F.ins[i].op # "phi")
  IN SubSeq(F.body[b], 1, n - 1)
submit_phi(c, label, b) ==
  LET Copy(d, i) ==
        LET x == d.F.ins[i]
            here == {k \in 1..phi_pairs(x) : phi_label(x, k) = b}
            R == toReg(d, phi_val(x, Min(here)))
        IN IF here = {} THEN d ELSE Emit(R.c, Move(Ref(i), R.r))
  IN Fold(Copy, c, LeadingPhis(c.F, label))

convert_jump_instr(c, b, x) == Emit(submit_phi(c, x.args[1][2], b), J(x.args[1][2]))
(* The copies for both successors, then the branch to the second.          *)
BranchUnless(c, b, x, rel, l, r) ==
  LET then == x.args[2][2]
      else == x.args[3][2]
  IN Emit(Emit(submit_phi(submit_phi(c, then, b), else, b), Branch(negate_cmp(rel), l, r, else)), J(then))
convert_branch_instr(c, b, x) ==
  LET R == toReg(c, x.args[1]) IN BranchUnless(R.c, b, x, "ne", R.r, Zero)

(* A comparison for the branch behind it alone becomes that branch.        *)
convert_cmp_tail(c, b, x) ==
  LET L == toReg(c, x.args[1])
      R == toReg(L.c, x.args[2])
  IN BranchUnless(R.c, b, Back(c.F, b), x.sub, L.r, R.r)
convert_cmp_instr(c, rd, x) ==
  LET Compared(op, l, r) == add_int_binary(c, rd, op, x.args[l], x.args[r])
  IN CASE x.sub = "eq" -> Emit(Compared("xor", 1, 2), Test("seqz", rd))
       [] x.sub = "ne" -> Emit(Compared("xor", 1, 2), Test("snez", rd))
       [] x.sub = "slt" -> Compared("slt", 1, 2)
       [] x.sub = "sge" -> Emit(Compared("slt", 1, 2), Test("seqz", rd))
       [] x.sub = "sgt" -> Compared("slt", 2, 1)
       [] x.sub = "sle" -> Emit(Compared("slt", 2, 1), Test("seqz", rd))

(* The first arguments go to registers, the others to the stack: for a     *)
(* tail call to where the caller's own arguments came from.                *)
convert_call_instr(c, rd, x, tail) ==
  LET Pass(p, o) ==
        LET R == toReg(p.c, o)
        IN IF p.n < ArgRegs
           THEN [p EXCEPT !.c = Emit(R.c, Move(A(p.n), R.r)), !.n = @ + 1]
           ELSE [p EXCEPT !.c = R.c, !.n = @ + 1, !.spilled = Append(@, R.r)]
      P == Fold(Pass, [c |-> c, n |-> 0, spilled |-> <<>>], x.args)
      Spill(d, k) == Emit(d, SpillArg(P.spilled[k], k, tail))
      Q == Fold(Spill, [P.c EXCEPT !.args = Max({@, Len(P.spilled)})], [k \in DOMAIN P.spilled |-> k])
      D == Emit(Q, CallTo(x.sub, tail))
  IN IF tail \/ ~is_integer(x.ty) THEN D ELSE Emit(D, Move(rd, A(0)))
-----------------------------------------------------------------------------
PointedType(c, o) == Inner(TypeOfOperand(c.F, c.globals, o))
(* base plus index times step, unless the index is a constant.             *)
Scaled(c, base, index, step) ==
  LET d == allocate_reg(allocate_reg(c))
  IN InReg(Emit(Emit(d, Alu("scale", Temp(c), index, Imm(step, "I32"))),
                Alu("address", Temp(allocate_reg(c)), base, Temp(c))), Temp(allocate_reg(c)))

(* The register and the offset that a MiniGep stands for.                  *)
parse_mini_gep(c, x) ==
  LET ty == PointedType(c, x.args[1])
      step == bytes_of_type(IF x.sub THEN ty ELSE Inner(ty))
      B == load_address(c, x.args[1])
      forward == x.args[2][2] * step
      L == li(allocate_reg(B.c), forward)
      X == toReg(B.c, x.args[2])
  IN IF ~IsImm(x.args[2]) THEN Scaled(X.c, B.r, X.r, step) @@ [off |-> 0]
     ELSE IF check_itype_immediate(forward) THEN B @@ [off |-> forward]
     ELSE InReg(Emit(L.c, Alu("address", Temp(B.c), B.r, L.r)), Temp(B.c)) @@ [off |-> 0]

OnlyUser(c, o, i) == UseCount(c.F, o[2]) = 1 /\ Users(c.F, o[2]) = {i}
IsGep(c, o) == IsRef(o) /\ c.F.ins[o[2]].op = "gep"
(* Where the load or store i finds the address o.                          *)
AddressOf(c, i, o) ==
  IF IsGlobal(o) THEN InReg(c, o) @@ [off |-> 0]
  ELSE IF OnStack(c, o) THEN InReg(c, Local(IndexOf(c, o))) @@ [off |-> 0]
  ELSE IF IsGep(c, o) /\ OnlyUser(c, o, i) THEN parse_mini_gep(c, c.F.ins[o[2]])
  ELSE toReg(c, o) @@ [off |-> 0]
convert_store_instr(c, i, x) ==
  LET R == toReg(c, x.args[2])
      P == AddressOf(R.c, i, x.args[1])
  IN Emit(P.c, StoreTo(R.r, P.r, P.off))
convert_load_instr(c, i, x) ==
  LET P == AddressOf(c, i, x.args[1]) IN Emit(P.c, LoadFrom(Ref(i), P.r, P.off))

(* A MiniGep that one load or store uses is left to it.                    *)
convert_mini_gep_instr(c, i, x) ==
  LET P == parse_mini_gep(c, x)
      left == UseCount(c.F, i) = 1 /\ \A j \in Users(c.F, i) : c.F.ins[j].op \in {"load", "store"}
  IN IF left THEN c
     ELSE Emit(P.c, IF P.off = 0 THEN Move(Ref(i), P.r) ELSE Alu("address", Ref(i), P.r, Imm(P.off, "I32")))

convert_gep_instr(c, rd, x) ==
  LET Dim(p, o) ==
        LET X == toReg(p.c, o)
            S == Scaled(X.c, p.r, X.r, bytes_of_type(Inner(p.ty)))
        IN IF X.r = Zero THEN [p EXCEPT !.ty = Inner(@)] ELSE S @@ [ty |-> Inner(p.ty)]
      R == Fold(Dim, load_address(c, x.args[1]) @@ [ty |-> PointedType(c, x.args[1])], Tail(x.args))
  IN Emit(R.c, Move(rd, R.r))

convert_alloca_instr(c, i, x) ==
  LET index == Len(c.locals)
      d == [c EXCEPT !.locals = Append(@, Cells(Inner(x.ty))), !.localIndex = (i :> index) @@ @]
  IN IF is_array(Inner(x.ty)) THEN LoadLocalAddress(d, index) ELSE d
-----------------------------------------------------------------------------
(* A variant with a mistake: whoever uses the result.                      *)
ForTerminatorUnused(F, b, k, op) == k + 1 = Len(F.body[b]) /\ Back(F, b).op = op
(* Whether what is behind instruction k of b is its last one and uses its  *)
(* result, with nobody else.                                               *)
ForTerminator(F, b, k, op) ==
  /\ k + 1 = Len(F.body[b]) /\ Back(F, b).op = op
  /\ UseCount(F, F.body[b][k]) = 1 /\ Users(F, F.body[b][k]) = {Last(F.body[b])}

(* Func::translate of an instruction; `tail' ends the block.               *)
TranslateInstr(c, b, k) ==
  LET i == c.F.body[b][k]
      x == c.F.ins[i]
      rd == Ref(i)
      More(d) == [c |-> d, tail |-> FALSE]
      Done(d) == [c |-> d, tail |-> TRUE]
      own == x.sub = c.name /\ ForTerminator(c.F, b, k, "ret")
  IN CASE x.op = "ret" -> Done(convert_return_instr(c, x))
       [] x.op = "br" -> Done(convert_jump_instr(c, b, x))
       [] x.op = "brcond" -> Done(convert_branch_instr(c, b, x))
       [] x.op = "call" -> [c |-> convert_call_instr(c, rd, x, own), tail |-> own]
       [] x.op = "bin" -> More(add_int_binary(c, rd, x.sub, x.args[1], x.args[2]))
       [] x.op = "cast" -> More(convert_cast_instr(c, rd, x))
       [] x.op = "cmp" /\ ForTerminator(c.F, b, k, "brcond") -> Done(convert_cmp_tail(c, b, x))
       [] x.op = "cmp" /\ ~ForTerminator(c.F, b, k, "brcond") -> More(convert_cmp_instr(c, rd, x))
       [] x.op = "store" -> More(convert_store_instr(c, i, x))
       [] x.op = "load" -> More(convert_load_instr(c, i, x))
       [] x.op = "item" -> More(convert_gep_instr(c, rd, x))
       [] x.op = "gep" -> More(convert_mini_gep_instr(c, i, x))
       [] x.op = "alloca" -> More(convert_alloca_instr(c, i, x))
       [] OTHER -> More(c)
TranslateBlock(p, b) ==
  LET Visit(q, k) == IF q.tail THEN q ELSE TranslateInstr(q.c, b, k)
      R == Fold(Visit, [c |-> [p.c EXCEPT !.out = <<>>], tail |-> FALSE], [k \in DOMAIN p.c.F.body[b] |-> k])
  IN [c |-> R.c, blocks |-> Append(p.blocks, [name |-> b, body |-> R.c.out])]

generate_prolog_tail(F) ==
  [k \in DOMAIN F.params |-> IF k <= ArgRegs THEN Move(Arg(k), A(k - 1)) ELSE LoadArg(Arg(k), k - ArgRegs)]

(* Func::translate: the code of a function of M.                           *)
translate(M, f) ==
  LET F == M.funs[f]
      c == [F |-> F, globals |-> [g \in DOMAIN M.globals |-> M.globals[g].ty], name |-> f, out |-> <<>>, temps |-> 0,
            localIndex |-> <<>>, localAddress |-> <<>>, locals |-> <<>>, args |-> 0, thrown |-> FALSE]
      R == Fold(TranslateBlock, [c |-> c, blocks |-> <<>>], F.blocks)
      first == [name |-> Prolog, body |-> Append(generate_prolog_tail(F), J(F.blocks[1]))]
  IN [blocks |-> <<first>> \o R.blocks \o <<[name |-> Epilog, body |-> <<ReturnInstr>>]>>,
      locals |-> R.c.locals, args |-> R.c.args, thrown |-> R.c.thrown]
-----------------------------------------------------------------------------
peephole_mv_self(C) ==
  LET Kept(s) == SelectSeq(s, LAMBDA x : ~(x.op = "mv" /\ x.rd = x.v))
  IN [C EXCEPT !.blocks = [k \in DOMAIN @ |-> [@[k] EXCEPT !.body = Kept(@)]]]
(* The back of a block that an earlier round emptied is the list's own     *)
(* header, no jump to the next block.                                      *)
peephole_remove_j(C) ==
  LET Idle(k) == /\ k < Len(C.blocks) /\ C.blocks[k].body # <<>>
                 /\ Last(C.blocks[k].body) = J(C.blocks[k + 1].name)
  IN [C EXCEPT !.blocks = [k \in DOMAIN @ |-> IF Idle(k) THEN [@[k] EXCEPT !.body = Front(@)] ELSE @[k]]]
peephole(C) == peephole_remove_j(peephole_mv_self(C))
=============================================================================
