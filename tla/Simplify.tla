------------------------------ MODULE Simplify ------------------------------
(***************************************************************************)
(* The plain optimizations of a function (src/src/opt_plain.cpp and        *)
(* src/src/ir_block.cpp).  Each operator is one method of BlockedProgram:  *)
(* it takes the function as it is and returns it as the method leaves it.  *)
(* Where the code walks a std::set of pointers the order only decides the  *)
(* order of the pairs of a phi; the model walks in the order of numbers.   *)
(***************************************************************************)
EXTENDS IRMachine

(* opt_join_blocks.  A block that is its own only predecessor is appended  *)
(* to itself for ever.                                                     *)
Join(F, p, b) ==
  LET G == ReplaceLabel(EraseInstr(F, p, Last(F.body[p])), b, p)
  IN erase([G EXCEPT !.body[p] = @ \o G.body[b], !.body[b] = <<>>], b)

RECURSIVE JoinFrom(_, _)
JoinFrom(F, k) ==
  IF k > Len(F.blocks) \/ F.crash THEN F
  ELSE LET b == F.blocks[k]
           p == CHOOSE c \in in_blocks(F, b) : TRUE
       IN IF Cardinality(in_blocks(F, b)) # 1 \/ Cardinality(out_blocks(F, p)) # 1 THEN JoinFrom(F, k + 1)
          ELSE IF p = b THEN [F EXCEPT !.crash = TRUE]
          ELSE JoinFrom(Join(F, p, b), k)
opt_join_blocks(F) == JoinFrom(F, 1)
-----------------------------------------------------------------------------
(* Block::squeeze_out: `target' is no longer reached from b.  The uses of  *)
(* the label are walked while phis leave the list; an emptied position     *)
(* that is still ahead is read as a null pointer.                          *)
RECURSIVE SqueezePhis(_, _, _, _, _)
SqueezePhis(F, b, target, k, n) ==
  IF k > n \/ F.crash THEN F
  ELSE IF k > Len(label_users(F, b)) THEN [F EXCEPT !.crash = TRUE]
  ELSE LET i == F.users[b][k]
       IN IF i \in ToSet(PhisOf(F, target))
          THEN SqueezePhis(PhiRemove(F, i, b), b, target, k + 1, n)
          ELSE SqueezePhis(F, b, target, k + 1, n)

squeeze_out(F, b, selected) ==
  LET x == Back(F, b)
      dropped == x.args[IF selected THEN 3 ELSE 2][2]
      kept == x.args[IF selected THEN 2 ELSE 3][2]
      G == SqueezePhis(F, b, dropped, 1, Len(label_users(F, b)))
  IN IF G.crash THEN G ELSE EraseInstr(push_back(G, b, Br(kept)), b, Last(G.body[b]))

SimplifyBranch(F, b) ==
  IF F.crash \/ F.body[b] = <<>> \/ Back(F, b).op # "brcond" \/ ~IsImm(Back(F, b).args[1]) THEN F
  ELSE squeeze_out(F, b, IsTrue(ImmOf(Back(F, b).args[1])))
opt_simplify_branch(F) == Fold(SimplifyBranch, F, F.blocks)
-----------------------------------------------------------------------------
(* check_block: a block that only stores a constant and goes on.           *)
OnlyStores(F, b) ==
  /\ Len(F.body[b]) = 2
  /\ Back(F, b).op = "br"
  /\ F.ins[F.body[b][1]].op = "store"
  /\ IsImm(F.ins[F.body[b][1]].args[2])
Stored(F, b) == F.ins[F.body[b][1]].args

RemoveSimpleBranch(M, F, b) ==
  LET x == Back(F, b)
      t == x.args[2][2]
      f == x.args[3][2]
      to == Stored(F, t)[1]
      next == Back(F, t).args[1][2]
      Globals == [g \in DOMAIN M.globals |-> M.globals[g].ty]
      ty == Inner(TypeOfOperand(F, Globals, to))
      from == TypeOfOperand(F, Globals, x.args[1])
      F1 == push_back([F EXCEPT !.body[b] = Front(@)], b, Br(next))
      F2 == IF is_same_type(ty, from) THEN F1 ELSE push_behind_end(F1, b, Cast(from, ty, x.args[1]))
      value == IF is_same_type(ty, from) THEN x.args[1] ELSE Ref(F1.next)
      F3 == push_behind_end(F2, b, Store(to, value))
      F4 == erase_from_phi(erase_from_phi(F3, t), f)
  IN IF /\ F.body[b] # <<>> /\ x.op = "brcond"
        /\ OnlyStores(F, t) /\ OnlyStores(F, f)
        /\ Back(F, f).args = Back(F, t).args
        /\ Stored(F, f)[1] = to
        /\ Stored(F, t)[2][2] = 1 /\ Stored(F, f)[2][2] = 0
     THEN Destroy(F4, Last(F.body[b])) ELSE F
opt_remove_simple_branch(M, F) == Fold(LAMBDA G, b : RemoveSimpleBranch(M, G, b), F, F.blocks)
-----------------------------------------------------------------------------
RECURSIVE Reached(_, _, _)
Reached(F, seen, front) ==
  LET new == UNION {out_blocks(F, b) : b \in front} \ seen
  IN IF new = {} THEN seen ELSE Reached(F, seen \cup new, new)

(* The first block stays, reached or not; phis lose the removed blocks     *)
(* before any block goes.                                                  *)
opt_remove_unreachable_block(F) ==
  LET visited == Reached(F, {}, {F.blocks[1]})
      gone == SelectSeq(Tail(F.blocks), LAMBDA b : b \notin visited)
  IN Fold(erase, Fold(erase_from_phi, F, gone), gone)
-----------------------------------------------------------------------------
(* replace_out: a br takes the new target, whatever the old one was.       *)
replace_out(F, p, before, out) ==
  LET i == Last(F.body[p])
      Hits == {k \in DOMAIN F.ins[i].args : F.ins[i].args[k] = Label(before)}
      Change(G, k) == change_operand(G, i, k, Label(out))
  IN IF F.ins[i].op = "br" THEN Change(F, 1) ELSE Fold(Change, F, InOrder(Hits))

connect_branches(F, b) ==
  LET out == CHOOSE c \in out_blocks(F, b) : TRUE
  IN Fold(LAMBDA H, p : replace_out(H, p, b, out), F, InOrder(in_blocks(F, b)))
connect_in_and_out(F, b) ==
  LET out == CHOOSE c \in out_blocks(F, b) : TRUE
      labels == InOrder(in_blocks(F, b))
      G == Fold(LAMBDA H, p : replace_out(H, p, b, out), F, labels)
      Pair(x) == {k \in 1..phi_pairs(x) : phi_label(x, k) = b}
      Rewire(H, i) ==
        LET k == Min(Pair(H.ins[i]))
            v == phi_val(H.ins[i], k)
        IN IF Pair(H.ins[i]) = {} THEN H
           ELSE Fold(LAMBDA K, p : add_incoming(K, i, p, v),
                         change_operand(H, i, 2 * k, Label(Head(labels))), Tail(labels))
  IN Fold(Rewire, G, PhisOf(G, out))

(* A block that only jumps goes, unless one of its predecessors branches.  *)
RECURSIVE RemoveJumps(_, _)
RemoveJumps(F, k) ==
  IF k > Len(F.blocks) THEN F
  ELSE LET b == F.blocks[k]
       IN IF \/ Cardinality(out_blocks(F, b)) # 1 \/ Len(F.body[b]) # 1
             \/ \E p \in in_blocks(F, b) : Back(F, p).op = "brcond"
          THEN RemoveJumps(F, k + 1)
          ELSE RemoveJumps(erase(connect_in_and_out(F, b), b), k)
opt_remove_only_jump_block(F) == RemoveJumps(F, 2)
-----------------------------------------------------------------------------
(* BlockedProgram::is_pure and is_pure_function.                           *)
IsGlobal(o) == o[1] = "global"
RECURSIVE is_pure(_, _)
is_pure(M, f) ==
  LET F == M.funs[f]
      code == {F.ins[i] : i \in Alive(F)}
      Callees == {x.sub : x \in {y \in code : y.op = "call"}}
  IN /\ f \in DOMAIN M.funs
     /\ \A k \in DOMAIN F.params : is_basic_type(F.params[k])
     /\ \A x \in code : x.op \in {"load", "item", "store", "cast", "gep"} => ~IsGlobal(x.args[1])
     /\ \A g \in Callees \ {f} : is_pure(M, g)

CanBeRemoved(M, x) ==
  IF x.op = "call" THEN x.sub \in DOMAIN M.funs /\ is_pure(M, x.sub)
  ELSE x.op \notin {"ret", "br", "brcond", "store", "unreachable", "phi"}

(* Backwards through a block, then everything after its first terminator.  *)
RemoveDeadIn(M, F, b) ==
  LET Sweep(G, i) == IF HasUsers(G, i) \/ ~CanBeRemoved(M, G.ins[i]) THEN G ELSE EraseInstr(G, b, i)
      H == Fold(Sweep, F, Reverse(F.body[b]))
      ends == {k \in DOMAIN H.body[b] : is_terminator(H.ins[H.body[b][k]])}
  IN IF ends = {} THEN H ELSE EraseAll(H, b, SubSeq(H.body[b], Min(ends) + 1, Len(H.body[b])))
opt_remove_dead_code(M, F) == Fold(LAMBDA G, b : RemoveDeadIn(M, G, b), F, F.blocks)
-----------------------------------------------------------------------------
IsBin(F, o, ops) == IsRef(o) /\ F.ins[o[2]].op = "bin" /\ F.ins[o[2]].sub \in ops
(* extractConstant: the constant on the right of one of these operations.  *)
ByConst(F, o, ops) == IsBin(F, o, ops) /\ IsImm(F.ins[o[2]].args[2])
ConstOf(F, o) == F.ins[o[2]].args[2]
LeftOf(F, o) == F.ins[o[2]].args[1]

(* (x * c) / c and (x + c) - c are x.                                      *)
Undone(F, i, op, inverse) ==
  IF /\ ByConst(F, Ref(i), {op}) /\ ByConst(F, LeftOf(F, Ref(i)), {inverse})
     /\ ConstOf(F, Ref(i)) = ConstOf(F, LeftOf(F, Ref(i)))
  THEN replace_self(F, i, LeftOf(F, LeftOf(F, Ref(i)))) ELSE F
divide_after_multiply(F, i) == Undone(F, i, "sdiv", "mul")
subtract_after_add(F, i) == Undone(F, i, "sub", "add")

HasConst(F, i, ops, n) == ByConst(F, Ref(i), ops) /\ ConstOf(F, Ref(i)) = Imm(n, "I32")
identity_operation(F, i) ==
  IF HasConst(F, i, {"mul", "sdiv"}, 1) \/ HasConst(F, i, {"add", "sub", "or", "xor"}, 0)
  THEN replace_self(F, i, LeftOf(F, Ref(i))) ELSE F
times_zero(F, i) ==
  IF HasConst(F, i, {"mul", "and"}, 0) THEN replace_self(F, i, ConstOf(F, Ref(i))) ELSE F

(* Two moves of a pointer by constants become one.                         *)
IsStep(F, o) == IsRef(o) /\ F.ins[o[2]].op = "gep" /\ F.ins[o[2]].sub
unrolled_gep(F, b, i) ==
  LET x == F.ins[i]
      parent == F.ins[x.args[1][2]]
  IN IF /\ IsStep(F, Ref(i)) /\ IsStep(F, x.args[1]) /\ x.args[1][2] \in ToSet(F.body[b])
        /\ IsImm(x.args[2]) /\ IsImm(parent.args[2])
     THEN [F EXCEPT !.ins[i].args = <<parent.args[1], Imm(x.args[2][2] + parent.args[2][2], "I64")>>]
     ELSE F

IsZextBool(F, o) ==
  /\ IsRef(o) /\ F.ins[o[2]].op = "cast" /\ F.ins[o[2]].sub = "zext"
  /\ IsRef(F.ins[o[2]].args[1]) /\ F.ins[F.ins[o[2]].args[1][2]].ty = Basic("I1")
  /\ F.ins[o[2]].ty = Basic("I32")
bitwise_boolean(F, b, i) ==
  LET x == F.ins[i]
      Narrow(k) == F.ins[x.args[k][2]].args[1]
      at == Position(F.body[b], i)
      G == Insert(F, b, at, Bin(x.sub, Basic("I1"), Narrow(1), Narrow(2)))
      H == Insert(G, b, at + 1, Cast(Basic("I1"), x.ty, Ref(F.next)))
  IN IF IsBin(F, Ref(i), {"or", "and", "xor"}) /\ IsZextBool(F, x.args[1]) /\ IsZextBool(F, x.args[2])
     THEN replace_self(H, i, Ref(G.next)) ELSE F

(* The chain of additions of one value, each the only user of the last.    *)
UseCount(F, i) ==
  Cardinality(UNION {{<<j, k>> : k \in {n \in DOMAIN F.ins[j].args : F.ins[j].args[n] = Ref(i)}} : j \in Users(F, i)})
RECURSIVE AddChain(_, _, _)
AddChain(F, i, o) ==
  IF ~IsBin(F, Ref(i), {"add"}) \/ F.ins[i].args[2] # o \/ UseCount(F, i) # 1 THEN <<>>
  ELSE <<i>> \o AddChain(F, CHOOSE j \in Users(F, i) : TRUE, o)

(* Two or more additions of one value become a multiple of it.             *)
AccumulateAt(F, b, i, chain) ==
  LET x == F.ins[i]
      k == Position(F.body[b], i)
      same == x.args[1] = x.args[2]
      n == Len(chain) + IF same THEN 1 ELSE 0
      G == Insert(F, b, k, Bin("mul", Basic("I32"), Imm(n, "I32"), x.args[2]))
      H == Insert(G, b, k + 1, Bin("add", x.ty, x.args[1], Ref(F.next)))
  IN IF same THEN replace_self(G, Last(chain), Ref(F.next)) ELSE replace_self(H, Last(chain), Ref(G.next))
Accumulate(F, b) ==
  LET Visit(p, i) ==
        LET chain == AddChain(p.F, i, p.F.ins[i].args[2])
        IN IF i \in p.merged \/ p.F.ins[i].op # "bin" THEN p
           ELSE [F |-> IF Len(chain) <= 1 THEN p.F ELSE AccumulateAt(p.F, b, i, chain),
                 merged |-> p.merged \cup ToSet(chain)]
  IN Fold(Visit, [F |-> F, merged |-> {}], F.body[b]).F

(* opt_trivial, one block after the other.                                 *)
TrivialInstr(F, b, i) ==
  unrolled_gep(subtract_after_add(times_zero(identity_operation(divide_after_multiply(F, i), i), i), i), b, i)
TrivialIn(F, b) ==
  LET G == Fold(LAMBDA H, i : TrivialInstr(H, b, i), F, F.body[b])
      K == Fold(LAMBDA H, i : bitwise_boolean(H, b, i), G, G.body[b])
  IN Accumulate(K, b)
opt_trivial(F) == Fold(TrivialIn, F, F.blocks)
=============================================================================
