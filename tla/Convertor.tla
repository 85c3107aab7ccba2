------------------------------ MODULE Convertor ------------------------------
(***************************************************************************)
(* AstToIr::Convertor (src/src/convert_ast_to_ir.cpp): syntax trees to     *)
(* intermediate code.  C is the state of the object:                       *)
(*   ctx, init   _cur_ctx and _init_ctx, the functions being written       *)
(*   env, cenv   _env and _const_env, stacks of scopes                     *)
(*   loops       _loop_env_stack                                           *)
(*   globals, funs, order, sigs   the module and the known functions       *)
(*   v, end      the value and the is_end an operation returned            *)
(*   err         whether throw_error was reached                           *)
(* A context is [next, ins, code, params, ret]: code is the one list of    *)
(* instructions, labels included, that end_function cuts into blocks.      *)
(***************************************************************************)
EXTENDS SysY

Builtins == [getint |-> [args |-> <<>>, ret |-> Basic("I32")],
             putint |-> [args |-> <<Basic("I32")>>, ret |-> Void],
             __builtin_fill_zero |-> [args |-> <<PointerTo(Basic("I8")), Basic("I32")>>, ret |-> Void],
             __buildin_initializer |-> [args |-> <<>>, ret |-> Void]]
BUILTIN_INITIALIZER == "__buildin_initializer"

Throw(C) == [C EXCEPT !.err = TRUE, !.v = Imm(0, "I32")]
With_v(C, v) == [C EXCEPT !.v = v]
Ty(C, o) == TypeOfOperand(C.ctx, [g \in DOMAIN C.globals |-> C.globals[g].ty], o)

add_instr(C, x) ==
  LET n == C.ctx.next
  IN IF C.err THEN C
     ELSE [C EXCEPT !.ctx.ins = (n :> x) @@ @, !.ctx.code = Append(@, n), !.ctx.next = n + 1,
                    !.v = Ref(n)]
(* The k-th of the labels that are made now and placed later.              *)
NewLabel(C, k) == C.ctx.next + k - 1
Reserve(C, n) == [C EXCEPT !.ctx.next = @ + n]
add_label(C, l) ==
  IF C.err THEN C
  ELSE [C EXCEPT !.ctx.ins = (l :> Ins("label", "", Void, <<>>)) @@ @, !.ctx.code = Append(@, l)]
current_block_end(C) == is_terminator(C.ctx.ins[Last(C.ctx.code)])
AddBrIfOpen(C, l) == IF C.err \/ current_block_end(C) THEN C ELSE add_instr(C, Br(l))
add_load(C, p) == add_instr(C, Load(p, Inner(Ty(C, p))))
add_gep(C, p, n, in_this_dim) == add_instr(C, MiniGep(Ty(C, p), p, n, in_this_dim))
-----------------------------------------------------------------------------
(* EnvWrapper: a name means what the innermost scope that has it says.     *)
push_env(stack) == Append(stack, <<>>)
env_count(stack, s) == \E k \in DOMAIN stack : s \in DOMAIN stack[k]
env_find(stack, s) == stack[Max({k \in DOMAIN stack : s \in DOMAIN stack[k]})][s]
env_set(stack, s, x) == [stack EXCEPT ![Len(stack)] = (s :> x) @@ @]
PushScopes(C) == [C EXCEPT !.env = push_env(@), !.cenv = push_env(@)]
EndScopes(C) == [C EXCEPT !.env = Front(@), !.cenv = Front(@)]

find_left_value(C, s, not_const) ==
  LET g == {k \in DOMAIN C.globals : C.globals[k].name = s}
  IN IF env_count(C.env, s)
     THEN IF not_const /\ env_find(C.env, s).is_const THEN Throw(C)
          ELSE With_v(C, env_find(C.env, s).instr)
     ELSE IF g = {} \/ (not_const /\ C.globals[Min(g)].is_const) THEN Throw(C)
     ELSE With_v(C, Glob(Min(g)))

cast_to_type(C, v, ty) ==
  LET from == Ty(C, v)
      Pointers == is_pointer(ty) /\ is_pointer(from)
  IN IF C.err \/ is_same_type(from, ty) THEN With_v(C, v)
     ELSE IF Pointers /\ is_pointer(Inner(from)) /\ is_same_type(Inner(ty), Inner(Inner(from)))
     THEN add_load(C, v)
     ELSE IF Pointers /\ is_array(Inner(from)) /\ is_same_type(Inner(ty), Inner(Inner(from)))
     THEN add_gep(C, v, Imm(0, "I32"), FALSE)
     ELSE IF ~is_castable(from, ty) THEN Throw(C)
     ELSE IF is_basic_type(from) /\ is_basic_type(ty) /\ ty[2] \in {"I1", "U1"}
     THEN add_instr(C, Cmp("ne", v, Imm(0, from[2])))
     ELSE add_instr(C, Cast(from, ty, v))
to_bool(C) == cast_to_type(C, C.v, Basic("I1"))
-----------------------------------------------------------------------------
ConstOps == [add |-> "add", sub |-> "sub", mul |-> "mul", div |-> "sdiv", rem |-> "srem"]

(* Numbers known at compile time; NotConst where the code throws.          *)
NotConst == ImmValue(0, "none")
RECURSIVE constant_eval(_, _)
constant_eval(C, node) ==
  LET l == constant_eval(C, node.lhs)
      r == constant_eval(C, node.rhs)
      c == constant_eval(C, node.ch)
  IN CASE node.type = "sym" ->
            IF env_count(C.cenv, node.sym) THEN env_find(C.cenv, node.sym) ELSE NotConst
       [] node.type = "imm" -> ImmValue(node.imm, "I32")
       [] node.type = "unary" ->
            IF c = NotConst \/ node.op = "pos" THEN c
            ELSE IF node.op = "not" THEN ImmBool(c.val = 0) ELSE Negate(c)
       [] node.type = "binary" ->
            IF l = NotConst \/ r = NotConst THEN NotConst
            ELSE IF node.op \in DOMAIN ConstOps THEN CalculateBinary(ConstOps[node.op], l, r)
            ELSE IF node.op \in DOMAIN Relation THEN CalculateCompare(Relation[node.op], l, r)
            ELSE ImmBool(IF node.op = "and" THEN IsTrue(l) /\ IsTrue(r) ELSE IsTrue(l) \/ IsTrue(r))
       [] OTHER -> NotConst

(* The constant x has to be known where D is reached.                      *)
Demand(D, x) == IF x = NotConst THEN Throw(D) ELSE D

RECURSIVE analyze_type(_, _)
analyze_type(C, n) ==
  CASE n.type = "array_type" -> ArrayOf(analyze_type(C, n.n), constant_eval(C, n.index).val)
    [] n.type = "pointer_type" -> PointerTo(analyze_type(C, n.n))
    [] n.type = "basic_type" -> n.ty
-----------------------------------------------------------------------------
RECURSIVE analyze_value(_, _, _), analyze_left_value(_, _, _), Indexed(_, _), CallArgs(_, _, _, _)

(* generate_and, generate_or: both sides are evaluated, and two integers   *)
(* of one type are combined bit by bit.                                    *)
generate_bitwise(C, op, A, B) ==
  LET Ca == analyze_value(C, A, FALSE)
      Cb == analyze_value(Ca, B, FALSE)
      a == Ca.v
      b == Cb.v
      same == is_same_type(Ty(Cb, a), Ty(Cb, b)) /\ is_integer(Ty(Cb, a))
      Cc == IF same THEN Cb ELSE cast_to_type(cast_to_type(Cb, a, Basic("I1")), b, Basic("I1"))
  IN IF Cb.err THEN Cb ELSE add_instr(Cc, Bin(op, Ty(Cb, a), a, b))

(* generate_shortcut_and, generate_shortcut_or: the right side is only     *)
(* evaluated when the left one does not decide, and lands in a0.           *)
generate_shortcut(C, op, A, B) ==
  LET C1 == to_bool(analyze_value(C, A, FALSE))
      C2 == add_instr(C1, Alloca(Basic("I1")))
      L1 == NewLabel(C2, 1)
      L2 == NewLabel(C2, 2)
      L3 == NewLabel(C2, 3)
      C3 == add_instr(Reserve(C2, 3), IF op = "and" THEN BrCond(C1.v, L2, L1) ELSE BrCond(C1.v, L1, L2))
      C4 == add_instr(add_label(C3, L1), Store(C2.v, Imm(IF op = "and" THEN 0 ELSE 1, "I1")))
      C5 == add_label(add_instr(C4, Br(L3)), L2)
      C6 == to_bool(analyze_value(C5, B, FALSE))
      C7 == add_instr(add_instr(C6, Store(C2.v, C6.v)), Br(L3))
  IN IF C6.err THEN C6 ELSE add_load(add_label(C7, L3), C2.v)

analyze_opr(C, root) ==
  LET Cl == analyze_value(C, root.lhs, FALSE)
      Cr == analyze_value(Cl, root.rhs, FALSE)
      ty == join_type(Ty(Cr, Cl.v), Ty(Cr, Cr.v))
      Ca == cast_to_type(Cr, Cl.v, ty)
      Cb == cast_to_type(Ca, Cr.v, ty)
  IN IF root.op \in {"and", "or"}
     THEN IF root.rhs.type = "sym" THEN generate_bitwise(C, root.op, root.lhs, root.rhs)
          ELSE generate_shortcut(C, root.op, root.lhs, root.rhs)
     ELSE IF Cr.err THEN Cr
     ELSE IF ty = NoType THEN Throw(Cr)
     ELSE add_instr(Cb, IF root.op \in DOMAIN ConstOps THEN Bin(ConstOps[root.op], ty, Ca.v, Cb.v)
                        ELSE Cmp(Relation[root.op], Ca.v, Cb.v))

(* The indices after the first; C.v is the address so far.                 *)
Indexed(C, index) ==
  IF C.err \/ index = <<>> THEN C
  ELSE LET Ci == analyze_value(C, Head(index), FALSE)
       IN IF Ci.err \/ ~is_integer(Ty(Ci, Ci.v)) THEN Throw(Ci)
          ELSE Indexed(add_gep(Ci, C.v, Ci.v, FALSE), Tail(index))

analyze_left_value(C, root, not_const) ==
  CASE root.type = "item" ->
         LET Cv == analyze_value(C, root.v, not_const)
             direct == is_array(Inner(Ty(Cv, Cv.v)))
             Cp == IF direct THEN Cv ELSE add_load(Cv, Cv.v)
             Ci == analyze_value(Cp, root.index[1], FALSE)
         IN IF Cv.err \/ ~is_pointer(Ty(Cv, Cv.v)) THEN Throw(Cv)
            ELSE IF Ci.err THEN Ci
            ELSE Indexed(add_gep(Ci, Cp.v, Ci.v, ~direct), Tail(root.index))
    [] root.type = "sym" -> find_left_value(C, root.sym, not_const)
    [] OTHER -> Throw(C)

CallArgs(C, types, ch, args) ==
  IF C.err \/ ch = <<>> THEN [C |-> C, args |-> args]
  ELSE LET Ca == analyze_value(C, Head(ch), FALSE)
           Cc == cast_to_type(Ca, Ca.v, Head(types))
       IN IF Ca.err THEN [C |-> Ca, args |-> args]
          ELSE CallArgs(Cc, Tail(types), Tail(ch), Append(args, Cc.v))

analyze_value(C, root, not_const) ==
  IF C.err THEN C
  ELSE CASE root.type \in {"item", "sym"} ->
              LET Cl == analyze_left_value(C, root, not_const)
              IN IF Cl.err \/ ~is_basic_type(Inner(Ty(Cl, Cl.v))) THEN Cl ELSE add_load(Cl, Cl.v)
         [] root.type = "binary" -> analyze_opr(C, root)
         [] root.type = "unary" ->
              LET Cv == analyze_value(C, root.ch, FALSE)
                  ty == Ty(Cv, Cv.v)
                  joined == join_type(ty, Basic("I32"))
                  zero == cast_to_type(Cv, Imm(0, "I32"), joined)
                  Cn == cast_to_type(zero, Cv.v, joined)
              IN IF Cv.err \/ root.op = "pos" THEN Cv
                 ELSE IF root.op = "not" THEN add_instr(Cv, Cmp("eq", Cv.v, Imm(0, ty[2])))
                 ELSE add_instr(Cn, Bin("sub", joined, zero.v, Cn.v))
         [] root.type = "imm" -> With_v(C, Imm(root.imm, "I32"))
         [] root.type = "call" ->
              LET sig == C.sigs[root.name]
                  R == CallArgs(C, sig.args, root.ch, <<>>)
              IN IF root.name \notin DOMAIN C.sigs \/ Len(sig.args) # Len(root.ch) THEN Throw(C)
                 ELSE add_instr(R.C, Ins("call", root.name, sig.ret, R.args))
         [] OTHER -> Throw(C)
-----------------------------------------------------------------------------
(* flatten: the initializers of the elements, None where one is missing;   *)
(* what the outermost list leaves out at the end is not there at all.      *)
RECURSIVE flatten(_, _, _), FlattenElems(_, _, _, _, _)
FlattenElems(ty, nums, root, k, flat) ==
  IF k = 0 \/ (nums = <<>> /\ root) THEN [flat |-> flat, rest |-> nums]
  ELSE IF is_basic_type(ty)
  THEN FlattenElems(ty, IF nums = <<>> THEN nums ELSE Tail(nums), root, k - 1,
                    Append(flat, IF nums = <<>> THEN None ELSE Head(nums)))
  ELSE LET nested == nums # <<>> /\ Head(nums).type = "array_val"
           R == IF nested THEN flatten(ty, Head(nums).nums, FALSE) ELSE flatten(ty, nums, root)
       IN FlattenElems(ty, IF nested THEN Tail(nums) ELSE R.rest, root, k - 1, flat \o R.flat)
flatten(ty, nums, root) == FlattenElems(Inner(ty), nums, root, ty[3], <<>>)

(* The indices of the n-th element, in the order the elements are walked.  *)
RECURSIVE ElementIndex(_, _)
ElementIndex(ty, n) ==
  IF ~is_array(ty) THEN <<>>
  ELSE <<Imm(n \div Cells(Inner(ty)), "I32")>> \o ElementIndex(Inner(ty), n % Cells(Inner(ty)))

RECURSIVE CopyElements(_, _, _, _, _, _)
CopyElements(C, addr, ty, flat, n, constant) ==
  IF C.err \/ n = Len(flat) THEN C
  ELSE LET cur == flat[n + 1]
           val == constant_eval(C, cur)
           Cv == IF constant THEN With_v(C, OperandOf(val)) ELSE analyze_value(C, cur, FALSE)
           Ci == add_instr(Cv, Item(PointerTo(ty), addr, ElementIndex(ty, n)))
           Cc == cast_to_type(Ci, Cv.v, Basic("I32"))
           Cs == IF IsNone(cur) THEN C
                 ELSE IF constant /\ ~IsTrue(val) THEN Demand(C, val)
                 ELSE IF Cv.err THEN Cv ELSE add_instr(Cc, Store(Ci.v, Cc.v))
       IN CopyElements(Cs, addr, ty, flat, n + 1, constant)
copy_to_array(C, addr, ty, node, constant) ==
  CopyElements(C, addr, ty, flatten(ty, node.nums, TRUE).flat, 0, constant)
-----------------------------------------------------------------------------
RECURSIVE analyze_statement_node(_, _), AnalyzeBody(_, _)

RECURSIVE try_get_lv(_)
try_get_lv(p) ==
  IF p.type = "assign" THEN p
  ELSE IF p.type = "block" /\ Len(p.body) = 1 THEN try_get_lv(p.body[1])
  ELSE None

(* 1 for `1 else 0', 0 for `0 else 1', -1 when the if is not simple.       *)
use_which(a, b) ==
  IF \/ IsNone(a) \/ IsNone(b)
     \/ a.lv.type # "sym" \/ b.lv # a.lv
     \/ a.val.type # "imm" \/ b.val.type # "imm"
     \/ {a.val.imm, b.val.imm} # {0, 1}
  THEN -1 ELSE a.val.imm

(* to_basic_type of the address itself fails when the condition is to be   *)
(* negated.                                                                *)
analyze_simple_if(C, cond, use_eq) ==
  LET Cc == to_bool(analyze_value(C, cond, FALSE))
      Ct == cast_to_type(Cc, Cc.v, Inner(Ty(C, C.v)))
  IN IF use_eq = 0 THEN Throw(C) ELSE add_instr(Ct, Store(C.v, Ct.v))

CondBranch(C, cond, t, f) ==
  LET Cc == to_bool(analyze_value(C, cond, FALSE)) IN add_instr(Cc, BrCond(Cc.v, t, f))

analyze_if(C, r) ==
  LET which == IF IsNone(r.elsed) THEN -1 ELSE use_which(try_get_lv(r.body), try_get_lv(r.elsed))
      if_begin == NewLabel(C, 1)
      if_end == NewLabel(C, 2)
      if_else_end == NewLabel(C, 3)
      Cc == add_label(CondBranch(Reserve(C, 3), r.cond, if_begin, if_end), if_begin)
      Cb == analyze_statement_node(Cc, r.body)
      Ce == analyze_statement_node(add_label(AddBrIfOpen(Cb, if_else_end), if_end), r.elsed)
      need_label == ~current_block_end(Cb) \/ ~current_block_end(Ce)
      Cj == AddBrIfOpen(Ce, if_else_end)
  IN IF which # -1
     THEN [analyze_simple_if(analyze_left_value(C, try_get_lv(r.body).lv, FALSE), r.cond, which)
             EXCEPT !.end = FALSE]
     ELSE IF Cb.err THEN Cb
     ELSE IF IsNone(r.elsed) THEN [add_label(AddBrIfOpen(Cb, if_end), if_end) EXCEPT !.end = FALSE]
     ELSE IF Ce.err THEN Ce
     ELSE IF need_label THEN [add_label(Cj, if_else_end) EXCEPT !.end = FALSE]
     ELSE [Cj EXCEPT !.end = TRUE]

analyze_def(C, r) ==
  LET ty == analyze_type(C, r.ty)
      Ca == add_instr(C, Alloca(ty))
      Declared(D) == [D EXCEPT !.env = env_set(@, r.sym, [instr |-> Ca.v, is_const |-> r.const])]
      Cp == cast_to_type(Declared(Ca), Ca.v, PointerTo(Basic("I8")))
      Cz == add_instr(Cp, Ins("call", "__builtin_fill_zero", Void, <<Cp.v, Imm(bytes_of_type(ty) \div 4, "I32")>>))
      known == constant_eval(C, r.val)
      Ck == IF r.const THEN [Demand(Ca, known) EXCEPT !.cenv = env_set(@, r.sym, cast_to(known, ty[2]))] ELSE Ca
      Cv == analyze_value(Ck, r.val, FALSE)
      Cc == cast_to_type(Cv, Cv.v, ty)
  IN IF is_array(ty)
     THEN IF IsNone(r.val) THEN Declared(Ca) ELSE copy_to_array(Cz, Ca.v, ty, r.val, FALSE)
     ELSE IF IsNone(r.val) THEN Declared(Ca)
     ELSE IF Cv.err THEN Cv ELSE Declared(add_instr(Cc, Store(Ca.v, Cc.v)))

analyze_while(C, r) ==
  LET while_cond == NewLabel(C, 1)
      while_begin == NewLabel(C, 2)
      while_end == NewLabel(C, 3)
      C1 == add_label(add_instr(Reserve(C, 3), Br(while_cond)), while_cond)
      C2 == add_label(CondBranch(C1, r.cond, while_begin, while_end), while_begin)
      C3 == [C2 EXCEPT !.loops = Append(@, [begin |-> while_cond, end |-> while_end])]
      C4 == AddBrIfOpen(analyze_statement_node(C3, r.body), while_cond)
  IN [add_label(C4, while_end) EXCEPT !.loops = C.loops]

Jump(C, l) == add_label(Reserve(add_instr(C, Br(l)), 1), C.ctx.next + 1)

analyze_statement_node(D, root) ==
  LET C == [D EXCEPT !.end = FALSE]
  IN IF C.err THEN C
     ELSE CASE root.type = "assign" ->
                 LET Cl == analyze_left_value(C, root.lv, TRUE)
                     Cv == analyze_value(Cl, root.val, FALSE)
                     Cc == cast_to_type(Cv, Cv.v, Inner(Ty(Cl, Cl.v)))
                 IN IF Cl.err \/ is_array(Inner(Ty(Cl, Cl.v))) THEN Throw(Cl)
                    ELSE IF Cv.err THEN Cv ELSE add_instr(Cc, Store(Cl.v, Cc.v))
            [] root.type = "def_var" -> analyze_def(C, root)
            [] root.type = "if" -> analyze_if(C, root)
            [] root.type = "while" -> [analyze_while(C, root) EXCEPT !.end = FALSE]
            [] root.type = "break" -> IF C.loops = <<>> THEN Throw(C) ELSE Jump(C, Last(C.loops).end)
            [] root.type = "continue" -> IF C.loops = <<>> THEN Throw(C) ELSE Jump(C, Last(C.loops).begin)
            [] root.type = "return" ->
                 LET Cv == analyze_value(C, root.ret, FALSE)
                     Cc == cast_to_type(Cv, Cv.v, C.ctx.ret)
                 IN IF IsNone(root.ret) THEN [add_instr(C, Ins("ret", "", Void, <<>>)) EXCEPT !.end = TRUE]
                    ELSE IF Cv.err THEN Cv
                    ELSE [add_instr(Cc, Ins("ret", "", Void, <<Cc.v>>)) EXCEPT !.end = TRUE]
            [] root.type = "block" -> EndScopes(AnalyzeBody(PushScopes(C), root.body))
            [] OTHER -> analyze_value(C, root, FALSE)

(* The statements of a block, up to one after which nothing can follow.    *)
AnalyzeBody(C, body) ==
  IF C.err \/ C.end \/ body = <<>> THEN C
  ELSE AnalyzeBody(analyze_statement_node(C, Head(body)), Tail(body))
-----------------------------------------------------------------------------
EmptyContext(params, ret) == [next |-> 2, ins |-> (1 :> Ins("label", "", Void, <<>>)), code |-> <<1>>,
                              params |-> params, ret |-> ret]

(* FunctionContext::init: each parameter gets a place of its own.          *)
RECURSIVE StoreParams(_, _)
StoreParams(C, args) ==
  IF args = <<>> THEN C
  ELSE LET k == Len(C.ctx.params) - Len(args) + 1
           Ca == add_instr(C, Alloca(C.ctx.params[k]))
           Cs == add_instr(Ca, Store(Ca.v, Arg(k)))
       IN StoreParams([Cs EXCEPT !.env = env_set(@, Head(args).sym, [instr |-> Ca.v, is_const |-> FALSE])], Tail(args))

(* FuncDefined::end_function and BlockedProgram::initialize: close the     *)
(* last block, gather the allocas in a block of their own in front, and    *)
(* cut the list into blocks at the labels.                                 *)
end_function(ctx) ==
  LET IsA(op, i) == ctx.ins[i].op = op
      n == ctx.next
      last == IF IsA("ret", Last(ctx.code)) THEN <<>>
              ELSE <<Ins(IF ctx.ret = Void THEN "ret" ELSE "unreachable", "", Void, <<>>)>>
      entry == n + 1
      allocas == SelectSeq(ctx.code, LAMBDA i : IsA("alloca", i))
      rest == SelectSeq(ctx.code, LAMBDA i : ~IsA("alloca", i)) \o (IF last = <<>> THEN <<>> ELSE <<n>>)
      labels == SelectSeq(rest, LAMBDA i : i # n /\ IsA("label", i))
      jump == n + 2
      ins == (IF last = <<>> THEN <<>> ELSE (n :> last[1])) @@ (jump :> Br(Head(rest))) @@ ctx.ins
      Code(l) == LET from == Position(rest, l)
                     after == {k \in (from + 1)..Len(rest) : rest[k] \in ToSet(labels)}
                 IN SubSeq(rest, from + 1, (IF after = {} THEN Len(rest) + 1 ELSE Min(after)) - 1)
      alive == DOMAIN ins \ ToSet(labels)
      F == [blocks |-> <<entry>> \o labels,
            body |-> [b \in {entry} \cup ToSet(labels) |-> IF b = entry THEN Append(allocas, jump) ELSE Code(b)],
            ins |-> [i \in alive |-> ins[i]],
            users |-> [b \in {entry} \cup ToSet(labels) |-> <<>>],
            params |-> ctx.params, ret |-> ctx.ret, next |-> n + 3, crash |-> FALSE]
  IN Fold(LAMBDA G, i : UseAll(G, i, G.ins[i].args), F, InOrder(alive))

generate_function(C, root) ==
  LET C0 == PushScopes(C)
      types == [k \in DOMAIN root.args |-> analyze_type(C0, root.args[k].ty)]
      ret == analyze_type(C0, root.ty)
      C1 == StoreParams([C0 EXCEPT !.ctx = EmptyContext(types, ret),
                                   !.sigs = (root.sym :> [args |-> types, ret |-> ret]) @@ @], root.args)
      C2 == IF root.sym = "main" THEN analyze_statement_node(C1, CallNode(BUILTIN_INITIALIZER, <<>>)) ELSE C1
      C3 == analyze_statement_node(C2, root.body)
      C4 == IF root.sym = "main" THEN analyze_statement_node(C3, ReturnNode(ImmNode(0))) ELSE C3
  IN IF C4.err THEN C4
     ELSE EndScopes([C4 EXCEPT !.funs = (root.sym :> end_function(C4.ctx)) @@ @, !.order = Append(@, root.sym)])

(* value_flatten: elements an initializer leaves out stay zero.            *)
from_array_def(C, node, ty) ==
  LET flat == flatten(ty, node.nums, TRUE).flat
  IN [n \in 1..Cells(ty) |->
        IF n > Len(flat) \/ IsNone(flat[n]) THEN 0 ELSE constant_eval(C, flat[n]).val]

(* add_initialization writes into the context of the initializer.          *)
add_initialization(C, g, ty, node) ==
  LET R == copy_to_array([C EXCEPT !.ctx = C.init], Glob(g), ty, node, TRUE)
  IN [R EXCEPT !.init = R.ctx, !.ctx = C.ctx]

generate_global_var(C, root) ==
  LET ty == analyze_type(C, root.ty)
      known == constant_eval(C, root.val)
      imm == cast_to(known, ty[2])
      zero == ImmValue(0, "I32")
      Global(init) == [name |-> root.sym, ty |-> ty, is_const |-> root.const, init |-> init]
      Add(D, init) == [D EXCEPT !.globals = Append(@, Global(init))]
      Known(D, x) == IF root.const THEN [D EXCEPT !.cenv = env_set(@, root.sym, x)] ELSE D
      g == Len(C.globals) + 1
  IN IF is_basic_type(ty)
     THEN IF IsNone(root.val) THEN Known(Add(C, <<0>>), zero) ELSE Known(Add(Demand(C, known), <<imm.val>>), imm)
     ELSE IF IsNone(root.val) THEN Add(C, [n \in 1..Cells(ty) |-> 0])
     ELSE add_initialization(Add(C, from_array_def(C, root.val, ty)), g, ty, root.val)

generate_single(C, root) ==
  IF root.type = "def_func" THEN generate_function(C, root) ELSE generate_global_var(C, root)

(* The state generate starts from; the constants at file scope.            *)
NewConvertor ==
  [ctx |-> EmptyContext(<<>>, Void), init |-> EmptyContext(<<>>, Void), env |-> <<>>, cenv |-> <<<<>>>>,
   loops |-> <<>>, globals |-> <<>>, funs |-> <<>>, order |-> <<BUILTIN_INITIALIZER>>, sigs |-> Builtins,
   v |-> Imm(0, "I32"), end |-> FALSE, err |-> FALSE]

(* The module: the initializer is closed last.                             *)
ModuleOf(C) ==
  [globals |-> C.globals, order |-> C.order, inlined |-> 0, cached |-> <<>>,
   funs |-> (BUILTIN_INITIALIZER :> end_function(C.init)) @@ C.funs]
=============================================================================
