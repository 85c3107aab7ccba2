-------------------------------- MODULE SysY --------------------------------
(***************************************************************************)
(* The source language: syntax trees (src/include/ast_node.h) and what a   *)
(* program means.  The meaning is the reference the compiler is checked    *)
(* against; it follows the rules of the language and not the compiler.     *)
(* What C leaves undefined (reading what was not written, leaving an       *)
(* array, overflow, division by zero, no value returned where one is used) *)
(* makes the whole run "undefined", and promises nothing.                  *)
(***************************************************************************)
EXTENDS IRMachine

None == [type |-> "none"]
IsNone(n) == n.type = "none"
ImmNode(n) == [type |-> "imm", imm |-> n]
SymNode(s) == [type |-> "sym", sym |-> s]
BinaryNode(op, l, r) == [type |-> "binary", op |-> op, lhs |-> l, rhs |-> r]
UnaryNode(op, e) == [type |-> "unary", op |-> op, ch |-> e]
CallNode(f, args) == [type |-> "call", name |-> f, ch |-> args]
ItemNode(v, index) == [type |-> "item", v |-> v, index |-> index]
ArrayDefNode(nums) == [type |-> "array_val", nums |-> nums]
BasicTypeNode(ty) == [type |-> "basic_type", ty |-> ty]
PointerTypeNode(n) == [type |-> "pointer_type", n |-> n]
ArrayTypeNode(n, index) == [type |-> "array_type", n |-> n, index |-> index]
AssignNode(lv, val) == [type |-> "assign", lv |-> lv, val |-> val]
VarDefNode(s, ty, val, const) == [type |-> "def_var", sym |-> s, ty |-> ty, val |-> val, const |-> const]
FuncDefNode(f, ty, args, body) == [type |-> "def_func", sym |-> f, ty |-> ty, args |-> args, body |-> body]
BlockNode(body) == [type |-> "block", body |-> body]
IfNode(c, body, elsed) == [type |-> "if", cond |-> c, body |-> body, elsed |-> elsed]
WhileNode(c, body) == [type |-> "while", cond |-> c, body |-> body]
BreakNode == [type |-> "break"]
ContinueNode == [type |-> "continue"]
ReturnNode(e) == [type |-> "return", ret |-> e]
Int32 == BasicTypeNode(Basic("I32"))
IntArray(n) == ArrayTypeNode(Int32, ImmNode(n))
-----------------------------------------------------------------------------
(* The state of a run: that of IRMachine with the value v of the last      *)
(* expression and ctl, how the last statement ended.                       *)
Undefined(S) == [S EXCEPT !.st = "undefined"]
With(S, v) == [S EXCEPT !.v = v]
Checked(S, n) == IF InRange(n) THEN With(S, Num(n)) ELSE Undefined(S)
Cond(p) == Num(IF p THEN 1 ELSE 0)

Arithmetic == [add |-> "add", sub |-> "sub", mul |-> "mul", div |-> "sdiv", rem |-> "srem"]
Relation == [eq |-> "eq", ne |-> "ne", lt |-> "slt", le |-> "sle", gt |-> "sgt", ge |-> "sge"]

Apply(op, a, b, S) ==
  IF ~IsNum(a) \/ ~IsNum(b) \/ (op \in {"div", "rem"} /\ b[2] = 0) THEN Undefined(S)
  ELSE IF op \in DOMAIN Arithmetic THEN Checked(S, IntOp(Arithmetic[op], a[2], b[2]))
  ELSE With(S, Cond(Compare(Relation[op], a[2], b[2])))

(* The numbers of an initializer list, filled up as C fills an array: a    *)
(* nested list starts the sub-array it stands for, and what is left is 0.  *)
RECURSIVE Filled(_, _), Elements(_, _, _)
Elements(ty, nums, k) ==
  IF k = 0 THEN <<>>
  ELSE IF is_basic_type(ty)
  THEN <<IF nums = <<>> THEN None ELSE Head(nums)>>
       \o Elements(ty, IF nums = <<>> THEN nums ELSE Tail(nums), k - 1)
  ELSE IF nums # <<>> /\ Head(nums).type = "array_val"
  THEN Filled(ty, Head(nums)) \o Elements(ty, Tail(nums), k - 1)
  ELSE LET n == Min({Cells(ty), Len(nums)})
       IN Filled(ty, ArrayDefNode(SubSeq(nums, 1, n)))
          \o Elements(ty, SubSeq(nums, n + 1, Len(nums)), k - 1)
Filled(ty, e) == Elements(Inner(ty), e.nums, ty[3])

RECURSIVE Value(_, _, _, _), Values(_, _, _, _), LeftValue(_, _, _, _), Meant(_, _, _, _),
          MeantSeq(_, _, _, _), Turn(_, _, _, _), TypeMeant(_, _, _, _), FillCells(_, _, _, _, _)

(* The address of a left value, with the type of what is there.            *)
LeftValue(P, env, e, S) ==
  IF e.type = "sym" THEN [With(S, env[e.sym].at) EXCEPT !.ty = env[e.sym].ty]
  ELSE LET var == env[e.v.sym]
           base == IF is_pointer(var.ty) THEN S.mem[var.at[1]][var.at[2] + 1] ELSE var.at
           R == Values(P, env, e.index, S)
           ty == IF is_pointer(var.ty) THEN ArrayOf(Inner(var.ty), 0) ELSE var.ty
       IN IF R.st # "run" THEN R
          ELSE [With(R, <<base[1], base[2] + Offset(ty, R.vs)>>) EXCEPT !.ty = ex_shell(ty, Len(R.vs))]

Values(P, env, es, S) ==
  IF es = <<>> THEN [S EXCEPT !.vs = <<>>]
  ELSE LET R == Value(P, env, Head(es), S)
           Q == Values(P, env, Tail(es), R)
       IN IF R.st # "run" THEN R ELSE [Q EXCEPT !.vs = <<R.v>> \o @]

Value(P, env, e, S) ==
  IF S.st # "run" THEN S
  ELSE CASE e.type = "imm" -> With(S, Num(e.imm))
    [] e.type \in {"sym", "item"} ->
         LET R == LeftValue(P, env, e, S)
         IN IF R.st # "run" \/ is_array(R.ty) THEN R
            ELSE IF ~Valid(R.mem, R.v) \/ R.mem[R.v[1]][R.v[2] + 1] = Undef THEN Undefined(R)
            ELSE With(R, R.mem[R.v[1]][R.v[2] + 1])
    [] e.type = "unary" ->
         LET R == Value(P, env, e.ch, S)
         IN IF R.st # "run" THEN R
            ELSE IF e.op = "pos" THEN R
            ELSE IF e.op = "neg" THEN Checked(R, -R.v[2])
            ELSE With(R, Cond(R.v[2] = 0))
    [] e.type = "binary" /\ e.op \in {"and", "or"} ->
         LET R == Value(P, env, e.lhs, S)
             Q == Value(P, env, e.rhs, R)
         IN IF R.st # "run" THEN R
            ELSE IF (R.v[2] # 0) = (e.op = "or") THEN With(R, Cond(e.op = "or"))
            ELSE IF Q.st # "run" THEN Q ELSE With(Q, Cond(Q.v[2] # 0))
    [] e.type = "binary" ->
         LET R == Values(P, env, <<e.lhs, e.rhs>>, S)
         IN IF R.st # "run" THEN R ELSE Apply(e.op, R.vs[1], R.vs[2], R)
    [] e.type = "call" ->
         LET R == Values(P, env, e.ch, S)
         IN IF R.st # "run" THEN R
            ELSE IF e.name = "getint"
            THEN IF R.in = <<>> THEN Undefined(R) ELSE [With(R, Num(Head(R.in))) EXCEPT !.in = Tail(@)]
            ELSE IF e.name = "putint"
            THEN IF IsNum(R.vs[1]) THEN [R EXCEPT !.out = Append(@, R.vs[1][2]), !.v = Undef] ELSE Undefined(R)
            ELSE LET fn == P.funs[e.name]
                     n == Len(R.mem)
                     frame == [k \in DOMAIN fn.args |-> [ty |-> TypeMeant(P, env, fn.args[k].ty, R), at |-> <<n + k, 0>>]]
                     vars == {fn.args[k].sym : k \in DOMAIN fn.args}
                     inner == [s \in vars |-> frame[CHOOSE k \in DOMAIN fn.args : fn.args[k].sym = s]] @@ P.env
                     Q == Meant(P, inner, fn.body, [R EXCEPT !.mem = @ \o [k \in DOMAIN R.vs |-> <<R.vs[k]>>], !.v = Undef])
                     ok == Q.ctl = "return"
                 IN [Q EXCEPT !.mem = SubSeq(@, 1, n), !.v = IF ok THEN Q.v ELSE Undef, !.ctl = "next"]

TypeMeant(P, env, t, S) ==
  CASE t.type = "basic_type" -> t.ty
    [] t.type = "pointer_type" -> PointerTo(TypeMeant(P, env, t.n, S))
    [] t.type = "array_type" -> ArrayOf(TypeMeant(P, env, t.n, S), Value(P, env, t.index, S).v[2])

(* Assigning to the cells of an initialized array one after the other.     *)
FillCells(P, env, at, es, S) ==
  IF es = <<>> THEN S
  ELSE LET R == IF IsNone(Head(es)) THEN With(S, Num(0)) ELSE Value(P, env, Head(es), S)
       IN IF R.st # "run" THEN R
          ELSE FillCells(P, env, <<at[1], at[2] + 1>>, Tail(es), [R EXCEPT !.mem[at[1]][at[2] + 1] = R.v])

(* A turn of a loop; one that ends leaves it like a break.                 *)
Turn(P, env, s, S) ==
  LET R == Value(P, env, s.cond, [S EXCEPT !.fuel = @ - 1])
      Q == Meant(P, env, s.body, R)
  IN IF S.fuel = 0 THEN Undefined(S)
     ELSE IF R.st # "run" THEN R
     ELSE IF R.v[2] = 0 THEN [R EXCEPT !.ctl = "break"]
     ELSE IF Q.ctl = "continue" THEN [Q EXCEPT !.ctl = "next"] ELSE Q
Meant(P, env, s, S) ==
  IF S.st # "run" THEN S
  ELSE IF S.fuel = 0 THEN Undefined(S)
  ELSE CASE s.type = "assign" ->
              LET L == LeftValue(P, env, s.lv, S)
                  R == Value(P, env, s.val, L)
              IN IF R.st # "run" THEN R
                 ELSE IF ~Valid(R.mem, L.v) \/ R.v = Undef THEN Undefined(R)
                 ELSE [R EXCEPT !.mem[L.v[1]][L.v[2] + 1] = R.v]
         [] s.type = "if" ->
              LET R == Value(P, env, s.cond, S)
              IN IF R.st # "run" THEN R
                 ELSE IF R.v[2] # 0 THEN Meant(P, env, s.body, R)
                 ELSE IF IsNone(s.elsed) THEN R ELSE Meant(P, env, s.elsed, R)
         [] s.type = "while" ->
              LET Q == Repeat(LAMBDA T : Turn(P, env, s, T), LAMBDA T : T.st # "run" \/ T.ctl # "next", S, S.fuel + 1)
              IN IF Q.ctl = "return" THEN Q ELSE [Q EXCEPT !.ctl = "next"]
         [] s.type \in {"break", "continue"} -> [S EXCEPT !.ctl = s.type]
         [] s.type = "return" ->
              IF IsNone(s.ret) THEN [S EXCEPT !.ctl = "return", !.v = Undef]
              ELSE [Value(P, env, s.ret, S) EXCEPT !.ctl = "return"]
         [] s.type = "block" ->
              [MeantSeq(P, env, s.body, S) EXCEPT !.mem = SubSeq(@, 1, Len(S.mem))]
         [] OTHER -> Value(P, env, s, S)

(* The statements of a block: a definition is in scope from there on.      *)
MeantSeq(P, env, ss, S) ==
  IF ss = <<>> \/ S.st # "run" \/ S.ctl # "next" THEN S
  ELSE LET s == Head(ss)
       IN IF s.type # "def_var" THEN MeantSeq(P, env, Tail(ss), Meant(P, env, s, S))
          ELSE LET ty == TypeMeant(P, env, s.ty, S)
                   at == <<Len(S.mem) + 1, 0>>
                   A == [S EXCEPT !.mem = Append(@, Object(ty))]
                   in == (s.sym :> [ty |-> ty, at |-> at]) @@ env
                   B == IF IsNone(s.val) THEN A
                        ELSE IF is_array(ty) THEN FillCells(P, in, at, Filled(ty, s.val), A)
                        ELSE FillCells(P, in, at, <<s.val>>, A)
               IN MeantSeq(P, in, Tail(ss), B)
-----------------------------------------------------------------------------
(* A program is the sequence of its definitions.                           *)
IsVar(n) == n.type = "def_var"
RECURSIVE GlobalScope(_, _, _)
GlobalScope(P, vars, S) ==
  IF vars = <<>> THEN [P |-> P, S |-> S]
  ELSE LET s == Head(vars)
           ty == TypeMeant(P, P.env, s.ty, S)
           at == <<Len(S.mem) + 1, 0>>
           A == [S EXCEPT !.mem = Append(@, [c \in 1..Cells(ty) |-> Num(0)])]
           B == IF IsNone(s.val) THEN A
                ELSE FillCells(P, P.env, at, IF is_array(ty) THEN Filled(ty, s.val) ELSE <<s.val>>, A)
       IN GlobalScope([P EXCEPT !.env = (s.sym :> [ty |-> ty, at |-> at]) @@ @], Tail(vars), B)

Meaning(prog, input) ==
  LET funs == SelectSeq(prog, LAMBDA n : ~IsVar(n))
      named == [f \in {n.sym : n \in ToSet(funs)} |-> CHOOSE n \in ToSet(funs) : n.sym = f]
      G == GlobalScope([funs |-> named, env |-> <<>>], SelectSeq(prog, IsVar),
                       Start(<<>>, input, <<>>) @@ [v |-> Undef, vs |-> <<>>, ty |-> Void, ctl |-> "next"])
      S == Value(G.P, G.P.env, CallNode("main", <<>>), G.S)
  IN Outcome([S EXCEPT !.ret = IF S.v = Undef THEN Num(0) ELSE S.v])
=============================================================================
