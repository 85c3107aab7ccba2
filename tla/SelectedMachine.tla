--------------------------- MODULE SelectedMachine ---------------------------
(***************************************************************************)
(* What selected code does when it is run.  Every activation has its own   *)
(* virtual registers, its objects are the variables of its frame, and the  *)
(* numbers of a call that do not fit into registers are in the frame of    *)
(* the caller, where a tail call finds them as well.  The addresses of an  *)
(* object count bytes; four of them make a cell.  Registers hold 64 bits:  *)
(* only the operations on int wrap.                                        *)
(***************************************************************************)
EXTENDS Selection

CellOf(p) == <<p[1], p[2] \div 4>>
Located(mem, p) == IsPointer(p) /\ p[2] % 4 = 0 /\ Valid(mem, CellOf(p))

AluValue(op, l, r) ==
  IF op = "address" /\ IsPointer(l) /\ IsNum(r) THEN <<l[1], l[2] + r[2]>>
  ELSE IF Undef \in {l, r} \/ l[1] # r[1] THEN Undef
  ELSE CASE op = "scale" -> Num(l[2] * r[2])
         [] op = "slt" -> Num(IF l[2] < r[2] THEN 1 ELSE 0)
         [] op = "xor" /\ IsPointer(l) -> Num(IF l = r THEN 0 ELSE 1)
         [] OTHER -> BinValue(Bin(op, Basic("I32"), Zero, Zero), l, r)

ReadReg(p, o) ==
  CASE o = Zero -> Num(0)
    [] IsImm(o) -> Num(o[2])
    [] o[1] = "local" -> <<p.base + o[2] + 1, 0>>
    [] o[1] = "global" -> <<o[2], 0>>
    [] OTHER -> IF o \in DOMAIN p.env THEN p.env[o] ELSE Undef

SelectedValue(env, o) == IF o \in DOMAIN env THEN env[o] ELSE Undef
Virtual(env) == [r \in {o \in DOMAIN env : o[1] # "a"} |-> env[r]]

RECURSIVE CallSelected(_, _, _, _, _), EnterBlock(_, _, _), Step(_, _, _, _)

(* code maps a function to what was selected for it; env holds the         *)
(* arguments in registers, stack those in the caller's frame.              *)
CallSelected(code, f, env, stack, S) ==
  LET C == code[f]
      first == SelectedValue(env, A(0))
      frame == [k \in DOMAIN C.locals |-> [n \in 1..C.locals[k] |-> Undef]]
      start == [S |-> [S EXCEPT !.mem = @ \o frame, !.ret = Undef], env |-> env, base |-> Len(S.mem),
                stack |-> stack, child |-> <<>>, at |-> 1, to |-> <<>>]
      Ended(p) == p.to = <<Caller>> \/ p.S.st # "run"
      R == Repeat(LAMBDA p : EnterBlock(code, f, p), Ended, start, S.fuel + 1).S
  IN IF f \in DOMAIN S.memo
     THEN CachedOr(f, [k \in 1..S.memo[f].arity |-> SelectedValue(env, A(k - 1))], S,
                   CallSelected(code, S.memo[f].of, env, stack, S))
     ELSE IF f \in DOMAIN code THEN [R EXCEPT !.mem = SubSeq(@, 1, Len(S.mem))]
     ELSE CallFunction([funs |-> <<>>], f, <<IF IsPointer(first) THEN CellOf(first) ELSE first, SelectedValue(env, A(1))>>,
                       [S EXCEPT !.ret = Undef])

(* The instructions of the block p.at; p.to is empty as long as control     *)
(* just goes on, or names the block it goes to.                            *)
EnterBlock(code, f, p) ==
  LET C == code[f]
      R == Fold(LAMBDA q, x : Step(code, f, q, x), [p EXCEPT !.to = <<>>, !.S.fuel = @ - 1], C.blocks[p.at].body)
      Index(name) == SelectInSeq(C.blocks, LAMBDA b : b.name = name)
  IN IF p.S.fuel = 0 \/ p.at > Len(C.blocks) THEN [p EXCEPT !.S = Stuck(@)]
     ELSE [R EXCEPT !.at = IF R.to = <<>> THEN @ + 1 ELSE Index(R.to[1])]

Step(code, f, p, x) ==
  LET R(o) == ReadReg(p, o)
      Write(rd, v) == [p EXCEPT !.env = Set(@, rd, v)]
      Lost == [p EXCEPT !.S = Stuck(@)]
      at == <<R(x.base)[1], R(x.base)[2] + x.off>>
      cell == CellOf(at)
      Called == CallSelected(code, x.sub, p.env, p.child, p.S)
  IN IF p.to # <<>> \/ p.S.st # "run" THEN p
     ELSE CASE x.op = "mv" -> Write(x.rd, R(x.v))
            [] x.op = "alu" -> Write(x.rd, AluValue(x.sub, R(x.l), R(x.r)))
            [] x.op = "test" ->
                 Write(x.rd, IF IsNum(R(x.rd)) THEN Num(IF (R(x.rd)[2] = 0) = (x.sub = "seqz") THEN 1 ELSE 0) ELSE Undef)
            [] x.op = "load" -> IF Located(p.S.mem, at) THEN Write(x.rd, p.S.mem[cell[1]][cell[2] + 1]) ELSE Lost
            [] x.op = "store" ->
                 IF Located(p.S.mem, at) THEN [p EXCEPT !.S.mem[cell[1]][cell[2] + 1] = R(x.rs)] ELSE Lost
            [] x.op = "spill" ->
                 IF x.own THEN [p EXCEPT !.stack = Set(@, x.k, R(x.rs))]
                 ELSE IF x.k <= code[f].args THEN [p EXCEPT !.child = Set(@, x.k, R(x.rs))] ELSE Lost
            [] x.op = "arg" -> Write(x.rd, SelectedValue(p.stack, x.k))
            [] x.op = "branch" ->
                 IF Undef \in {R(x.l), R(x.r)} \/ R(x.l)[1] # R(x.r)[1] THEN Lost
                 ELSE IF Compare(x.sub, R(x.l)[2], R(x.r)[2]) THEN [p EXCEPT !.to = <<x.to>>] ELSE p
            [] x.op = "j" -> [p EXCEPT !.to = <<x.to>>]
            [] x.op = "call" /\ x.tail -> [p EXCEPT !.to = <<Prolog>>]
            [] x.op = "call" /\ ~x.tail ->
                 [p EXCEPT !.S = Called, !.env = Set(Virtual(@), A(0), Called.ret)]
            [] x.op = "ret" -> [p EXCEPT !.to = <<Caller>>, !.S.ret = SelectedValue(p.env, A(0))]
-----------------------------------------------------------------------------
(* Global::Global: a number at file scope loses its sign bit's weight.     *)
GlobalWords(g) ==
  [c \in DOMAIN g.init |-> Num(IF is_array(g.ty) THEN WrapInt(g.init[c]) ELSE Rem(g.init[c], 2^(IntBits - 1)))]
(* A block of IR becomes one of code, a call two more.                     *)
CodeMeaning(M, code, input) ==
  LET S == [Start([g \in DOMAIN M.globals |-> GlobalWords(M.globals[g])], input, Caches(M)) EXCEPT !.fuel = 3 * @]
  IN Outcome(CallSelected(code, "main", <<>>, <<>>, S))
=============================================================================
