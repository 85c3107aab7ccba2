------------------------------ MODULE IRMachine ------------------------------
(***************************************************************************)
(* What a module of the intermediate representation does when it is run.   *)
(* A module is [globals |-> Seq([name, ty, const, init]), funs |-> name -> *)
(* function of IR, cached |-> the name of a memoized function -> that of   *)
(* the function].  A value is <<0, n>> for the number n, <<obj, off>>    *)
(* for a pointer to cell off of an object (globals come first, then the    *)
(* allocas of the active calls), Undef for what was never written.  A cell *)
(* holds one element of basic or pointer type.  Integers wrap at IntBits.  *)
(* Fuel bounds the blocks entered: a run that uses it up counts as stuck.  *)
(***************************************************************************)
EXTENDS IR

CONSTANTS IntBits, MaxFuel
ASSUME IntBitsAssumption == IntBits \in 2..20
ASSUME FuelAssumption == MaxFuel \in Nat

Undef == <<-1, 0>>
Num(n) == <<0, n>>
IsNum(v) == v[1] = 0
IsPointer(v) == v[1] > 0

WrapInt(n) == ((n + 2^(IntBits - 1)) % 2^IntBits) - 2^(IntBits - 1)
InRange(n) == WrapInt(n) = n
Wrapped(ty, n) ==
  IF ty \in {Basic("I32"), Basic("U32")} THEN WrapInt(n) ELSE n

RECURSIVE Cells(_)
Cells(ty) == IF is_array(ty) THEN ty[3] * Cells(ty[2]) ELSE 1
Object(ty) == [c \in 1..Cells(ty) |-> Undef]
-----------------------------------------------------------------------------
Operand(args, env, o) ==
  CASE IsImm(o) -> Num(Wrapped(Basic(o[3]), o[2]))
    [] IsRef(o) -> IF o[2] \in DOMAIN env THEN env[o[2]] ELSE Undef
    [] o[1] = "arg" -> args[o[2]]
    [] o[1] = "global" -> <<o[2], 0>>
    [] OTHER -> Undef

(* A result that no instruction may use (x / 0) is Undef.                  *)
BinValue(x, a, b) ==
  IF ~IsNum(a) \/ ~IsNum(b) \/ (x.sub \in {"sdiv", "srem"} /\ b[2] = 0) THEN Undef
  ELSE Num(Wrapped(x.ty, IntOp(x.sub, a[2], b[2])))
CmpValue(x, a, b) ==
  IF Undef \in {a, b} \/ a[1] # b[1] THEN Undef
  ELSE Num(IF Compare(x.sub, a[2], b[2]) THEN 1 ELSE 0)
CastValue(x, a) == IF IsNum(a) THEN Num(Wrapped(x.ty, a[2])) ELSE a

Valid(mem, p) == IsPointer(p) /\ p[1] <= Len(mem) /\ p[2] + 1 \in DOMAIN mem[p[1]]

RECURSIVE Offset(_, _)
Offset(ty, ns) == IF ns = <<>> THEN 0 ELSE ns[1][2] * Cells(Inner(ty)) + Offset(Inner(ty), Tail(ns))

(* Moving a pointer: an element of the type behind it for a gep.           *)
Moved(x, pointee, p, ns) ==
  IF ~IsPointer(p) \/ \E k \in DOMAIN ns : ~IsNum(ns[k]) THEN Undef
  ELSE <<p[1], p[2] + IF x.op = "item" THEN Offset(pointee, ns)
                      ELSE ns[1][2] * Cells(Inner(x.ty))>>

Stuck(S) == [S EXCEPT !.st = "stuck"]
Set(env, i, v) == IF i \in DOMAIN env THEN [env EXCEPT ![i] = v] ELSE (i :> v) @@ env

(* fill_zero(p, n) clears n cells; __builtin_fill_zero of src/lib/sylib.c. *)
FillZero(S, p, n) ==
  IF ~IsPointer(p) \/ ~IsNum(n) \/ (n[2] > 0 /\ ~(Valid(S.mem, p) /\ Valid(S.mem, <<p[1], p[2] + n[2] - 1>>)))
  THEN Stuck(S)
  ELSE [S EXCEPT !.mem[p[1]] = [c \in DOMAIN @ |-> IF c - 1 \in p[2]..(p[2] + n[2] - 1) THEN Num(0) ELSE @[c]]]

RECURSIVE CallFunction(_, _, _, _), RunBlock(_, _, _, _), RunInstr(_, _, _, _, _)

(* f_cached, and what module Memo says of it: the result of an earlier call *)
(* with the same arguments, or that of the function, which is kept.  Here  *)
(* no entry replaces another one.                                          *)
CachedOr(f, args, S, R) ==
  IF args \in DOMAIN S.memo[f].table THEN [S EXCEPT !.ret = S.memo[f].table[args]]
  ELSE [R EXCEPT !.memo[f].table = Set(@, args, R.ret)]

(* S is the state [st, mem, in, out, fuel, ret, memo]; the objects a call  *)
(* allocates are gone when it returns.                                     *)
CallFunction(M, f, args, S) ==
  CASE f = "getint" ->
         IF S.in = <<>> THEN Stuck(S) ELSE [S EXCEPT !.ret = Num(Head(S.in)), !.in = Tail(@)]
    [] f = "putint" ->
         IF IsNum(args[1]) THEN [S EXCEPT !.out = Append(@, args[1][2])] ELSE Stuck(S)
    [] f = "__builtin_fill_zero" -> FillZero(S, args[1], args[2])
    [] f \in DOMAIN S.memo -> CachedOr(f, args, S, CallFunction(M, S.memo[f].of, args, S))
    [] f \in DOMAIN M.funs ->
         LET F == M.funs[f]
             start == [at |-> F.blocks[1], prev |-> 0, env |-> <<>>, S |-> [S EXCEPT !.ret = Undef]]
             R == Repeat(LAMBDA c : RunBlock(M, F, args, c), LAMBDA c : c.at = 0, start, S.fuel + 1).S
         IN [R EXCEPT !.mem = SubSeq(@, 1, Len(S.mem))]

(* The phis of a block are read together, on the edge that was taken.      *)
PhiValue(F, args, env, prev, i) ==
  LET x == F.ins[i]
      Hits == {k \in 1..phi_pairs(x) : phi_label(x, k) = prev}
  IN IF Hits = {} THEN Undef ELSE Operand(args, env, phi_val(x, Min(Hits)))

(* c is the place in the function: the block to enter, 0 at the end, and    *)
(* the one before it.                                                      *)
RunBlock(M, F, args, c) ==
  LET b == c.at
      phis == ToSet(PhisOf(F, b))
      start == [env |-> [i \in phis |-> PhiValue(F, args, c.env, c.prev, i)] @@ c.env, S |-> [c.S EXCEPT !.fuel = @ - 1]]
      end == SelectInSeq(F.body[b], LAMBDA i : is_terminator(F.ins[i]))
      R == Fold(LAMBDA p, i : RunInstr(M, F, args, p, i), start, SubSeq(F.body[b], 1, end - 1))
      x == F.ins[F.body[b][end]]
      v == Operand(args, R.env, x.args[1])
      Goto(d) == [at |-> d, prev |-> b, env |-> R.env, S |-> R.S]
      Halt(S) == [Goto(0) EXCEPT !.S = S]
  IN IF c.S.fuel = 0 \/ end = 0 THEN [c EXCEPT !.at = 0, !.S = Stuck(@)]
     ELSE IF R.S.st # "run" THEN Halt(R.S)
     ELSE CASE x.op = "br" -> Goto(x.args[1][2])
            [] x.op = "brcond" -> IF IsNum(v) THEN Goto(x.args[IF v[2] # 0 THEN 2 ELSE 3][2]) ELSE Halt(Stuck(R.S))
            [] x.op = "ret" -> Halt([R.S EXCEPT !.ret = IF x.args = <<>> THEN Undef ELSE v])
            [] OTHER -> Halt(Stuck(R.S))

(* One instruction before the end of its block; the phis are done.         *)
RunInstr(M, F, args, p, i) ==
  LET x == F.ins[i]
      V(k) == Operand(args, p.env, x.args[k])
      mem == p.S.mem
      Result(v) == [p EXCEPT !.env = Set(@, i, v)]
      After(T) == [p EXCEPT !.S = T]
      Pointee == Inner(TypeOfOperand(F, [g \in DOMAIN M.globals |-> M.globals[g].ty], x.args[1]))
  IN IF p.S.st # "run" \/ x.op = "phi" THEN p
     ELSE CASE x.op = "bin" -> Result(BinValue(x, V(1), V(2)))
            [] x.op = "cmp" -> Result(CmpValue(x, V(1), V(2)))
            [] x.op = "cast" -> Result(CastValue(x, V(1)))
            [] x.op = "alloca" ->
                 [env |-> Set(p.env, i, <<Len(mem) + 1, 0>>), S |-> [p.S EXCEPT !.mem = Append(@, Object(Inner(x.ty)))]]
            [] x.op = "load" -> IF Valid(mem, V(1)) THEN Result(mem[V(1)[1]][V(1)[2] + 1]) ELSE After(Stuck(p.S))
            [] x.op = "store" ->
                 After(IF Valid(mem, V(1)) THEN [p.S EXCEPT !.mem[V(1)[1]][V(1)[2] + 1] = V(2)] ELSE Stuck(p.S))
            [] x.op \in {"gep", "item"} ->
                 Result(Moved(x, Pointee, V(1), [k \in 1..(Len(x.args) - 1) |-> V(k + 1)]))
            [] x.op = "call" ->
                 LET R == CallFunction(M, x.sub, [k \in DOMAIN x.args |-> V(k)], p.S)
                 IN [env |-> Set(p.env, i, R.ret), S |-> [R EXCEPT !.ret = Undef]]
-----------------------------------------------------------------------------
(* The program: main in a fresh memory of globals, with numbers to read.   *)
Start(mem, input, memo) ==
  [st |-> "run", mem |-> mem, in |-> input, out |-> <<>>, fuel |-> MaxFuel, ret |-> Undef, memo |-> memo]
Caches(M) ==
  [c \in DOMAIN M.cached |-> [of |-> M.cached[c], arity |-> Len(M.funs[M.cached[c]].params), table |-> <<>>]]
Outcome(S) ==
  IF S.st = "run" THEN [st |-> "done", ret |-> S.ret, out |-> S.out]
  ELSE [st |-> S.st, ret |-> Undef, out |-> <<>>]
IRMeaning(M, input) ==
  LET mem == [g \in DOMAIN M.globals |-> [c \in DOMAIN M.globals[g].init |-> Num(M.globals[g].init[c])]]
  IN Outcome(CallFunction(M, "main", <<>>, Start(mem, input, Caches(M))))
=============================================================================
