------------------------------ MODULE DataFlow ------------------------------
(***************************************************************************)
(* The worklist analyses of src/include/opt_DFA.h and their two users:     *)
(* constant propagation (src/src/opt_const_propagate.cpp) and dead store   *)
(* elimination (src/src/opt_DSE.cpp).                                      *)
(*                                                                         *)
(* A ConstantMap is [val, arr]: val maps an instruction to its constant or *)
(* to NAC (not a constant), and says nothing of what is undefined so far;  *)
(* arr maps <<alloca, index>> to the constant an array element holds.      *)
(* fail records what a calculation of the compiler itself traps on.        *)
(***************************************************************************)
EXTENDS Simplify

CONSTANT MaxVisits
ASSUME VisitsAssumption == MaxVisits \in Nat

NAC == <<"nac">>
UNDEF == <<"undef">>
VALUE(v) == <<"value", v>>
NoConstants == [val |-> <<>>, arr |-> <<>>, fail |-> FALSE]

has(v, i) == i \in DOMAIN v.val
setValueNac(v, i) == [v EXCEPT !.val = (i :> NAC) @@ @]
setValueLast(v, i, c) == [v EXCEPT !.val = (i :> VALUE(c)) @@ @]
(* A value that meets another one becomes NAC; NAC is overwritten.         *)
setValue(v, i, c) ==
  IF has(v, i) /\ v.val[i] # NAC /\ v.val[i] # VALUE(c) THEN setValueNac(v, i)
  ELSE [v EXCEPT !.val = (i :> VALUE(c)) @@ @]
clearArrayValue(v, a) == [v EXCEPT !.arr = [k \in {n \in DOMAIN @ : n[1] # a} |-> @[k]]]
eraseArrayValueLeq(v, a, n) == [v EXCEPT !.arr = [k \in {m \in DOMAIN @ : m[1] # a \/ m[2] >= n} |-> @[k]]]

fill_val(v, i, r) ==
  CASE r = NAC -> setValueNac(v, i)
    [] r = UNDEF -> v
    [] OTHER -> setValue(v, i, r[2])

(* What is known of an operand.                                            *)
read_val(F, o, v) ==
  CASE IsImm(o) -> VALUE(ImmOf(o))
    [] IsRef(o) -> IF has(v, o[2]) THEN v.val[o[2]]
                   ELSE IF F.ins[o[2]].op = "gep" THEN NAC ELSE UNDEF
    [] OTHER -> NAC

IsAlloca(F, o) == IsRef(o) /\ F.ins[o[2]].op = "alloca"

(* A store to element index of an array: of what is known of the array.    *)
StoreElement(F, v, gep, r) ==
  LET index == F.ins[gep].args[2]
      arr == F.ins[gep].args[1][2]
      disabled == has(v, arr) /\ v.val[arr] = NAC
  IN CASE ~IsImm(index) -> setValueNac(v, arr)
       [] IsImm(index) /\ (disabled \/ r = NAC) -> clearArrayValue(setValueNac(v, gep), arr)
       [] IsImm(index) /\ ~disabled /\ r = UNDEF -> v
       [] OTHER -> [v EXCEPT !.arr = (<<arr, index[2]>> :> r[2]) @@ @]
when_store(F, i, v) ==
  LET to == F.ins[i].args[1]
      r == read_val(F, F.ins[i].args[2], v)
  IN CASE IsAlloca(F, to) -> fill_val(v, to[2], r)
       [] IsRef(to) /\ F.ins[to[2]].op = "gep" /\ IsAlloca(F, F.ins[to[2]].args[1]) -> StoreElement(F, v, to[2], r)
       [] OTHER -> v

(* A phi takes its values one after the other, up to the first NAC.        *)
when_phi(F, i, v) ==
  LET Take(w, k) == LET u == fill_val(w, i, read_val(F, phi_val(F.ins[i], k), w))
                    IN IF has(u, i) THEN u ELSE setValueNac(u, i)
      Step(p, k) == IF p.stop THEN p ELSE [v |-> Take(p.v, k), stop |-> Take(p.v, k).val[i] = NAC]
  IN Fold(Step, [v |-> v, stop |-> FALSE], [k \in 1..phi_pairs(F.ins[i]) |-> k]).v

(* CalculatableInstr::calculate on constants; by zero, it traps.           *)
calculate(x, c) ==
  CASE x.op = "bin" -> CalculateBinary(x.sub, c[1], c[2])
    [] x.op = "cmp" -> CalculateCompare(x.sub, c[1], c[2])
    [] x.op = "cast" -> CalculateCast(x.ty, c[1])
when_calculatable(F, i, v) ==
  LET x == F.ins[i]
      r == [k \in DOMAIN x.args |-> read_val(F, x.args[k], v)]
      first == SelectInSeq(r, LAMBDA q : q \in {NAC, UNDEF})
  IN IF first # 0 THEN IF r[first] = NAC THEN setValueNac(v, i) ELSE v
     ELSE IF x.op = "bin" /\ x.sub \in {"sdiv", "srem"} /\ r[2][2].val = 0 THEN [v EXCEPT !.fail = TRUE]
     ELSE setValue(v, i, calculate(x, [k \in DOMAIN r |-> r[k][2]]))

(* The array behind a chain of indexings is no longer followed.            *)
RECURSIVE disable_minigep(_, _, _)
disable_minigep(F, o, v) ==
  IF ~IsRef(o) THEN v
  ELSE CASE F.ins[o[2]].op = "gep" -> disable_minigep(F, F.ins[o[2]].args[1], v)
         [] F.ins[o[2]].op = "alloca" -> setValueNac(v, o[2])
         [] OTHER -> v

when_call(F, i, v) ==
  LET x == F.ins[i]
      w == setValueNac(v, i)
      cast == IF IsRef(x.args[1]) /\ F.ins[x.args[1][2]].op = "cast" THEN F.ins[x.args[1][2]].args[1] ELSE x.args[1]
  IN IF x.sub # "__builtin_fill_zero" THEN Fold(LAMBDA u, o : disable_minigep(F, o, u), w, x.args)
     ELSE IF ~IsImm(x.args[2]) THEN disable_minigep(F, x.args[1], w)
     ELSE IF IsAlloca(F, cast) THEN eraseArrayValueLeq(w, cast[2], x.args[2][2]) ELSE w

PropagateInstr(F, v, i) ==
  LET op == F.ins[i].op
  IN CASE op = "phi" -> when_phi(F, i, v)
       [] op = "store" -> when_store(F, i, v)
       [] op = "load" -> fill_val(v, i, read_val(F, F.ins[i].args[1], v))
       [] op = "call" -> when_call(F, i, v)
       [] op \in {"bin", "cmp", "cast"} -> when_calculatable(F, i, v)
       [] OTHER -> v
PropagateThrough(F, b, v) == Fold(LAMBDA w, i : PropagateInstr(F, w, i), v, F.body[b])

(* ConstantMap::cup: undefined and a constant are the constant; arrays are *)
(* not looked at.                                                          *)
cup(v, w) ==
  LET Both(i) == IF ~has(v, i) THEN w.val[i]
                 ELSE IF has(w, i) /\ v.val[i] # w.val[i] THEN NAC ELSE v.val[i]
  IN [v EXCEPT !.val = Tabulated([i \in DOMAIN @ \cup DOMAIN w.val |-> Both(i)]), !.fail = @ \/ w.fail]
-----------------------------------------------------------------------------
(* from_top_analysis.  The first predecessor is copied, arrays included,   *)
(* the others are joined to it.  Clearing keeps the arrays.                *)
RECURSIVE FromTop(_, _, _, _)
FromTop(F, A, pending, visits) ==
  LET b == Head(pending)
      preds == InOrderOfUse(F, b)
      old == A.out[b]
      into == IF preds = <<>> THEN [A.in[b] EXCEPT !.val = <<>>]
            ELSE Fold(LAMBDA v, p : cup(v, A.out[p]), A.out[preds[1]], preds)
      out == PropagateThrough(F, b, into)
      B == [A EXCEPT !.in[b] = into, !.out[b] = out]
      next == IF out.val = old.val THEN <<>> ELSE OutInOrder(F, b)
  IN IF pending = <<>> THEN A
     ELSE IF visits = 0 \/ A.fail THEN [A EXCEPT !.fail = TRUE]
     ELSE FromTop(F, [B EXCEPT !.fail = out.fail], Tail(pending) \o next, visits - 1)

Constants(F) ==
  LET none == [b \in ToSet(F.blocks) |-> NoConstants]
  IN FromTop(F, [in |-> none, out |-> none, fail |-> FALSE], F.blocks, MaxVisits)

(* The results of a block that are constant at its end are replaced.       *)
KnownIn(F, A, b) ==
  {i \in ToSet(F.body[b]) : /\ has(A.out[b], i) /\ A.out[b].val[i] # NAC
                            /\ F.ins[i].op \notin {"alloca", "gep"}}
Substitute(F, A, b) ==
  Fold(LAMBDA G, i : replace_self(G, i, OperandOf(A.out[b].val[i][2])), F, InOrder(KnownIn(F, A, b)))
const_propagate(F) ==
  LET A == Constants(F)
  IN [F |-> IF A.fail THEN [F EXCEPT !.crash = TRUE] ELSE Fold(LAMBDA G, b : Substitute(G, A, b), F, F.blocks),
      cnt |-> Cardinality(UNION {KnownIn(F, A, b) : b \in ToSet(F.blocks)})]
-----------------------------------------------------------------------------
(* from_bottom_analysis for the addresses that may be read later on.       *)
ReadAbove(F, uses, i) ==
  LET x == F.ins[i]
  IN CASE x.op \in {"load", "gep", "item"} -> uses \cup {x.args[1]}
       [] x.op = "store" /\ (IsAlloca(F, x.args[1]) \/ IsGlobal(x.args[1])) -> uses \ {x.args[1]}
       [] OTHER -> uses
ReadsAbove(F, b, uses) == Fold(LAMBDA u, i : ReadAbove(F, u, i), uses, Reverse(F.body[b]))

RECURSIVE FromBottom(_, _, _, _)
FromBottom(F, A, pending, visits) ==
  LET b == Head(pending)
      out == UNION {A.in[c] : c \in out_blocks(F, b)}
      into == ReadsAbove(F, b, out)
      next == IF into = A.in[b] THEN <<>> ELSE InOrderOfUse(F, b)
  IN IF pending = <<>> THEN A
     ELSE IF visits = 0 THEN [A EXCEPT !.fail = TRUE]
     ELSE FromBottom(F, [A EXCEPT !.in[b] = into, !.out[b] = out], Tail(pending) \o next, visits - 1)

Reads(F) ==
  LET none == [b \in ToSet(F.blocks) |-> {}]
  IN FromBottom(F, [in |-> none, out |-> none, fail |-> FALSE], F.blocks, MaxVisits)

(* Backwards through a block: a store to a variable nobody reads goes.     *)
DropStores(F, b, uses) ==
  LET Sweep(p, i) ==
        LET x == p.F.ins[i]
        IN CASE x.op = "load" -> [p EXCEPT !.uses = @ \cup {x.args[1]}]
             [] x.op = "store" /\ IsAlloca(p.F, x.args[1]) ->
                  IF x.args[1] \in p.uses THEN [p EXCEPT !.uses = @ \ {x.args[1]}]
                  ELSE [p EXCEPT !.F = EraseInstr(@, b, i), !.cnt = @ + 1]
             [] OTHER -> p
  IN Fold(Sweep, [F |-> F, uses |-> uses, cnt |-> 0], Reverse(F.body[b]))
dse(F) ==
  LET A == Reads(F)
      Step(p, b) == LET R == DropStores(p.F, b, A.out[b]) IN [F |-> R.F, cnt |-> p.cnt + R.cnt]
  IN IF A.fail THEN [F |-> [F EXCEPT !.crash = TRUE], cnt |-> 0]
     ELSE Fold(Step, [F |-> F, cnt |-> 0], F.blocks)
=============================================================================
