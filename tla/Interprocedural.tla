--------------------------- MODULE Interprocedural ---------------------------
(***************************************************************************)
(* What looks at a whole module: functions written out where they are      *)
(* called, globals of main made local, and what nobody uses removed        *)
(* (src/src/opt_interprocedural.cpp, src/src/ir_module.cpp and             *)
(* BlockedProgram::clone of src/src/ir_block.cpp).  A module also has      *)
(* `order', the names of funsDefined in their order.                       *)
(***************************************************************************)
EXTENDS Simplify

Crashed(M) == \E f \in DOMAIN M.funs : M.funs[f].crash
Code(F) == {F.ins[i] : i \in Alive(F)}
Calls(F, g) == {i \in Alive(F) : F.ins[i].op = "call" /\ F.ins[i].sub = g}

RemoveFunction(M, f) ==
  [M EXCEPT !.order = Without(@, f), !.funs = [g \in DOMAIN @ \ {f} |-> @[g]]]
remove_unused_function(M) ==
  LET Used(N, f) == f = "main" \/ f \in Range(N.cached) \/ \E g \in DOMAIN N.funs : Calls(N.funs[g], f) # {}
  IN Fold(LAMBDA N, f : IF Used(N, f) THEN N ELSE RemoveFunction(N, f), M, M.order)
-----------------------------------------------------------------------------
(* memoi_wrapper::is_purely_recursive (src/src/trans_wrapper.cc): whether  *)
(* what f returns is taken to depend on its arguments alone.  An element   *)
(* of a global array is not noticed: its address is that of a gep.         *)
RECURSIVE is_purely_recursive(_, _)
is_purely_recursive(M, f) ==
  LET F == M.funs[f]
      Harmless(x) ==
        /\ x.op = "call" => x.sub = f \/ (x.sub \in DOMAIN M.funs /\ is_purely_recursive(M, x.sub))
        /\ x.op \in {"load", "item", "store"} => ~IsGlobal(x.args[1])
  IN /\ F.ret # Void /\ F.params # <<>> /\ \A k \in DOMAIN F.params : is_basic_type(F.params[k])
     /\ Calls(F, f) # {}
     /\ \A x \in Code(F) : Harmless(x)

(* memoi_wrapper::ap: all calls of f become calls of f_cached, those in f  *)
(* too, so that nothing that calls f is purely recursive any more.         *)
CallsRenamed(F, f, g) ==
  [F EXCEPT !.ins = [i \in DOMAIN @ |-> IF i \in Calls(F, f) THEN [@[i] EXCEPT !.sub = g] ELSE @[i]]]
Memoize(M, f) ==
  LET g == f \o "_cached"
  IN IF ~is_purely_recursive(M, f) \/ Len(M.funs[f].params) > 3 THEN M
     ELSE [M EXCEPT !.cached = (g :> f) @@ @, !.funs = [h \in DOMAIN @ |-> CallsRenamed(@[h], f, g)]]
memoi_wrapper(M) == Fold(Memoize, M, M.order)
-----------------------------------------------------------------------------
(* BlockedProgram::clone, the parameters replaced by what the call passes. *)
CloneArgs(x, base, actuals) ==
  LET Mapped(o) == CASE IsRef(o) -> Ref(o[2] + base)
                     [] IsLabel(o) -> Label(o[2] + base)
                     [] o[1] = "arg" -> actuals[o[2]]
                     [] OTHER -> o
  IN [x EXCEPT !.args = [k \in DOMAIN @ |-> Mapped(@[k])]]

(* F with a copy of the blocks of G behind its own.                        *)
AddClone(F, G, actuals) ==
  LET base == F.next
      Shift(S) == {n + base : n \in S}
      blocks == [k \in DOMAIN G.blocks |-> G.blocks[k] + base]
      code == FlattenSeq([k \in DOMAIN G.blocks |-> G.body[G.blocks[k]]])
      body == Tabulated([b \in ToSet(blocks) |-> [k \in DOMAIN G.body[b - base] |-> G.body[b - base][k] + base]])
      ins == Tabulated([i \in Shift(ToSet(code)) |-> CloneArgs(G.ins[i - base], base, actuals)])
      H == [F EXCEPT !.blocks = @ \o blocks, !.body = body @@ @, !.ins = ins @@ @,
                     !.users = [b \in ToSet(blocks) |-> <<>>] @@ @, !.next = base + G.next]
  IN Fold(LAMBDA K, i : UseAll(K, i + base, K.ins[i + base].args), H, code)

(* A return of the copy stores its value and goes on behind the call.      *)
ReplaceReturn(F, b, slot, back) ==
  LET x == Back(F, b)
      G == EraseInstr(F, b, Last(F.body[b]))
      H == IF slot = 0 THEN G ELSE push_back(G, b, Store(Ref(slot), x.args[1]))
  IN IF x.op = "ret" THEN push_back(H, b, Br(back)) ELSE F

MoveArraysOnly(F, from) ==
  LET Moves(i) == F.ins[i].op = "alloca" /\ is_array(Inner(F.ins[i].ty))
      G == [F EXCEPT !.body[from] = SelectSeq(@, LAMBDA i : ~Moves(i))]
  IN Fold(LAMBDA H, i : Place(H, H.blocks[1], 1, i), G, SelectSeq(F.body[from], Moves))
MoveAllocas(F, from) ==
  LET allocas == SelectSeq(F.body[from], LAMBDA i : F.ins[i].op = "alloca")
      G == [F EXCEPT !.body[from] = SelectSeq(@, LAMBDA i : F.ins[i].op # "alloca")]
  IN Fold(LAMBDA H, i : Place(H, H.blocks[1], 1, i), G, allocas)

(* The place of the value goes before the last instruction of the first    *)
(* block; when that block only held the call it lands before its label.    *)
ValueBehind(F, ty) == push_back(F, Last(F.blocks), Alloca(ty))
PlaceOfValue(F, ty) == push_behind_end(F, F.blocks[1], Alloca(ty))

replace_call_with_inline(F, G, i) ==
  LET x == F.ins[i]
      front == BlockOf(F, i)
      entry == F.blocks[1]
      k == Position(F.body[front], i)
      copy == [n \in DOMAIN G.blocks |-> G.blocks[n] + F.next]
      C == AddClone(F, G, x.args)
      back == C.next
      Split == [C EXCEPT !.body = (back :> SubSeq(@[front], k + 1, Len(@[front])))
                                  @@ [@ EXCEPT ![front] = SubSeq(@, 1, k - 1)],
                         !.users = (back :> <<>>) @@ @, !.next = @ + 1]
      valued == x.ty # Void
      slot == IF valued THEN Split.next ELSE 0
      A == IF valued THEN PlaceOfValue(Split, x.ty) ELSE Split
      J == push_back(A, front, Br(copy[1]))
      R == Fold(LAMBDA H, b : ReplaceReturn(H, b, slot, back), J, copy)
      L == IF valued THEN replace_self(push_after_label(R, back, Load(Ref(slot), x.ty)), i, Ref(R.next)) ELSE R
      Done == MoveAllocas(Destroy(L, i), copy[1])
  IN IF valued /\ Split.body[entry] = <<>> THEN [F EXCEPT !.crash = TRUE]
     ELSE [Done EXCEPT !.blocks = Append(@, back)]

(* A function that calls a function of the program, itself included, and   *)
(* the initializer are not inlined; neither is a call whose value indexes. *)
should_function_be_inlined(M, f) ==
  f # "__buildin_initializer" /\ \A g \in DOMAIN M.funs : Calls(M.funs[f], g) = {}
should_call_instr_replaced_by_inline(F, i) ==
  \A j \in Users(F, i) : F.ins[j].op \notin {"gep", "item"}

InlineCalls(M, f, g) ==
  LET ready == {i \in Calls(M.funs[f], g) : should_call_instr_replaced_by_inline(M.funs[f], i)}
      Replace(F, i) == IF F.crash THEN F ELSE replace_call_with_inline(F, M.funs[g], i)
  IN [M EXCEPT !.funs[f] = Fold(Replace, @, InOrder(ready)), !.inlined = @ + Cardinality(ready)]
InlineFunction(M, g) ==
  IF should_function_be_inlined(M, g) THEN Fold(LAMBDA N, f : InlineCalls(N, f, g), M, M.order) ELSE M

(* inline_all_function up to the optimizations that follow; `inlined' is   *)
(* the number of calls replaced.                                           *)
inline_all_function(M) == Fold(InlineFunction, [M EXCEPT !.inlined = 0], M.order)
-----------------------------------------------------------------------------
Mentions(F, g) == \E x \in Code(F) : Glob(g) \in ToSet(x.args)

(* is_used_by_single_function: its name, or none.                          *)
UsersOfGlobal(M, g) == {f \in DOMAIN M.funs : f # "__buildin_initializer" /\ Mentions(M.funs[f], g)}
MayBeLocal(M, g) ==
  /\ is_basic_type(M.globals[g].ty)
  /\ Cardinality(UsersOfGlobal(M, g)) = 1
  /\ \A f \in UsersOfGlobal(M, g) : f = "main" \/ is_pure(M, f)

(* The global becomes a variable of its one function.  The model leaves    *)
(* the global where it is, with nobody to use it.                          *)
MakeLocal(M, g) ==
  LET f == CHOOSE h \in UsersOfGlobal(M, g) : TRUE
      F == M.funs[f]
      entry == F.blocks[1]
      here == F.next
      G == push_after_label(ChangeArgs(F, LAMBDA args : Substituted(args, Glob(g), Ref(here))),
                            entry, Alloca(M.globals[g].ty))
      at == SelectInSeq(G.body[entry], LAMBDA i : G.ins[i].op # "alloca")
      value == Imm(M.globals[g].init[1], M.globals[g].ty[2])
  IN IF MayBeLocal(M, g) THEN [M EXCEPT !.funs[f] = Insert(G, entry, at, Store(Ref(here), value))] ELSE M
global2local(M) == Fold(MakeLocal, M, [g \in DOMAIN M.globals |-> g])
=============================================================================
