--------------------------- MODULE ValueNumbering ---------------------------
(***************************************************************************)
(* OptGVN::GVN_pass (src/src/opt_GVN.cpp): instructions that compute the   *)
(* same are found with a set of expressions, the later one is replaced,    *)
(* and what was computed on two branches moves to the block above both.    *)
(* exp_eq, the order of that set, is no order (a + b and c + d come each   *)
(* before the other) and the operands it compares change while expressions *)
(* are in the set: what an insertion finds is congruent, but it may find   *)
(* nothing.  `missed' are the instructions for which it does not.          *)
(* The pass is S = [F, D, touched, reachable, pool, shared, phis, missed,  *)
(* failed]; pool stands for exp_pool, shared for shared_gep, phis for      *)
(* phi_in_blks; failed says that the program throws, asserts, reads what   *)
(* was released, or goes round for ever.                                   *)
(***************************************************************************)
EXTENDS LoopMotion

Fail(S) == [S EXCEPT !.failed = TRUE]

(* rpo_builder.                                                            *)
RECURSIVE Postorder(_, _, _)
Postorder(F, p, b) ==
  IF b \in p.seen THEN p
  ELSE LET R == Fold(LAMBDA q, c : Postorder(F, q, c), [p EXCEPT !.seen = @ \cup {b}], OutInOrder(F, b))
       IN [R EXCEPT !.order = <<b>> \o @]
rpo_builder(F) == Postorder(F, [seen |-> {}, order |-> <<>>], Entry(F)).order
-----------------------------------------------------------------------------
(* exp_eq puts neither of two expressions before the other.                *)
Abelian == {"add", "xor", "and", "or", "mul"}
Congruent(x, y) ==
  /\ x.op = y.op /\ Len(x.args) = Len(y.args)
  /\ x.op \in {"bin", "cmp", "gep"} => x.sub = y.sub
  /\ x.args = y.args \/ (x.op = "bin" /\ x.sub \in Abelian /\ x.args = Reverse(y.args))

is_block_definable(S, b, i) ==
  \A k \in DOMAIN S.F.ins[i].args :
    LET o == S.F.ins[i].args[k] IN IsRef(o) => is_dom(S.D, b, BlockOf(S.F, o[2]))

(* One of two instructions that compute the same is left, above both; i    *)
(* takes the place of real only if its block is above that of real.        *)
hoist_fold(S, real, i) ==
  LET here == BlockOf(S.F, i)
      there == BlockOf(S.F, real)
      target == LCA(S.D, there, here)
      moved == IF there = target THEN S.F ELSE instr_move(S.F, real, target)
  IN IF ~is_block_definable(S, target, real) \/ ~is_block_definable(S, target, i) THEN Fail(S)
     ELSE IF target = here /\ there # here
     THEN [S EXCEPT !.F = EraseInstr(replace_self(@, real, Ref(i)), there, real)]
     ELSE [S EXCEPT !.F = EraseInstr(replace_self(moved, i, Ref(real)), here, i)]
Survivor(S, real, i) == IF Placed(S.F, real) THEN real ELSE i

perform_congruence_finding(S, i) ==
  LET x == S.F.ins[i]
      same == SelectSeq(S.pool, LAMBDA e : Congruent(S.F.ins[e], x))
      H == hoist_fold(S, same[1], i)
  IN IF same = <<>> \/ i \in S.missed
     THEN [S EXCEPT !.pool = Append(@, i), !.shared = IF x.op \in {"gep", "item"} THEN Append(@, i) ELSE @]
     ELSE [H EXCEPT !.pool = Append(Without(@, same[1]), Survivor(H, same[1], i))]

process_out_blks(S, b) ==
  LET Touch(R, c) ==
        IF c \notin R.reachable
        THEN [R EXCEPT !.reachable = @ \cup {c}, !.touched = @ \cup ToSet(R.F.body[c])]
        ELSE [R EXCEPT !.touched = @ \cup ToSet(IF is_dom(R.D, c, b) THEN R.F.body[c] ELSE PhisOf(R.F, c))]
  IN Fold(Touch, S, OutInOrder(S.F, b))
-----------------------------------------------------------------------------
(* The pairs of a phi of b whose values are known on entry, come round     *)
(* again, or neither.                                                      *)
Initial(S, b, o) == ~IsRef(o) \/ is_dom(S.D, b, BlockOf(S.F, o[2]))
Round(S, b, o) == ~Initial(S, b, o) /\ is_dom(S.D, BlockOf(S.F, o[2]), b)
val_filter(S, b, x, Class(_, _, _)) == {k \in 1..phi_pairs(x) : Class(S, b, phi_val(x, k))}
Starts(S, b, x) == {<<phi_label(x, k), phi_val(x, k)>> : k \in val_filter(S, b, x, Initial)}

(* Whether v follows p as w follows q.  What is no constant and no result  *)
(* is not compared.                                                        *)
is_same_calculation(S, v, w, p, q) ==
  LET x == S.F.ins[v[2]]
      y == S.F.ins[w[2]]
      Same(a, c) == IF IsImm(a) THEN IsImm(c) /\ a[2] = c[2]
                    ELSE IsGlobal(a) \/ (a = Ref(p) /\ c = Ref(q))
  IN /\ x.op = "gep" /\ y.op = "gep" /\ x.sub = y.sub
     /\ \A k \in DOMAIN x.args : Same(x.args[k], y.args[k])

(* i is replaced with a phi of its block that starts with the same values  *)
(* and goes on in the same way.  Two phis without a value that comes round *)
(* make at(0) throw.                                                       *)
phi_predication(S, i) ==
  LET F == S.F
      b == BlockOf(F, i)
      x == F.ins[i]
      known == IF b \in DOMAIN S.phis THEN S.phis[b] ELSE <<>>
      Again(z) == val_filter(S, b, z, Round)
      Alike(j) ==
        LET y == F.ins[j]
        IN /\ j # i /\ is_same_type(y.ty, x.ty)
           /\ Len(y.args) = Len(x.args)
           /\ Starts(S, b, y) = Starts(S, b, x)
           /\ Cardinality(val_filter(S, b, x, Initial)) + Cardinality(Again(x)) = phi_pairs(x)
           /\ Cardinality(Again(y)) = Cardinality(Again(x)) /\ Cardinality(Again(x)) < 2
      Next1(z) == phi_val(z, CHOOSE k \in Again(z) : TRUE)
      k == SelectInSeq(known, LAMBDA j : Alike(j) /\ (Again(x) = {} \/
                                is_same_calculation(S, Next1(F.ins[j]), Next1(x), j, i)))
  IN IF ~(ToSet(known) \subseteq Alive(F)) THEN Fail(S)
     ELSE IF k = 0 THEN [S EXCEPT !.phis = (b :> Append(known, i)) @@ @]
     ELSE IF Again(x) = {} THEN Fail(S)
     ELSE [S EXCEPT !.F = EraseInstr(replace_self(F, i, Ref(known[k])), b, i)]
-----------------------------------------------------------------------------
handle_cur_instr(S, b, i) ==
  LET op == S.F.ins[i].op
      T == [S EXCEPT !.touched = @ \ {i}]
  IN IF S.failed \/ i \notin S.touched THEN S
     ELSE CASE op \in {"item", "gep", "cast", "cmp", "bin"} -> perform_congruence_finding(T, i)
            [] op \in {"br", "brcond"} -> process_out_blks(T, b)
            [] op = "phi" -> phi_predication(T, i)
            [] OTHER -> T

(* While something is touched; what is in no block any more stays touched. *)
RECURSIVE Rounds(_, _)
Rounds(S, rpo) ==
  LET HandleBlock(R, b) == Fold(LAMBDA T, i : handle_cur_instr(T, b, i), R, R.F.body[b])
  IN IF S.touched = {} \/ S.failed THEN S
     ELSE IF S.touched \cap Alive(S.F) = {} THEN Fail(S)
     ELSE Rounds(Fold(HandleBlock, S, rpo), rpo)

(* The indexings that print alike become one.                              *)
InThisDim(x) == x.op = "gep" /\ x.sub
sink_gep(S) ==
  LET Sink(R, i) ==
        LET same == SelectSeq(R.kept, LAMBDA e : /\ R.S.F.ins[e].args = R.S.F.ins[i].args
                                                 /\ InThisDim(R.S.F.ins[e]) = InThisDim(R.S.F.ins[i]))
            H == hoist_fold(R.S, same[1], i)
        IN IF R.S.failed \/ same = <<>> THEN [R EXCEPT !.kept = Append(@, i)]
           ELSE [S |-> H, kept |-> Append(Without(R.kept, same[1]), Survivor(H, same[1], i))]
  IN IF S.failed \/ ~(ToSet(S.shared) \subseteq Alive(S.F)) THEN Fail(S)
     ELSE Fold(Sink, [S |-> S, kept |-> <<>>], S.shared).S

func_pass_gvn(F, missed) ==
  LET S == [F |-> F, D |-> build_dom(F), touched |-> ToSet(F.body[Entry(F)]), reachable |-> {}, pool |-> <<>>,
            shared |-> <<>>, phis |-> <<>>, missed |-> missed, failed |-> FALSE]
      R == sink_gep(Rounds(S, rpo_builder(F)))
  IN IF R.failed THEN Crash(F) ELSE R.F

(* For the runs: nothing is missed, or one instruction that goes when      *)
(* nothing is.                                                             *)
MissedOnce(F) == {{}} \cup {{i} : i \in Alive(F) \ Alive(func_pass_gvn(F, {}))}
=============================================================================
