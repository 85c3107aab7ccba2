----------------------------- MODULE LoopMotion -----------------------------
(***************************************************************************)
(* Two passes of src/src/trans_loop.cc: Canonicalizer_pass, which turns    *)
(* comparisons and branches round, and LoopGEPMotion_pass, which gives     *)
(* every loop a block before its header and moves there what has the same  *)
(* value in every turn.  The other class of that file, IndVarPruning_pass, *)
(* is not used by the compiler.                                            *)
(***************************************************************************)
EXTENDS SSA

alter_cmp(rel) ==
  CASE rel = "sge" -> "sle" [] rel = "sle" -> "sge" [] rel = "sgt" -> "slt" [] rel = "slt" -> "sgt"
    [] OTHER -> rel
negate_cmp(rel) ==
  CASE rel = "sge" -> "slt" [] rel = "slt" -> "sge" [] rel = "sle" -> "sgt" [] rel = "sgt" -> "sle"
    [] rel = "ne" -> "eq" [] rel = "eq" -> "ne"

(* A constant goes to the right of a comparison.                           *)
SwapOperands(F, c) ==
  IF IsImm(F.ins[c].args[1]) /\ ~IsImm(F.ins[c].args[2])
  THEN [F EXCEPT !.ins[c] = [@ EXCEPT !.sub = alter_cmp(@), !.args = Reverse(@)]] ELSE F

(* The branch that stays in the reign of the block becomes the true one.   *)
SwapLabels(F, D, b, c) ==
  LET br == Last(F.body[b])
      l == F.ins[br].args[2]
      r == F.ins[br].args[3]
      G == release_operand(release_operand(F, br, 2), br, 2)
      H == UseAll([G EXCEPT !.ins[br].args = @ \o <<r, l>>], br, <<r, l>>)
  IN IF l # r /\ UseCount(F, c) = 1 /\ is_dom(D, r[2], b) /\ ~is_dom(D, l[2], b)
     THEN [H EXCEPT !.ins[c].sub = negate_cmp(@)] ELSE F

Canonical(F, D, b) ==
  LET c == Back(F, b).args[1]
  IN IF Back(F, b).op = "brcond" /\ IsRef(c) /\ F.ins[c[2]].op = "cmp"
     THEN SwapLabels(SwapOperands(F, c[2]), D, b, c[2]) ELSE F
canonicalize(F) ==
  LET D == build_dom(F) IN Fold(LAMBDA G, b : Canonical(G, D, b), F, F.blocks)
-----------------------------------------------------------------------------
(* The constructor of LoopGEPMotion_pass: S is [F, phis], phis the new     *)
(* phis of the blocks inserted.                                            *)
branch_label_replace(F, br, old, new) ==
  change_operand(F, br, SelectInSeq(F.ins[br].args, LAMBDA o : o = Label(old)), Label(new))

CopyPairs(S, i, pre, ins) ==
  LET x == S.F.ins[i]
      c == S.F.next
      outside == SelectSeq([k \in 1..phi_pairs(x) |-> k], LAMBDA k : phi_label(x, k) \in ToSet(ins))
      Copied == Fold(LAMBDA G, k : add_incoming(G, c, phi_label(x, k), phi_val(x, k)),
                     push_after_label(S.F, pre, Phi(x.ty)), outside)
  IN [S EXCEPT !.F = add_incoming(Copied, i, pre, Ref(c)), !.phis = Append(@, c)]
MovePairs(S, i, pre, ins) ==
  [CopyPairs(S, i, pre, ins) EXCEPT !.F = Fold(LAMBDA G, b : PhiRemove(G, i, b), @, ins)]

InsertPreheader(S, D, h) ==
  LET F == S.F
      pre == F.next
      ins == InOrder({b \in in_blocks(F, h) : ~is_dom(D, b, h)})
      New == [F EXCEPT !.body = (pre :> <<>>) @@ @, !.users = (pre :> <<>>) @@ @, !.next = @ + 1]
      R == Fold(LAMBDA T, i : MovePairs(T, i, pre, ins), [S EXCEPT !.F = New], PhisOf(F, h))
      G == Fold(LAMBDA H, b : branch_label_replace(H, Last(H.body[b]), h, pre), push_back(R.F, pre, Br(h)), ins)
  IN [R EXCEPT !.F = [G EXCEPT !.blocks = At(@, Position(@, h), pre)]]
-----------------------------------------------------------------------------
(* The pass: S is [F, aliases, hoistable, failed], aliases the moved       *)
(* indexings of an array that equal ones are replaced with, hoistable      *)
(* those of this loop.                                                     *)
InvariantElsewhere(F, D, h, o) ==
  IsImm(o) \/ IsGlobal(o) \/ (IsRef(o) /\ BlockOf(F, o[2]) # h)
InvariantIn(F, D, h, o) ==
  IsImm(o) \/ IsGlobal(o) \/ (IsRef(o) /\ StrictlyAbove(D, BlockOf(F, o[2]), h))
is_gep_invariant(F, D, h, x) == \A k \in DOMAIN x.args : x.args[k][1] = "arg" \/ InvariantIn(F, D, h, x.args[k])

instr_move(F, i, b) ==
  LET G == [F EXCEPT !.body[BlockOf(F, i)] = Without(@, i)] IN Place(G, b, Len(G.body[b]), i)

(* The first indexing of an array goes into a copy of the set of aliases   *)
(* and is forgotten.  The order of that set is none: with more than two    *)
(* members it may miss an equal one.                                       *)
MoveGep(S, D, h, i) ==
  LET F == S.F
      base == F.ins[i].args[1]
      equal == {g \in S.aliases[base] : F.ins[g] = F.ins[i]}
      real == CHOOSE g \in equal : TRUE
      Moved1 == [S EXCEPT !.F = instr_move(F, i, D.idom[h]), !.hoistable = @ \cup {i}]
      Merged(old, new) == EraseInstr(replace_self(F, old, Ref(new)), BlockOf(F, old), old)
      here == BlockOf(F, i)
      there == BlockOf(F, real)
  IN IF base \notin DOMAIN S.aliases THEN [Moved1 EXCEPT !.aliases = (base :> {}) @@ @]
     ELSE IF equal = {} THEN [Moved1 EXCEPT !.aliases[base] = @ \cup {i}]
     ELSE IF there # here /\ is_dom(D, there, here)
     THEN [S EXCEPT !.F = Merged(real, i), !.hoistable = (@ \ {real}) \cup {i},
                    !.aliases[base] = (@ \ {real}) \cup {i}]
     ELSE IF is_dom(D, here, there) THEN [S EXCEPT !.F = Merged(i, real)] ELSE S

(* An ItemInstr is passed on to arithmetic_ap, which asserts that it never *)
(* sees one.                                                               *)
MoveInstr(S, D, h, i) ==
  LET x == S.F.ins[i]
  IN CASE x.op = "gep" -> IF is_gep_invariant(S.F, D, h, x) THEN MoveGep(S, D, h, i) ELSE S
       [] x.op = "item" -> [S EXCEPT !.failed = TRUE]
       [] x.op \in {"cast", "cmp", "bin"} ->
            IF \A k \in DOMAIN x.args : InvariantIn(S.F, D, h, x.args[k])
            THEN [S EXCEPT !.F = instr_move(@, i, D.idom[h])] ELSE S
       [] OTHER -> S
process_cur_blk(S, D, h, b) == Fold(LAMBDA T, i : MoveInstr(T, D, h, i), S, S.F.body[b])

(* The blocks of a loop that are reached down the tree of dominators       *)
(* without leaving it, the last child of a block first.                    *)
RECURSIVE DownTree(_, _, _)
DownTree(D, loop, b) ==
  IF b \notin loop THEN <<>>
  ELSE <<b>> \o FlattenSeq([k \in DOMAIN Reverse(InOrder(Children(D.idom, b))) |->
                              DownTree(D, loop, Reverse(InOrder(Children(D.idom, b)))[k])])

(* A store of a value from above to an indexing nobody else uses follows.  *)
MoveStore(F, D, h, g) ==
  LET s == CHOOSE j \in Users(F, g) : TRUE
  IN IF UseCount(F, g) = 1 /\ F.ins[s].op = "store" /\ InvariantIn(F, D, h, F.ins[s].args[2])
     THEN instr_move(F, s, D.idom[h]) ELSE F

MoveOutOf(S, D, loop) ==
  LET R == Fold(LAMBDA T, b : process_cur_blk(T, D, loop.header, b), S, DownTree(D, loop.blocks, loop.header))
  IN [R EXCEPT !.F = Fold(LAMBDA F, g : MoveStore(F, D, loop.header, g), @, InOrder(R.hoistable)),
               !.hoistable = {}]

TrivialPhi(F, i) ==
  IF i \notin DOMAIN F.ins THEN Crash(F) ELSE
  tryRemoveTrivialPhi([F |-> F, def |-> <<>>, sealed |-> {}, incomplete |-> <<>>, v |-> NoOperand, pred |-> <<>>], i).F

loop_gep_motion(F) ==
  LET D == build_dom(F)
      loops == LoopInfo(F, D)
      headers == InOrder(DOMAIN loops)
      P == Fold(LAMBDA S, h : InsertPreheader(S, D, h), [F |-> F, phis |-> <<>>], headers)
      E == build_dom(P.F)
      R == Fold(LAMBDA S, h : MoveOutOf(S, E, loops[h]),
                [F |-> P.F, aliases |-> <<>>, hoistable |-> {}, failed |-> FALSE], headers)
  IN IF LoopInfoFails(F, D) \/ R.failed THEN Crash(F) ELSE Fold(TrivialPhi, R.F, P.phis)
=============================================================================
