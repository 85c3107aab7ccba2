----------------------------- MODULE Dominators -----------------------------
(***************************************************************************)
(* Alys::DomTree (src/src/alys_dom.cc) and Alys::LoopInfo                  *)
(* (src/src/alys_loop.cc) of a function F of the intermediate code.        *)
(* A tree is [order, idom, dom, unreachable]; idom and dom are defined     *)
(* for the blocks in order, the entry has no idom.                         *)
(***************************************************************************)
EXTENDS IR

Entry(F) == F.blocks[1]

(* Depth first from b; `seen' collects the blocks in preorder.             *)
RECURSIVE dfsn(_, _, _)
dfsn(F, b, seen) ==
  IF b \in ToSet(seen) THEN seen
  ELSE Fold(LAMBDA s, c : dfsn(F, c, s), Append(seen, b), InOrder(out_blocks(F, b)))

(* The blocks that a search from the entry meets without passing n.        *)
Avoiding(F, n) == ToSet(dfsn(F, Entry(F), <<n>>)) \ {n}

(* The immediate dominator: the last block in preorder that cuts b off.    *)
Idoms(F) ==
  LET idfn == dfsn(F, Entry(F), <<>>)
      met == Tabulated([k \in DOMAIN idfn |-> IF idfn[k] = Entry(F) THEN {} ELSE Avoiding(F, idfn[k])])
      Cuts(b) == {k \in DOMAIN idfn : b \notin met[k] /\ idfn[k] # b}
  IN Tabulated([b \in ToSet(idfn) \ {Entry(F)} |-> idfn[Max(Cuts(b))]])

(* build_dfsn: the tree in preorder.  Children of one block are walked in  *)
(* the order of their numbers; the code sorts the names of their labels.   *)
Children(idom, b) == {c \in DOMAIN idom : idom[c] = b}
RECURSIVE build_dfsn(_, _)
build_dfsn(idom, b) ==
  Fold(LAMBDA s, c : s \o build_dfsn(idom, c), <<b>>, InOrder(Children(idom, b)))

RECURSIVE DomsOf(_, _)
DomsOf(idom, b) == {b} \cup IF b \in DOMAIN idom THEN DomsOf(idom, idom[b]) ELSE {}

build_dom(F) ==
  LET idom == Idoms(F)
      order == build_dfsn(idom, Entry(F))
  IN [order |-> order, idom |-> idom,
      dom |-> Tabulated([b \in ToSet(order) |-> DomsOf(idom, b)]),
      unreachable |-> ToSet(F.blocks) \ ToSet(order)]

(* a is dominated by b.                                                    *)
is_dom(D, a, b) == b \in D.dom[a]
StrictlyAbove(D, b, a) == a # b /\ is_dom(D, a, b)

(* DomTree::LCA: up from the deeper block, then up from both.              *)
RECURSIVE Lift(_, _, _)
Lift(D, a, b) ==
  IF a = b THEN a
  ELSE IF Cardinality(D.dom[a]) > Cardinality(D.dom[b]) THEN Lift(D, D.idom[a], b)
  ELSE IF Cardinality(D.dom[b]) > Cardinality(D.dom[a]) THEN Lift(D, a, D.idom[b])
  ELSE Lift(D, D.idom[a], D.idom[b])
LCA(D, a, b) == IF is_dom(D, a, b) THEN b ELSE IF is_dom(D, b, a) THEN a ELSE Lift(D, a, b)
-----------------------------------------------------------------------------
(* complete_loop: what reaches the latch inside of the header's reign.     *)
RECURSIVE complete_loop(_, _, _, _, _)
complete_loop(F, D, header, stack, loop) ==
  IF stack = {} THEN loop \cup {header}
  ELSE LET new == {p \in UNION {in_blocks(F, b) : b \in stack} :
                     p # header /\ p \in DOMAIN D.dom /\ is_dom(D, p, header)}
       IN complete_loop(F, D, header, new \ (loop \cup stack), loop \cup stack)

(* What has the same value in every turn: a constant, or the result of an  *)
(* instruction of a block above.  A parameter belongs to no block.         *)
is_invariant(F, D, header, o) ==
  IsImm(o) \/ (IsRef(o) /\ StrictlyAbove(D, BlockOf(F, o[2]), header))

NoOperand == <<"none">>
NoInduction == [ind |-> NoOperand, bound |-> NoOperand, cmp_op |-> "", cnd |-> 0]

(* handle_indvar: the header leaves the loop by comparing an induction     *)
(* variable with a bound.  The comparison is not turned round when the     *)
(* bound stands on the left.                                               *)
handle_indvar(F, D, header) ==
  LET back == Back(F, header)
      c == back.args[1]
      cmp == F.ins[c[2]]
      Fixed(k) == is_invariant(F, D, header, cmp.args[k])
      Found(i, b) == [ind |-> cmp.args[i], bound |-> cmp.args[b], cmp_op |-> cmp.sub, cnd |-> c[2]]
  IN IF back.op # "brcond" THEN NoInduction
     ELSE IF ~Fixed(1) /\ Fixed(2) THEN Found(1, 2)
     ELSE IF Fixed(1) /\ ~Fixed(2) THEN Found(2, 1)
     ELSE [NoInduction EXCEPT !.cmp_op = cmp.sub, !.cnd = c[2]]

(* The condition of a header that branches has to be a comparison.         *)
HeaderCompares(F, header) ==
  LET back == Back(F, header)
  IN back.op = "brcond" => IsRef(back.args[1]) /\ F.ins[back.args[1][2]].op = "cmp"

Headers(F, D) == {h \in DOMAIN D.dom : \E b \in in_blocks(F, h) : b \in DOMAIN D.dom /\ is_dom(D, b, h)}
Latches(F, D, h) == {b \in in_blocks(F, h) : b \in DOMAIN D.dom /\ is_dom(D, b, h)}
LoopInfoFails(F, D) == D.unreachable # {} \/ \E h \in Headers(F, D) : ~HeaderCompares(F, h)
LoopInfo(F, D) ==
  [h \in Headers(F, D) |->
     [header |-> h, blocks |-> complete_loop(F, D, h, Latches(F, D, h), {})] @@ handle_indvar(F, D, h)]
=============================================================================
