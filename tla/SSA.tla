-------------------------------- MODULE SSA --------------------------------
(***************************************************************************)
(* SSA_pass (src/src/trans_SSA.cc): the scalars of a function leave        *)
(* memory.  S is the state of the pass:                                    *)
(*   F           the function                                              *)
(*   def         current_def: <<variable, block>> -> operand               *)
(*   sealed      sealedBlocks: the blocks whose predecessors are done      *)
(*   incomplete  incompletePhis: block -> Seq(<<variable, phi>>)           *)
(*   pred        predecessors of a block that are not done yet             *)
(*   v           the operand the last operation returned                   *)
(***************************************************************************)
EXTENDS Simplify, Dominators

promotable(F, i) == F.ins[i].op = "alloca" /\ ~is_array(Inner(F.ins[i].ty))
Crash(F) == [F EXCEPT !.crash = TRUE]
Fails(S) == [S EXCEPT !.F.crash = TRUE]

(* A value replaces another one wherever it is used, definitions included. *)
Replace(S, i, o) ==
  [S EXCEPT !.F = replace_self(@, i, o),
            !.def = Substituted(@, Ref(i), o)]
def_val(S, variable, b, o) == [S EXCEPT !.def = (<<variable, b>> :> o) @@ @, !.v = o]

(* Reading what was never written gives zero; there is none for pointers.  *)
undef_val(S, variable) ==
  LET ty == Inner(S.F.ins[variable].ty)
  IN IF ty[1] # "basic" THEN Fails(S) ELSE [S EXCEPT !.v = Imm(0, ty[2])]

(* tryRemoveTrivialPhi: a phi of one value and itself is that value.  Of   *)
(* its users only the phi it is replaced with is looked at again.          *)
RECURSIVE tryRemoveTrivialPhi(_, _)
tryRemoveTrivialPhi(S, phi) ==
  LET x == S.F.ins[phi]
      ops == {phi_val(x, k) : k \in 1..phi_pairs(x)}
      others == ops \ {Ref(phi)}
      same == CHOOSE o \in others : TRUE
      R == Replace(S, phi, same)
      T == [R EXCEPT !.F = EraseInstr(@, BlockOf(@, phi), phi), !.v = same]
      again == IsRef(same) /\ S.F.ins[same[2]].op = "phi" /\ same[2] \in Users(S.F, phi)
  IN IF S.F.crash THEN S
     ELSE IF others = {} THEN Fails(S)
     ELSE IF Cardinality(others) > 1 THEN [S EXCEPT !.v = Ref(phi)]
     ELSE IF again THEN tryRemoveTrivialPhi(T, same[2]) ELSE T

RECURSIVE use_val(_, _, _), use_val_recursive(_, _, _), addPhiOperands(_, _, _, _), AddIncoming(_, _, _, _)
use_val(S, variable, b) ==
  IF S.F.crash THEN S
  ELSE IF <<variable, b>> \in DOMAIN S.def THEN [S EXCEPT !.v = S.def[<<variable, b>>]]
  ELSE IF b = Entry(S.F) THEN undef_val(S, variable)
  ELSE use_val_recursive(S, variable, b)

use_val_recursive(S, variable, b) ==
  LET phi == S.F.next
      P == [S EXCEPT !.F = push_after_label(@, b, Phi(Inner(@.ins[variable].ty)))]
      ins == in_blocks(S.F, b)
      Read == IF Cardinality(ins) = 1 THEN use_val(S, variable, CHOOSE p \in ins : TRUE)
              ELSE addPhiOperands(def_val(P, variable, b, Ref(phi)), variable, phi, b)
      Waiting == IF b \in DOMAIN S.incomplete THEN S.incomplete[b] ELSE <<>>
  IN IF b \notin S.sealed
     THEN def_val([P EXCEPT !.incomplete = (b :> Append(Waiting, <<variable, phi>>)) @@ @],
                  variable, b, Ref(phi))
     ELSE IF ins = {} THEN Fails(S)
     ELSE def_val(Read, variable, b, Read.v)

(* The phi must not have been removed while its operands were looked for.  *)
AddIncoming(S, variable, phi, preds) ==
  LET R == use_val(S, variable, Head(preds))
  IN IF preds = <<>> \/ S.F.crash THEN S
     ELSE IF phi \notin DOMAIN R.F.ins THEN Fails(R)
     ELSE AddIncoming([R EXCEPT !.F = add_incoming(@, phi, Head(preds), R.v)], variable, phi, Tail(preds))
addPhiOperands(S, variable, phi, b) ==
  LET R == AddIncoming(S, variable, phi, InOrder(in_blocks(S.F, b)))
  IN IF R.F.crash THEN R ELSE tryRemoveTrivialPhi(R, phi)

sealBlock(S, b) ==
  LET waiting == IF b \in DOMAIN S.incomplete THEN S.incomplete[b] ELSE <<>>
      Fill(R, w) == IF R.F.crash THEN R
                    ELSE IF w[2] \notin DOMAIN R.F.ins THEN Fails(R)
                    ELSE addPhiOperands(R, w[1], w[2], b)
      R == Fold(Fill, S, waiting)
  IN [R EXCEPT !.sealed = @ \cup {b},
               !.incomplete = [c \in DOMAIN @ \ {b} |-> @[c]]]
trySeal(S, b) == IF b \in S.sealed \/ S.pred[b] # 0 THEN S ELSE sealBlock(S, b)

(* A store to a promoted variable defines it, a load is what was stored.   *)
(* Other addresses are arrays, indexed pointers or parameters.             *)
Verified(F, o) ==
  \/ o[1] \in {"global", "arg"}
  \/ IsRef(o) /\ F.ins[o[2]].op \in {"item", "gep"}
  \/ IsRef(o) /\ F.ins[o[2]].op = "alloca" /\ is_array(Inner(F.ins[o[2]].ty))
Promote(S, vars, b, i) ==
  LET x == S.F.ins[i]
      to == x.args[1]
      ours == IsRef(to) /\ to[2] \in vars
      R == use_val(S, to[2], b)
      Erase(T) == [T EXCEPT !.F = EraseInstr(@, b, i)]
  IN IF S.F.crash \/ x.op \notin {"load", "store"} THEN S
     ELSE IF ~ours THEN IF Verified(S.F, to) THEN S ELSE Fails(S)
     ELSE IF x.op = "store" THEN Erase(def_val(S, to[2], b, x.args[2]))
     ELSE IF R.F.crash THEN R ELSE Erase(Replace(R, i, R.v))

PromoteBlock(S, vars, b) ==
  LET R == trySeal(Fold(LAMBDA T, i : Promote(T, vars, b, i), S, S.F.body[b]), b)
  IN Fold(LAMBDA T, c : trySeal([T EXCEPT !.pred[c] = @ - 1], c), R, InOrder(out_blocks(R.F, b)))

(* reconstruct, and the destructor that removes the unused variables.      *)
reconstruct(F) ==
  LET D == build_dom(F)
      vars == {i \in ToSet(F.body[Entry(F)]) : promotable(F, i)}
      S == [F |-> F, def |-> <<>>, sealed |-> {}, incomplete |-> <<>>, v |-> Imm(0, "I32"),
            pred |-> [b \in ToSet(F.blocks) |-> Cardinality(in_blocks(F, b))]]
      R == Fold(LAMBDA T, b : PromoteBlock(T, vars, b), S, D.order)
      unused == {i \in ToSet(R.F.body[Entry(F)]) : promotable(R.F, i) /\ ~HasUsers(R.F, i)}
  IN IF vars = {} THEN F
     ELSE IF R.F.crash \/ R.sealed # ToSet(F.blocks) THEN Crash(R.F)
     ELSE EraseAll(R.F, Entry(F), InOrder(unused))
=============================================================================
