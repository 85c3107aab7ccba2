--------------------------------- MODULE IR ---------------------------------
(***************************************************************************)
(* The intermediate representation: src/include/ir_val.h, ir_instr.h,      *)
(* ir_block.h, ir_phi_instr.h and their sources.  A function is a record   *)
(*   blocks  its blocks in order, each named by the number of its label    *)
(*   body    block -> the numbers of its instructions, the label left out  *)
(*   ins     number -> [op, sub, ty, args], for every instruction alive    *)
(*   users   label -> the instructions that use it, in the order of its    *)
(*           list of uses (passes walk that list while it changes)         *)
(*   params  types of the parameters;  ret  the type returned              *)
(*   next    the next free number                                          *)
(*   crash   whether a pass ran into undefined behaviour or never ended    *)
(* `sub' tells operations of one kind apart: the operator of a `bin', the  *)
(* relation of a `cmp', the callee of a `call', in_this_dim of a `gep'.    *)
(* The uses of a value that is not a label are read off the operands.      *)
(***************************************************************************)
EXTENDS Types, FiniteSets, FiniteSetsExt

(* FoldLeft, by halves.  TLC computes the one element of the inner set     *)
(* before it goes on, so that n steps nest no deeper than the logarithm.   *)
RECURSIVE Fold(_, _, _)
Fold(Op(_, _), acc, s) ==
  LET half == Len(s) \div 2
      First == {Fold(Op, acc, SubSeq(s, 1, half))}
  IN IF s = <<>> THEN acc
     ELSE IF Len(s) = 1 THEN Op(acc, s[1])
     ELSE CHOOSE r \in {Fold(Op, x, SubSeq(s, half + 1, Len(s))) : x \in First} : TRUE

(* p after Op was done n times, or as often as it takes to end; by halves.  *)
RECURSIVE Repeat(_, _, _, _)
Repeat(Op(_), Ended(_), p, n) ==
  LET First == {Repeat(Op, Ended, p, n \div 2)}
  IN IF n = 0 \/ Ended(p) THEN p
     ELSE IF n = 1 THEN Op(p)
     ELSE CHOOSE r \in {Repeat(Op, Ended, q, n - n \div 2) : q \in First} : TRUE

(* The same function, which TLC now computes once and not where it is used.*)
Tabulated(f) == f @@ <<>>

Imm(n, t) == <<"const", n, t>>
Ref(i) == <<"instr", i>>
Label(b) == <<"label", b>>
Arg(k) == <<"arg", k>>
Glob(g) == <<"global", g>>
IsImm(o) == o[1] = "const"
IsRef(o) == o[1] = "instr"
IsLabel(o) == o[1] = "label"
ImmOf(o) == ImmValue(o[2], o[3])
OperandOf(v) == Imm(v.val, v.ty)

Ins(op, sub, ty, args) == [op |-> op, sub |-> sub, ty |-> ty, args |-> args]
Br(b) == Ins("br", "", Void, <<Label(b)>>)
BrCond(c, t, f) == Ins("brcond", "", Void, <<c, Label(t), Label(f)>>)
Load(p, ty) == Ins("load", "", ty, <<p>>)
Store(p, v) == Ins("store", "", Void, <<p, v>>)
Alloca(ty) == Ins("alloca", "", PointerTo(ty), <<>>)
Bin(op, ty, a, b) == Ins("bin", op, ty, <<a, b>>)
Cmp(rel, a, b) == Ins("cmp", rel, Basic("I1"), <<a, b>>)
Cast(from, ty, a) == Ins("cast", get_cast_method(from, ty), ty, <<a>>)
Phi(ty) == Ins("phi", "", ty, <<>>)

(* MiniGepInstr: indexing of an array, or of what the pointer walks over.  *)
MiniGep(pty, p, n, in_this_dim) ==
  Ins("gep", in_this_dim, IF in_this_dim THEN pty ELSE PointerTo(Inner(Inner(pty))), <<p, n>>)

(* ItemInstr with one constant per dimension of the array.                 *)
RECURSIVE ex_shell(_, _)
ex_shell(ty, n) == IF n = 0 THEN ty ELSE ex_shell(Inner(ty), n - 1)
Item(pty, p, ns) == Ins("item", "", PointerTo(ex_shell(Inner(pty), Len(ns))), <<p>> \o ns)

is_terminator(x) == x.op \in {"br", "brcond", "ret", "unreachable"}
no_regs(x) == is_terminator(x) \/ x.op = "store" \/ x.ty = Void

(* Type of an operand; Globals maps the name of a global to its type.      *)
TypeOfOperand(F, Globals, o) ==
  CASE IsImm(o) -> Basic(o[3])
    [] IsRef(o) -> F.ins[o[2]].ty
    [] o[1] = "arg" -> F.params[o[2]]
    [] o[1] = "global" -> PointerTo(Globals[o[2]])
-----------------------------------------------------------------------------
RECURSIVE InOrder(_)
InOrder(S) == IF S = {} THEN <<>> ELSE <<Min(S)>> \o InOrder(S \ {Min(S)})
LabelsIn(args) == {a[2] : a \in {x \in ToSet(args) : IsLabel(x)}}
Without(s, x) == SelectSeq(s, LAMBDA y : y # x)
At(s, k, x) == InsertAt(s, k, x)
Alive(F) == UNION {ToSet(F.body[b]) : b \in ToSet(F.blocks)}
BlockOf(F, i) == CHOOSE b \in ToSet(F.blocks) : i \in ToSet(F.body[b])
Placed(F, i) == \E b \in ToSet(F.blocks) : i \in ToSet(F.body[b])
Position(s, x) == SelectInSeq(s, LAMBDA y : y = x)
Back(F, b) == F.ins[Last(F.body[b])]
PhisOf(F, b) == SelectSeq(F.body[b], LAMBDA i : F.ins[i].op = "phi")

(* One use less of a label: the first entry of that user, as the entries   *)
(* of one user cannot be told apart.                                       *)
DropUse(F, b, i) ==
  IF b \in DOMAIN F.users /\ i \in ToSet(F.users[b])
  THEN [F EXCEPT !.users[b] = RemoveFirst(@, i)] ELSE F
AddUse(F, b, i) ==
  [F EXCEPT !.users = IF b \in DOMAIN @ THEN [@ EXCEPT ![b] = Append(@, i)] ELSE (b :> <<i>>) @@ @]

UseAll(F, i, args) == Fold(LAMBDA G, a : IF IsLabel(a) THEN AddUse(G, a[2], i) ELSE G, F, args)
DropAll(F, i, args) == Fold(LAMBDA G, a : IF IsLabel(a) THEN DropUse(G, a[2], i) ELSE G, F, args)

(* A new instruction, in no block yet; add_operand for each operand.       *)
Make(F, x) == UseAll([F EXCEPT !.ins = (F.next :> x) @@ @, !.next = @ + 1], F.next, x.args)
Place(F, b, k, i) == [F EXCEPT !.body[b] = At(@, k, i)]
Insert(F, b, k, x) == Place(Make(F, x), b, k, F.next)
push_back(F, b, x) == Insert(F, b, Len(F.body[b]) + 1, x)
push_behind_end(F, b, x) == Insert(F, b, Len(F.body[b]), x)
push_after_label(F, b, x) == Insert(F, b, 1, x)

change_operand(F, i, k, o) ==
  LET G == DropAll(F, i, <<F.ins[i].args[k]>>)
  IN UseAll([G EXCEPT !.ins[i].args[k] = o], i, <<o>>)
release_operand(F, i, k) ==
  [DropAll(F, i, <<F.ins[i].args[k]>>) EXCEPT !.ins[i].args = RemoveAt(@, k)]

(* Every list of operands changes.                                         *)
ChangeArgs(F, New(_)) == [F EXCEPT !.ins = Tabulated([j \in DOMAIN @ |-> [@[j] EXCEPT !.args = New(@)]])]
Substituted(args, o, p) == Tabulated([k \in DOMAIN args |-> IF args[k] = o THEN p ELSE args[k]])

(* Val::replace_self of a value that is not a label, and of a label.       *)
replace_self(F, i, o) == ChangeArgs(F, LAMBDA args : Substituted(args, Ref(i), o))
ReplaceLabelOnly(F, b, c) ==
  [ChangeArgs(F, LAMBDA args : Substituted(args, Label(b), Label(c))) EXCEPT !.users[b] = <<>>]
ReplaceLabel(F, b, c) ==
  LET G == ChangeArgs(F, LAMBDA args : Substituted(args, Label(b), Label(c)))
  IN [G EXCEPT !.users[c] = @ \o F.users[b], !.users[b] = <<>>]

(* The last reference to an instruction goes: its uses leave the lists of  *)
(* its operands, and whoever still uses it loses that operand.             *)
Destroy(F, i) ==
  LET G == [DropAll(F, i, F.ins[i].args) EXCEPT !.ins = [j \in DOMAIN @ \ {i} |-> @[j]]]
  IN ChangeArgs(G, LAMBDA args : Without(args, Ref(i)))
EraseInstr(F, b, i) == Destroy([F EXCEPT !.body[b] = Without(@, i)], i)
EraseAll(F, b, is) == Fold(LAMBDA G, i : EraseInstr(G, b, i), F, is)

(* A block goes with its instructions, last to first, and its label: a     *)
(* phi that still names the label loses the operand and keeps the value.   *)
EraseBlock(F, b) ==
  LET G == EraseAll(F, b, F.body[b])
      H == [G EXCEPT !.blocks = Without(@, b),
                     !.body = Tabulated([c \in DOMAIN @ \ {b} |-> @[c]]),
                     !.users = Tabulated([c \in DOMAIN @ \ {b} |-> @[c]])]
  IN ChangeArgs(H, LAMBDA args : Without(args, Label(b)))
-----------------------------------------------------------------------------
Users(F, i) == {j \in DOMAIN F.ins : Ref(i) \in ToSet(F.ins[j].args)}
HasUsers(F, i) == \E j \in DOMAIN F.ins : Ref(i) \in ToSet(F.ins[j].args)

label_users(F, b) == IF b \in DOMAIN F.users THEN F.users[b] ELSE <<>>
in_blocks(F, b) ==
  {BlockOf(F, i) : i \in {j \in ToSet(label_users(F, b)) :
                            F.ins[j].op \in {"br", "brcond"} /\ Placed(F, j)}}
out_blocks(F, b) == IF F.body[b] = <<>> THEN {} ELSE LabelsIn(Back(F, b).args)

(* The same in the order of the Set they are put in, an unordered_set: of  *)
(* two the one put in last comes first.  Of three or more the hash of      *)
(* their addresses decides; the model goes on in the same way.             *)
SetInOrder(s) == Fold(LAMBDA t, x : IF x \in ToSet(t) THEN t ELSE <<x>> \o t, <<>>, s)
InOrderOfUse(F, b) ==
  LET branches == SelectSeq(label_users(F, b), LAMBDA i : F.ins[i].op \in {"br", "brcond"} /\ Placed(F, i))
  IN SetInOrder([k \in DOMAIN branches |-> BlockOf(F, branches[k])])
OutInOrder(F, b) ==
  LET labels == IF F.body[b] = <<>> THEN <<>> ELSE SelectSeq(Back(F, b).args, IsLabel)
  IN SetInOrder([k \in DOMAIN labels |-> labels[k][2]])

phi_pairs(x) == Len(x.args) \div 2
phi_val(x, k) == x.args[2 * k - 1]
phi_label(x, k) == x.args[2 * k][2]
PhiLabels(x) == {phi_label(x, k) : k \in 1..phi_pairs(x)}
add_incoming(F, i, b, o) ==
  LET args == <<o, Label(b)>>
  IN UseAll([F EXCEPT !.ins[i].args = @ \o args], i, args)

(* PhiInstr::remove: the pairs of one label go, and a phi left with one    *)
(* pair becomes that value.                                                *)
RECURSIVE DropPairs(_, _, _, _)
DropPairs(F, i, b, k) ==
  IF k > phi_pairs(F.ins[i]) THEN F
  ELSE IF phi_label(F.ins[i], k) = b
       THEN DropPairs(release_operand(release_operand(F, i, 2 * k - 1), i, 2 * k - 1), i, b, k)
       ELSE DropPairs(F, i, b, k + 1)
PhiRemove(F, i, b) ==
  LET G == DropPairs(F, i, b, 1)
  IN IF Len(G.ins[i].args) = 2
     THEN EraseInstr(replace_self(G, i, phi_val(G.ins[i], 1)), BlockOf(G, i), i)
     ELSE G

(* Block::erase_from_phi.  The list of uses is walked by position while    *)
(* the phis leave it: what moves into a position already passed is not     *)
(* seen, and positions past the new end are empty.                         *)
RECURSIVE ErasePhis(_, _, _, _)
ErasePhis(F, b, k, n) ==
  IF k > n THEN F
  ELSE IF k <= Len(label_users(F, b)) /\ F.ins[F.users[b][k]].op = "phi"
  THEN ErasePhis(PhiRemove(F, F.users[b][k], b), b, k + 1, n)
  ELSE ErasePhis(F, b, k + 1, n)
erase_from_phi(F, b) == ErasePhis(F, b, 1, Len(label_users(F, b)))
erase(F, b) == EraseBlock(erase_from_phi(F, b), b)

(* BlockedProgram::check_invalid_phi, negated.                             *)
PhiComplete(F, b, x) ==
  /\ Len(x.args) % 2 = 0
  /\ in_blocks(F, b) \subseteq PhiLabels(x)
NoInvalidPhi(F) ==
  \A b \in ToSet(F.blocks) : \A i \in ToSet(PhisOf(F, b)) : PhiComplete(F, b, F.ins[i])
=============================================================================
