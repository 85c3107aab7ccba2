---------------------------- MODULE LoopIteration ----------------------------
(***************************************************************************)
(* The passes over loops that count: src/src/opt_array_accumulate.cpp      *)
(* (loops that clear an array or add it up) and src/src/opt_ptr_iter.cpp   *)
(* (indices turned into pointers, unrolling by eight).  Loops, the blocks  *)
(* of a loop and the arrays of a loop are kept in hash tables of pointers; *)
(* the model takes them in the order of their numbers.                     *)
(***************************************************************************)
EXTENDS LoopMotion, DataFlow

(* What detect_iteration finds: found, or failed when an assertion of it   *)
(* does.  An iteration is [val, step, from], in the order of the pairs.    *)
NoIteration == [found |-> FALSE, failed |-> FALSE]

StepOf(F, phi, o) ==
  LET x == F.ins[o[2]]
      at == {k \in 1..2 : x.args[k] = Ref(phi)}
  IN IF ~IsBin(F, o, {"add"}) \/ Cardinality(at) # 1 THEN NoOperand ELSE x.args[3 - Min(at)]

(* The pairs of the counter that come from outside, and those from inside. *)
Pairs(F, loop, phi, inside) ==
  SelectSeq([k \in 1..phi_pairs(F.ins[phi]) |-> k], LAMBDA k : (phi_label(F.ins[phi], k) \in loop.blocks) = inside)

detect_iteration(F, loop) ==
  LET phi == loop.ind[2]
      x == F.ins[phi]
      outside == Pairs(F, loop, phi, FALSE)
      inside == Pairs(F, loop, phi, TRUE)
      Steps(k) == StepOf(F, phi, phi_val(x, k)) # NoOperand /\ UseCount(F, phi_val(x, k)[2]) = 1
      first == inside[1]
      outs == out_blocks(F, loop.header)
      entries == outs \cap (loop.blocks \ {loop.header})
      leave == outs \ loop.blocks
  IN IF ~IsRef(loop.ind) \/ phi \notin DOMAIN F.ins THEN NoIteration
     ELSE IF x.op # "phi" THEN NoIteration
     ELSE IF inside # <<>> /\ ~Steps(first) THEN NoIteration
     ELSE IF Len(outside) # 1 \/ inside = <<>> THEN [NoIteration EXCEPT !.failed = TRUE]
     ELSE IF \E k \in ToSet(inside) : ~Steps(k) THEN NoIteration
     ELSE IF Cardinality(entries) > 1 THEN NoIteration
     ELSE [found |-> TRUE, failed |-> FALSE, loop |-> loop, phi |-> phi,
           initial |-> phi_val(x, outside[1]), from |-> phi_label(x, outside[1]),
           pred |-> Min(in_blocks(F, loop.header) \ loop.blocks),
           entry |-> entries, succ |-> leave,
           iterations |-> [k \in DOMAIN inside |->
             [val |-> phi_val(x, inside[k]), step |-> StepOf(F, phi, phi_val(x, inside[k])),
              from |-> phi_label(x, inside[k])]]]

Upwards(loop) == loop.cmp_op \in {"slt", "sle"}
EachLoop(F, Visit(_, _)) ==
  LET D == build_dom(F)
      loops == LoopInfo(F, D)
  IN IF LoopInfoFails(F, D) THEN Crash(F)
     ELSE Fold(LAMBDA G, h : IF G.crash THEN G ELSE Visit(G, loops[h]), F, InOrder(DOMAIN loops))

(* A loop of a header and one block: that block's instructions by kind.    *)
BodyOf(loop) == CHOOSE b \in loop.blocks : b # loop.header
Shape(F, loop) == [k \in DOMAIN F.body[BodyOf(loop)] |-> F.ins[F.body[BodyOf(loop)][k]].op]
InstrOf(F, loop, k) == F.ins[F.body[BodyOf(loop)][k]]
ResultOf(F, loop, k) == Ref(F.body[BodyOf(loop)][k])

(* The loop is left out: its header no longer goes to the body, and the    *)
(* comparisons and phis of the header go, whoever uses them.               *)
LeaveOut(F, header) ==
  LET G == squeeze_out(F, header, FALSE)
      Erase(H, op) == EraseAll(H, header, SelectSeq(H.body[header], LAMBDA i : H.ins[i].op = op))
  IN IF G.crash THEN G ELSE Erase(Erase(G, "cmp"), "phi")
-----------------------------------------------------------------------------
(* replace_init_with_fill_zero.  The sum for a loop with <= is computed    *)
(* and not used.                                                           *)
ClearsArray(F, loop) ==
  /\ Shape(F, loop) = <<"gep", "store", "bin", "br">>
  /\ InstrOf(F, loop, 2).args[1] = ResultOf(F, loop, 1)
  /\ InstrOf(F, loop, 1).args[2] = loop.ind
  /\ IsImm(InstrOf(F, loop, 2).args[2]) /\ InstrOf(F, loop, 2).args[2][2] = 0

FillZeroInstead(F, Globals, loop, pred) ==
  LET array == InstrOf(F, loop, 1).args[1]
      F1 == push_behind_end(F, pred, Cast(TypeOfOperand(F, Globals, array), PointerTo(Basic("I8")), array))
      F2 == IF loop.cmp_op = "sle" THEN push_behind_end(F1, pred, Bin("add", Basic("I32"), loop.bound, Imm(1, "I32"))) ELSE F1
      F3 == push_behind_end(F2, pred, Ins("call", "__builtin_fill_zero", Void, <<Ref(F.next), loop.bound>>))
  IN LeaveOut(F3, loop.header)

Types(M) == [g \in DOMAIN M.globals |-> M.globals[g].ty]
replace_init_with_fill_zero(M, F) ==
  LET Visit(G, loop) ==
        LET it == detect_iteration(G, loop)
        IN IF Cardinality(loop.blocks) # 2 THEN G
           ELSE IF it.failed THEN Crash(G)
           ELSE IF it.found /\ Upwards(loop) /\ IsImm(it.initial) /\ it.initial[2] = 0 /\ ClearsArray(G, loop)
           THEN FillZeroInstead(G, Types(M), loop, it.pred) ELSE G
  IN EachLoop(F, Visit)
-----------------------------------------------------------------------------
(* array_accumulate.  The elements are those that constant propagation     *)
(* knows before the loop; an unknown one counts as zero.                   *)
AddsUpArray(F, loop) ==
  LET gep == InstrOf(F, loop, 1)
      arr == gep.args[1]
  IN /\ Shape(F, loop) = <<"gep", "load", "bin", "bin", "br">>
     /\ InstrOf(F, loop, 3).sub = "add"
     /\ InstrOf(F, loop, 2).args[1] = ResultOf(F, loop, 1)
     /\ gep.args[2] = loop.ind
     /\ IsAlloca(F, arr) /\ is_array(Inner(F.ins[arr[2]].ty)) /\ is_basic_type(Inner(Inner(F.ins[arr[2]].ty)))
     /\ ResultOf(F, loop, 2) \in ToSet(InstrOf(F, loop, 3).args)

(* getarray gives nothing up for an array that may change.                 *)
Changes(F, A, loop, arr) ==
  LET Stored1(g) == \E s \in Users(F, g) : F.ins[s].op = "store" /\ BlockOf(F, s) = BodyOf(loop)
      v == A.in[BodyOf(loop)]
  IN \/ has(v, arr) /\ v.val[arr] = NAC
     \/ \E g \in Users(F, arr) : F.ins[g].op = "gep" /\ Stored1(g)
KnownSum(v, arr, start, end) ==
  Fold(LAMBDA n, k : n + IF <<arr, k>> \in DOMAIN v.arr THEN v.arr[<<arr, k>>].val ELSE 0,
       0, [k \in 1..(end - start + 1) |-> start + k - 1])

SumInstead(F, A, loop, it) ==
  LET bin == InstrOf(F, loop, 3)
      arr == InstrOf(F, loop, 1).args[1][2]
      outer == bin.args[IF bin.args[1] = ResultOf(F, loop, 2) THEN 2 ELSE 1]
      sum == outer[2]
      end == loop.bound[2] - IF loop.cmp_op = "slt" THEN 1 ELSE 0
      start == it.initial[2]
      initials == Pairs(F, loop, sum, FALSE)
      known == Imm(KnownSum(A.in[BodyOf(loop)], arr, start, end), "I32")
      G == push_behind_end(F, it.pred, Bin("add", Basic("I32"), phi_val(F.ins[sum], initials[1]), known))
  IN IF Changes(F, A, loop, arr) \/ end = -1 THEN F
     ELSE IF end < -1 \/ (start < 0 /\ start <= end) THEN Crash(F)
     ELSE IF ~IsRef(outer) THEN F
     ELSE IF F.ins[sum].op # "phi" THEN F
     ELSE IF Len(initials) # 1 THEN Crash(F)
     ELSE LeaveOut(replace_self(G, sum, Ref(F.next)), loop.header)

array_accumulate(F) ==
  LET A == Constants(F)
      Visit(G, loop) ==
        LET it == detect_iteration(G, loop)
        IN IF Cardinality(loop.blocks) # 2 THEN G
           ELSE IF it.failed THEN Crash(G)
           ELSE IF it.found /\ Upwards(loop) /\ IsImm(it.initial) /\ IsImm(loop.bound) /\ AddsUpArray(G, loop)
           THEN SumInstead(G, A, loop, it) ELSE G
  IN IF A.fail THEN Crash(F) ELSE EachLoop(F, Visit)
-----------------------------------------------------------------------------
(* pointer_iteration: an array that the counter indexes gets a pointer     *)
(* that runs along.                                                        *)
IndexedBy(F, phi) == {g \in Users(F, phi) : F.ins[g].op = "gep"}
ArraysOf(F, phi) == {F.ins[g].args[1] : g \in IndexedBy(F, phi)}
MadeInside(F, loop, o) == IsRef(o) /\ \E b \in loop.blocks : o[2] \in ToSet(F.body[b])

PointerFor(F, it, array) ==
  LET geps == InOrder({g \in IndexedBy(F, it.phi) : F.ins[g].args[1] = array})
      first == F.ins[geps[1]]
      At0(o) == [first EXCEPT !.args = <<array, o>>]
      base == F.next
      phi == F.next + 2
      Step(G, k) ==
        LET t == it.iterations[k]
            H == push_behind_end(G, t.from, Ins("gep", TRUE, first.ty, <<Ref(phi), t.step>>))
        IN add_incoming(H, phi, t.from, Ref(G.next))
      F1 == push_behind_end(push_behind_end(F, it.pred, At0(it.initial)), it.pred, At0(it.loop.bound))
      F2 == add_incoming(push_after_label(F1, it.loop.header, Phi(first.ty)), phi, it.from, Ref(base))
      F3 == Fold(Step, F2, [k \in DOMAIN it.iterations |-> k])
      Gone(G, g) == EraseInstr(replace_self(G, g, Ref(phi)), BlockOf(G, g), g)
  IN Fold(Gone, F3, geps)

OrderOfArrays(F, phi) ==
  LET firsts == InOrder({Min({g \in IndexedBy(F, phi) : F.ins[g].args[1] = a}) : a \in ArraysOf(F, phi)})
  IN [k \in DOMAIN firsts |-> F.ins[firsts[k]].args[1]]
pointer_iteration(F) ==
  LET Visit(G, loop) ==
        LET it == detect_iteration(G, loop)
        IN IF it.failed THEN Crash(G)
           ELSE IF ~it.found THEN G
           ELSE IF \E a \in ArraysOf(G, it.phi) : MadeInside(G, loop, a) THEN G
           ELSE Fold(LAMBDA H, a : PointerFor(H, it, a), G, OrderOfArrays(G, it.phi))
  IN EachLoop(F, Visit)
-----------------------------------------------------------------------------
(* Blocks are copied in front of `before'.  subst says what stands for     *)
(* what, besides the copies for the originals.                             *)
CloneBlocks(F, blocks, before, subst) ==
  LET old == FlattenSeq([k \in DOMAIN blocks |-> <<blocks[k]>> \o F.body[blocks[k]]])
      new == Tabulated([x \in ToSet(old) |-> F.next + Position(old, x) - 1])
      Lookup(o) ==
        CASE o \in DOMAIN subst -> subst[o]
          [] o \notin DOMAIN subst /\ o[1] \in {"instr", "label"} /\ o[2] \in DOMAIN new -> <<o[1], new[o[2]]>>
          [] OTHER -> o
      code == SelectSeq(old, LAMBDA x : x \notin ToSet(blocks))
      copies == {new[b] : b \in ToSet(blocks)}
      Original(n) == old[n - F.next + 1]
      G == [F EXCEPT
              !.next = @ + Len(old),
              !.ins = Tabulated([n \in {new[i] : i \in ToSet(code)} |->
                        [F.ins[Original(n)] EXCEPT !.args = [k \in DOMAIN @ |-> Lookup(@[k])]]]) @@ @,
              !.body = Tabulated([n \in copies |-> [k \in DOMAIN F.body[Original(n)] |-> new[F.body[Original(n)][k]]]]) @@ @,
              !.users = [n \in copies |-> <<>>] @@ @,
              !.blocks = LET k == Position(@, before)
                         IN SubSeq(@, 1, k - 1) \o [j \in DOMAIN blocks |-> new[blocks[j]]] \o SubSeq(@, k, Len(@))]
  IN [F |-> Fold(LAMBDA H, i : UseAll(H, new[i], H.ins[new[i]].args), G, code),
      map |-> Tabulated([o \in {<<"instr", i>> : i \in ToSet(code)} \cup {<<"label", b>> : b \in ToSet(blocks)} |->
                <<o[1], new[o[2]]>>]) @@ subst]
Mapped1(map, o) == IF o \in DOMAIN map THEN map[o] ELSE o

(* Block::replace_in.                                                      *)
replace_in(F, b, before, in) ==
  LET Change(G, i) ==
        LET k == SelectInSeq([n \in 1..phi_pairs(G.ins[i]) |-> phi_label(G.ins[i], n)], LAMBDA l : l = before)
        IN IF k = 0 THEN G ELSE change_operand(G, i, 2 * k, Label(in))
  IN Fold(Change, F, PhisOf(F, b))

(* The loop that is left runs on from where the copy in front stops: what  *)
(* both phis get from the same value, the old one now gets from the new.   *)
FromCopy(F, header, copy) ==
  LET SameIn(old, new, k) == phi_val(F.ins[old], k) = phi_val(F.ins[new], k)
      Change(G, n) ==
        LET old == F.body[header][n]
            new == F.body[copy][n]
        IN IF F.ins[old].op # "phi" \/ F.ins[new].op # "phi" THEN G
           ELSE Fold(LAMBDA H, k : IF SameIn(old, new, k) THEN change_operand(H, old, 2 * k - 1, Ref(new)) ELSE H,
                     G, [k \in 1..phi_pairs(F.ins[old]) |-> k])
  IN Fold(Change, F, [n \in DOMAIN F.body[copy] |-> n])

UNROLLING_CYCLE == 8
AheadTooLittle == UNROLLING_CYCLE - 2
Ahead == UNROLLING_CYCLE - 1
(* The copy goes on while eight more turns are allowed.                    *)
AheadCondition(F, copy) ==
  LET k == SelectInSeq(F.body[copy], LAMBDA i : F.ins[i].op = "cmp")
      cmp == F.body[copy][k]
      x == F.ins[cmp]
      G == Insert(F, copy, k, Bin("add", Basic("I32"), x.args[1], Imm(Ahead, "I32")))
      H == Insert(G, copy, k + 1, Cmp(x.sub, Ref(F.next), x.args[2]))
  IN IF k = 0 THEN F ELSE EraseInstr(replace_self(H, cmp, Ref(G.next)), copy, cmp)

(* For a copied turn a phi stands for what it got at the end of the last   *)
(* one; a phi of its own when the turn can end in several places.          *)
TurnStart(S, copy, pred) ==
  LET Incoming(i) == SelectSeq([k \in 1..phi_pairs(S.F.ins[i]) |-> k], LAMBDA k : phi_label(S.F.ins[i], k) # pred)
      Add(R, i) ==
        LET x == R.F.ins[i]
            ks == Incoming(i)
            own == Fold(LAMBDA G, k : add_incoming(G, R.F.next, phi_label(x, k), phi_val(x, k)),
                        Make(R.F, Phi(x.ty)), ks)
        IN IF ks = <<>> THEN R
           ELSE IF Len(ks) = 1 THEN [R EXCEPT !.subst = (Ref(i) :> phi_val(x, ks[1])) @@ @]
           ELSE [R EXCEPT !.F = own, !.subst = (Ref(i) :> Ref(R.F.next)) @@ @, !.subs = Append(@, R.F.next)]
  IN Fold(Add, [F |-> S.F, subst |-> <<>>, subs |-> <<>>], PhisOf(S.F, copy))

(* replace_out(nullptr, out) is right for a jump only.                     *)
ContinueTo(F, blocks, out) ==
  Fold(LAMBDA G, b : IF G.crash THEN G ELSE IF Back(G, b).op = "br" THEN replace_out(G, b, 0, out) ELSE Crash(G), F, blocks)

(* One more turn behind the last: S is [F, last], U what stays the same.   *)
UnrollTurn(S, U) ==
  LET T == TurnStart(S, U.copy, U.pred)
      C == CloneBlocks(T.F, U.body, U.header, T.subst)
      entry == C.map[Label(U.entry)][2]
      G == Fold(LAMBDA H, i : Place(H, entry, 1, i), C.F, T.subs)
      H == ContinueTo(G, S.last, entry)
      Relabel(K, i) ==
        LET old == U.old[i]
            new == [k \in DOMAIN old |-> Mapped1(C.map, old[k])]
        IN Fold(LAMBDA L, k : IF new[k] = old[k] THEN L ELSE change_operand(L, i, k, new[k]), K, [k \in DOMAIN old |-> k])
  IN IF S.F.crash \/ H.crash THEN [S EXCEPT !.F = Crash(@)]
     ELSE [F |-> Fold(Relabel, H, PhisOf(H, U.copy)),
           last |-> [k \in DOMAIN U.continues |-> C.map[Label(U.continues[k])][2]]]

CanUnroll(F, it) ==
  /\ it.succ # {} /\ Upwards(it.loop)
  /\ \A b \in it.loop.blocks \ {it.loop.header} : out_blocks(F, b) \subseteq it.loop.blocks
  /\ \A k \in DOMAIN it.iterations : IsImm(it.iterations[k].step) /\ it.iterations[k].step[2] = 1

Unroll(F, it) ==
  LET header == it.loop.header
      C == CloneBlocks(F, InOrder(it.loop.blocks), header, <<>>)
      New(b) == C.map[Label(b)][2]
      copy == New(header)
      inside == InOrder(it.loop.blocks \ {header})
      F1 == replace_in(replace_out(C.F, it.pred, header, copy), header, it.pred, copy)
      F2 == FromCopy(replace_out(F1, copy, Min(it.succ), header), header, copy)
      F3 == AheadCondition(F2, copy)
      continues == [k \in DOMAIN SelectSeq(inside, LAMBDA b : header \in out_blocks(F, b)) |->
                      New(SelectSeq(inside, LAMBDA b : header \in out_blocks(F, b))[k])]
      U == [copy |-> copy, pred |-> it.pred, header |-> header, entry |-> New(Min(it.entry)),
            body |-> [k \in DOMAIN inside |-> New(inside[k])], continues |-> continues,
            old |-> [i \in ToSet(PhisOf(F3, copy)) |-> F3.ins[i].args]]
      R == Fold(LAMBDA S, n : UnrollTurn(S, U), [F |-> F3, last |-> continues], [n \in 1..(UNROLLING_CYCLE - 1) |-> n])
  IN IF it.entry = {} THEN Crash(F)
     ELSE IF R.F.crash THEN R.F ELSE ContinueTo(R.F, R.last, copy)

(* Every loop is looked at before the first is unrolled; one that has the  *)
(* blocks of a later one is left as it is.                                 *)
loop_unrolling(F) ==
  LET D == build_dom(F)
      loops == LoopInfo(F, D)
      all == [k \in DOMAIN InOrder(DOMAIN loops) |-> detect_iteration(F, loops[InOrder(DOMAIN loops)[k]])]
      found == SelectSeq(all, LAMBDA it : it.found)
      Outer(k) == \E j \in (k + 1)..Len(found) : found[j].loop.blocks \subseteq found[k].loop.blocks
      Visit(G, k) == IF G.crash \/ Outer(k) \/ ~CanUnroll(G, found[k]) THEN G ELSE Unroll(G, found[k])
  IN IF LoopInfoFails(F, D) \/ \E k \in DOMAIN all : all[k].failed THEN Crash(F)
     ELSE Fold(Visit, F, [k \in DOMAIN found |-> k])
=============================================================================
