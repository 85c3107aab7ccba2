----------------------------- MODULE MCRegAlloc -----------------------------
(***************************************************************************)
(* The allocator on straight-line functions: four virtual operands are     *)
(* written one after the other, then come three instructions in every      *)
(* combination of the list below, and the function returns.  Two integer   *)
(* registers and one for floats are too few for most of them.              *)
(***************************************************************************)
EXTENDS RegAlloc

CONSTANTS a0, fa0, s0, t1, t2, ft1, ft2, ft0

v0 == 0
v1 == 1
v2 == 2
f3 == 3

MCVirtual == {v0, v1, v2, f3}
MCPhysical == {a0, fa0, s0, t1, t2, ft1, ft2, ft0}
MCFloat == {f3, fa0, ft1, ft2, ft0}
MCREG_ALLOC == <<a0, fa0, s0>>
MCIntTemps == <<t1, t2, ft0>>
MCFloatTemps == <<ft1, ft2, ft0>>

Define(o) == Instr(<<o>>, <<>>, NoLabel, FALSE)
Copy(o, p) == Instr(<<o>>, <<p>>, NoLabel, TRUE)
Convert(o, p) == Instr(<<o>>, <<p>>, NoLabel, FALSE)
Binary(o, p, q) == Instr(<<o>>, <<p, q>>, NoLabel, FALSE)
Store(p, q) == Instr(<<>>, <<p, q>>, NoLabel, FALSE)
Call == Instr(<<a0, fa0>>, <<a0>>, NoLabel, FALSE)
Return == Instr(<<>>, <<a0>>, NoLabel, FALSE)

Prefix == <<Copy(v0, a0), Define(v1), Define(v2), Convert(f3, v0)>>

Instrs ==
  {Binary(v0, v1, v2), Binary(v2, v0, v1), Binary(v1, v2, v2), Convert(v1, v1), Copy(v1, v0),
   Copy(a0, v2), Copy(v2, a0), Store(v0, f3), Store(v1, v2), Convert(v0, f3),
   Convert(f3, v2), Call}

Bodies == {Prefix \o <<i, j, k>> \o <<Copy(a0, v1), Return>> :
             i \in Instrs, j \in Instrs, k \in Instrs}

Numbered(body) == [k \in DOMAIN body |-> [body[k] EXCEPT !.number = k - 1]]

(* The ranges of straight-line code: a write reaches the last read before  *)
(* the next write, and an argument is there from the start.                *)
MCRanges(body, o) ==
  LET Reads(k) == {u \in DOMAIN body : u > k /\ o \in Uses(body[u])
                     /\ \A d \in (k + 1)..(u - 1) : o \notin Defs(body[d])}
      Count(k) == MapThenSumSet(LAMBDA u :
                    Cardinality({i \in DOMAIN body[u].use : body[u].use[i] = o}), Reads(k))
      From(k, first, count) == [fromNum |-> first, toNum |-> Max({first + 1} \cup Reads(k)) - 1,
                                instr_cnt |-> count, block |-> 1, start |-> k]
  IN  {From(k, k - 1, Count(k) + 1) : k \in {d \in DOMAIN body : o \in Defs(body[d])}}
        \cup {From(0, 0, Count(0)) : k \in {z \in {0} : Reads(0) # {}}}

MCInput(body, locals, loops) ==
  [blocks      |-> <<NewBlock(Numbered(body), loops)>>,
   num2instr   |-> [k \in DOMAIN body |-> <<1, k>>],
   live_ranges |-> [o \in Operands |-> MCRanges(body, o)],
   frame       |-> locals]

(* Functions that end in a call have no local variable: their first slot is *)
(* next to the return address.                                             *)
LocalsOf(body) ==
  IF body[7] = Call THEN EmptyFrame
  ELSE [offset |-> 12, locals |-> <<[offset |-> 12, size |-> 4]>>, args |-> 0]

MCInputs == {MCInput(body, LocalsOf(body), 0) : body \in Bodies}
=============================================================================
