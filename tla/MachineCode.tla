---------------------------- MODULE MachineCode ----------------------------
(***************************************************************************)
(* Machine code between instruction selection and register allocation      *)
(* (src/include/bkd_instr.h, src/include/bkd_block.h).  The allocator only *)
(* asks an instruction which operands it writes (def) and reads (use),     *)
(* which block it may jump to (label), and whether it is a move between    *)
(* registers of one class (mv).  Spilling inserts loads before and stores  *)
(* after an instruction; the model keeps them with the instruction they    *)
(* were inserted around.                                                   *)
(***************************************************************************)
EXTENDS LiveRange, Sequences, FiniteSets, SequencesExt

CONSTANTS
  Virtual,      \* the virtual operands, named by their allocation numbers
  Physical,     \* the physical registers the code mentions
  Float,        \* the operands held in floating point registers
  REG_ALLOC,    \* the allocatable registers in the order they are tried
  CalleeSaved,  \* the registers getUsage calls RegisterUsage::CalleeSaved
  IntTemps,     \* T1, T2, FT0: what spill reloads integer operands into
  FloatTemps    \* FT1, FT2, FT0: what spill reloads float operands into

Operands == Virtual \cup Physical
Allocatable == ToSet(REG_ALLOC)

ASSUME OperandAssumption ==
  /\ Virtual \subseteq Nat
  /\ Virtual \cap Physical = {}
  /\ Float \subseteq Operands
  /\ REG_ALLOC \in Seq(Physical)
  /\ CalleeSaved \subseteq Physical

is_virtual(o) == o \in Virtual

(* GReg::index(): 0 for the Reg alternative, 1 for FReg.                   *)
Index(o) == IF o \in Float THEN 1 ELSE 0

NoLabel == 0

(* An instruction as instruction selection emits it.                       *)
Instr(def, use, label, mv) ==
  [def |-> def, use |-> use, label |-> label, mv |-> mv,
   number |-> -1, before |-> <<>>, after |-> <<>>]

Uses(instr) == ToSet(instr.use)
Defs(instr) == ToSet(instr.def)

ReplaceDef(instr, from, to) == [instr EXCEPT !.def = ReplaceAll(@, from, to)]
ReplaceUse(instr, from, to) == [instr EXCEPT !.use = ReplaceAll(@, from, to)]

(* The instructions and the blocks of a function whose labels are those    *)
(* of B, before spilling.                                                  *)
MachineInstrs(B) ==
  [def : Seq(Operands), use : Seq(Operands), label : {NoLabel} \cup B,
   mv : BOOLEAN, number : Int, before : {<<>>}, after : {<<>>}]

MachineBlocks(B) ==
  [body : Seq(MachineInstrs(B)), loops : Nat, in_blocks : Seq(B), out_blocks : Seq(B),
   defs : SUBSET Operands, uses : SUBSET Operands]

(* A block before any pass has run over it, with the number of loops that  *)
(* Alys::LoopInfo finds around the IR block it was selected from.          *)
NewBlock(body, loops) ==
  [body |-> body, loops |-> loops, in_blocks |-> <<>>, out_blocks |-> <<>>,
   defs |-> {}, uses |-> {}]

(* A function no pass has run over: a sequence of blocks that jump to one  *)
(* another.  Each has an instruction: it ends in a jump, in the call of    *)
(* the function itself that is made in place, or is the epilog.  Functions *)
(* with an INSTR_UNREACHABLE are not among them: it stands where one that  *)
(* returns a value runs off its end, which is undefined in SysY, selection *)
(* makes nothing of it and may leave its block empty, and the front() of   *)
(* an empty block is undefined in the analysis.                            *)
IsSelected(f) ==
  /\ f # <<>> /\ f \in Seq(MachineBlocks(DOMAIN f))
  /\ \A b \in DOMAIN f :
       /\ f[b] = NewBlock(f[b].body, f[b].loops)
       /\ f[b].body # <<>>
       /\ \A k \in DOMAIN f[b].body : f[b].body[k].number = -1

(* The call of the function itself that a block ends in, where the call is *)
(* what the block returns (convert_call_instr): it has no label and leads  *)
(* to the prolog tail, past the prolog.                                    *)
IsTailCall(f, b, k) ==
  b < Len(f) /\ k = Len(f[b].body) /\ f[b].body[k].label = NoLabel
-----------------------------------------------------------------------------
(* A set of blocks the function begins in and no jump leaves.              *)
IsClosed(f, S) ==
  1 \in S /\ \A b \in S : \A k \in DOMAIN f[b].body : f[b].body[k].label \in S \cup {NoLabel}

(* What no jump leads to is an epilog: the IR blocks nobody jumps to are   *)
(* removed before selection (opt_remove_unreachable_block), which adds the *)
(* block of the return also to a function that never returns.  It jumps    *)
(* nowhere and reads physical registers only.                              *)
UnreachedIsEpilog(f) ==
  \A S \in SUBSET DOMAIN f : IsClosed(f, S) =>
    \A b \in DOMAIN f \ S : \A k \in DOMAIN f[b].body :
      LET instr == f[b].body[k]
      IN  instr.label = NoLabel /\ (Defs(instr) \cup Uses(instr)) \cap Virtual = {}

-----------------------------------------------------------------------------
(* What the register allocator is given.  The instruction with number n:   *)
InstrNumbered(blocks, num2instr, n) ==
  blocks[num2instr[n + 1][1]].body[num2instr[n + 1][2]]

(* A range whose instructions are all in num2instr, which the loops of     *)
(* spill and rewrite_operands index with their numbers.                    *)
IsNumbered(num2instr, r) == 0 <= r.fromNum /\ r.toNum < Len(num2instr)

(* A range of o in a block number_instruction has not been in: the block   *)
(* mentions o itself, or jumps to where o is live.                         *)
IsLeftOut(block, o) ==
  /\ block.body[1].number = -1
  /\ \E k \in DOMAIN block.body :
       LET instr == block.body[k]
       IN  instr.label # NoLabel \/ o \in Defs(instr) \cup Uses(instr)

(* The passes before have numbered the instructions and computed the live  *)
(* ranges of the operands: num2instr leads to the instruction with a       *)
(* number, the ranges of an operand follow one another, every mention of   *)
(* an operand lies in one of them, two of them meet only where the operand *)
(* is written, and they are numbered but for blocks nothing leads to.      *)
IsAnalysed(blocks, num2instr, live_ranges) ==
  /\ blocks \in Seq(MachineBlocks(DOMAIN blocks))
  /\ num2instr \in Seq((DOMAIN blocks) \X Nat)
  /\ \A o \in Operands :
       /\ IsFiniteSet(live_ranges[o]) /\ InOrder(live_ranges[o])
       /\ \A r \in live_ranges[o] :
            IsNumbered(num2instr, r) \/ IsLeftOut(blocks[r.block], o)
  /\ \A n \in 0..(Len(num2instr) - 1) :
       LET instr == InstrNumbered(blocks, num2instr, n)
       IN  /\ num2instr[n + 1][2] \in DOMAIN blocks[num2instr[n + 1][1]].body
           /\ instr.number = n
           /\ \A o \in Operands :
                /\ o \in Defs(instr) \cup Uses(instr) => Covering(live_ranges[o], n) # {}
                /\ Cardinality(Covering(live_ranges[o], n)) <=
                     IF o \in Defs(instr) THEN 2 ELSE 1

(* Instruction selection writes no callee-saved register, and no selected  *)
(* instruction needs more temporaries than spill has: it reads up to two   *)
(* operands, fmadd and its kin three floats; one that reads what it writes *)
(* (seqz rd, rd, a copy for a phi) reads nothing else.                     *)
IsSpillable(instr) ==
  LET reads == Uses(instr) \cap Virtual
  IN  /\ Defs(instr) \cap CalleeSaved = {}
      /\ \/ \E o \in Operands : reads \subseteq {o}
         \/ /\ reads \cap Defs(instr) = {}
            /\ Cardinality(reads) <= IF reads \subseteq Float THEN 3 ELSE 2

(* spill has three temporaries per class, of which only the third of an    *)
(* integer operand is of the other class; none is ever allocated.          *)
TempsAreFit ==
  LET temps == {IntTemps, FloatTemps}
  IN  /\ \A t \in temps : t \in [1..3 -> Physical \ (Allocatable \cup CalleeSaved)]
      /\ \A s, t \in temps : \A i, j \in 1..3 : i # j => s[i] # t[j]
      /\ \A i \in 1..2 : IntTemps[i] \notin Float
      /\ \A i \in 1..3 : FloatTemps[i] \in Float
=============================================================================
