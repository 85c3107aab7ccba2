------------------------------ MODULE Func_proofs ------------------------------
(***************************************************************************)
(* The passes together: what the analysis is proved to leave is what the   *)
(* allocator is proved to need, so that what holds of either alone holds   *)
(* of a function that goes through both.                                   *)
(***************************************************************************)
EXTENDS Func, Lemmas

AnalysisProofs == INSTANCE Liveness_proofs
AllocatorProofs == INSTANCE RegAlloc_proofs WITH Inputs <- {}

(* The proofs are about the same modules as Func: an instance has names of *)
(* its own for every definition, so that this takes all of them.           *)
LEMMA SameAnalysisInit == Analysis!Init <=> AnalysisProofs!Init
BY DEF Analysis!Init, AnalysisProofs!Init, Analysis!Block, AnalysisProofs!Block, Analysis!Operands,
   AnalysisProofs!Operands

LEMMA SameAnalysis == Analysis!Next <=> AnalysisProofs!Next
BY DEF Analysis!Next, AnalysisProofs!Next, Analysis!BuildBlockGraph,
   AnalysisProofs!BuildBlockGraph, Analysis!BuildBlockDefUse, AnalysisProofs!BuildBlockDefUse,
   Analysis!NumberInstruction, AnalysisProofs!NumberInstruction,
   Analysis!NumberInstructionReturns, AnalysisProofs!NumberInstructionReturns,
   Analysis!PendingStep, AnalysisProofs!PendingStep, Analysis!AnalysisConverged,
   AnalysisProofs!AnalysisConverged, Analysis!ScanInstruction, AnalysisProofs!ScanInstruction,
   Analysis!LeaveBlock, AnalysisProofs!LeaveBlock, Analysis!Block, AnalysisProofs!Block,
   Analysis!Targets, AnalysisProofs!Targets, Analysis!Sources, AnalysisProofs!Sources,
   Analysis!numbering, AnalysisProofs!numbering, Analysis!dataflow, AnalysisProofs!dataflow,
   Analysis!scan, AnalysisProofs!scan, Analysis!Uses, AnalysisProofs!Uses,
   Analysis!DefinedBefore, AnalysisProofs!DefinedBefore, Analysis!Transfer,
   AnalysisProofs!Transfer, Analysis!Out, AnalysisProofs!Out, Analysis!Requeued,
   AnalysisProofs!Requeued, Analysis!EnterBlock, AnalysisProofs!EnterBlock, Analysis!Operands,
   AnalysisProofs!Operands, Analysis!Defs, AnalysisProofs!Defs, Analysis!ClosedRange,
   AnalysisProofs!ClosedRange, Analysis!DeadRange, AnalysisProofs!DeadRange, Analysis!OpenRange, AnalysisProofs!OpenRange,
   Analysis!FlattenSeq, AnalysisProofs!FlattenSeq, Analysis!Label, AnalysisProofs!Label,
   Analysis!Edges, AnalysisProofs!Edges, Analysis!ToSet, AnalysisProofs!ToSet,
   Analysis!FrontNum, AnalysisProofs!FrontNum, Analysis!BackNum, AnalysisProofs!BackNum,
   Analysis!Cardinality, AnalysisProofs!Cardinality, Analysis!NoLabel, AnalysisProofs!NoLabel,
   Analysis!Last, AnalysisProofs!Last

LEMMA SameAllocator == Allocator!Next <=> AllocatorProofs!Next
BY DEF Allocator!Next, AllocatorProofs!Next, Allocator!AllocateHint, AllocatorProofs!AllocateHint,
   Allocator!AllocateInit, AllocatorProofs!AllocateInit, Allocator!AllocateWeight,
   AllocatorProofs!AllocateWeight, Allocator!FillQueue, AllocatorProofs!FillQueue,
   Allocator!AllocateRegister, AllocatorProofs!AllocateRegister,
   Allocator!AllocateRegisterReturns, AllocatorProofs!AllocateRegisterReturns,
   Allocator!RewriteOperand, AllocatorProofs!RewriteOperand, Allocator!RewriteOperandsReturns,
   AllocatorProofs!RewriteOperandsReturns, Allocator!is_virtual, AllocatorProofs!is_virtual,
   Allocator!OtherEnds, AllocatorProofs!OtherEnds, Allocator!Moves, AllocatorProofs!Moves,
   Allocator!code, AllocatorProofs!code, Allocator!allocation, AllocatorProofs!allocation,
   Allocator!spilling, AllocatorProofs!spilling, Allocator!rewriting,
   AllocatorProofs!rewriting, Allocator!Allocs, AllocatorProofs!Allocs, Allocator!New,
   AllocatorProofs!New, Allocator!Allocatable, AllocatorProofs!Allocatable,
   Allocator!InstrNumbers, AllocatorProofs!InstrNumbers, Allocator!Prioritized,
   AllocatorProofs!Prioritized, Allocator!hints, AllocatorProofs!hints, Allocator!Top,
   AllocatorProofs!Top, Allocator!TryAllocate, AllocatorProofs!TryAllocate, Allocator!TrySplit,
   AllocatorProofs!TrySplit, Allocator!SpillOperand, AllocatorProofs!SpillOperand,
   Allocator!RewriteInstr, AllocatorProofs!RewriteInstr, Allocator!AddSavedRegister,
   AllocatorProofs!AddSavedRegister, Allocator!Mentions, AllocatorProofs!Mentions,
   Allocator!OtherEnd, AllocatorProofs!OtherEnd, Allocator!SelectLastInSeq,
   AllocatorProofs!SelectLastInSeq, Allocator!FlattenSeq, AllocatorProofs!FlattenSeq,
   Allocator!ToSet, AllocatorProofs!ToSet, Allocator!Cardinality, AllocatorProofs!Cardinality,
   Allocator!MapThenSumSet, AllocatorProofs!MapThenSumSet, Allocator!Before,
   AllocatorProofs!Before, Allocator!FirstRanges, AllocatorProofs!FirstRanges, Allocator!Free,
   AllocatorProofs!Free, Allocator!Tried, AllocatorProofs!Tried, Allocator!AssignRegister,
   AllocatorProofs!AssignRegister, Allocator!Split, AllocatorProofs!Split, Allocator!Spill,
   AllocatorProofs!Spill, Allocator!PushedIndex, AllocatorProofs!PushedIndex, Allocator!Push,
   AllocatorProofs!Push, Allocator!SpillInstr, AllocatorProofs!SpillInstr, Allocator!Uses,
   AllocatorProofs!Uses, Allocator!InstrAt, AllocatorProofs!InstrAt, Allocator!Visits,
   AllocatorProofs!Visits, Allocator!ReplaceUse, AllocatorProofs!ReplaceUse,
   Allocator!ReplaceDef, AllocatorProofs!ReplaceDef, Allocator!Max, AllocatorProofs!Max,
   Allocator!MapThenFoldSet, AllocatorProofs!MapThenFoldSet, Allocator!Index,
   AllocatorProofs!Index, Allocator!HardConflict, AllocatorProofs!HardConflict,
   Allocator!SoftConflict, AllocatorProofs!SoftConflict, Allocator!AllocRanges,
   AllocatorProofs!AllocRanges, Allocator!Assign, AllocatorProofs!Assign,
   Allocator!AlignedOffset, AllocatorProofs!AlignedOffset, Allocator!SpillUse,
   AllocatorProofs!SpillUse, Allocator!SpillDef, AllocatorProofs!SpillDef,
   Allocator!InstrNumbered, AllocatorProofs!InstrNumbered, Allocator!Covering,
   AllocatorProofs!Covering, Allocator!ReplaceAll, AllocatorProofs!ReplaceAll,
   Allocator!AnyConflict, AllocatorProofs!AnyConflict, Allocator!ScanFrom,
   AllocatorProofs!ScanFrom, Allocator!AllocRange, AllocatorProofs!AllocRange,
   Allocator!RoundUp, AllocatorProofs!RoundUp, Allocator!Temps, AllocatorProofs!Temps,
   Allocator!Access, AllocatorProofs!Access, Allocator!Defs, AllocatorProofs!Defs,
   Allocator!conflict, AllocatorProofs!conflict, Allocator!AllocLess,
   AllocatorProofs!AllocLess, Allocator!Less, AllocatorProofs!Less

LEMMA SameAllocatorInit == Allocator!InitAllocator <=> AllocatorProofs!InitAllocator
BY DEF Allocator!InitAllocator, AllocatorProofs!InitAllocator, Allocator!Allocatable,
   AllocatorProofs!Allocatable, Allocator!ToSet, AllocatorProofs!ToSet

-----------------------------------------------------------------------------
(* What the proofs take for granted of the constants is what Func does.    *)
LEMMA FunctionsAreSelected == \A f \in Functions : AnalysisProofs!IsSelected(f)
BY FunctionsAssumption DEF IsSelected, AnalysisProofs!IsSelected, MachineBlocks,
   AnalysisProofs!MachineBlocks, MachineInstrs, AnalysisProofs!MachineInstrs, Operands,
   AnalysisProofs!Operands, NoLabel, AnalysisProofs!NoLabel, NewBlock, AnalysisProofs!NewBlock

LEMMA AnalysisAssumptions ==
  AnalysisProofs!OperandAssumption /\ AnalysisProofs!FunctionsAssumption
BY OperandAssumption, FunctionsAreSelected
   DEF AnalysisProofs!OperandAssumption, AnalysisProofs!FunctionsAssumption, Operands,
       AnalysisProofs!Operands

LEMMA AllocatorAssumptions ==
  /\ AllocatorProofs!OperandAssumption /\ AllocatorProofs!InputAssumption
  /\ AllocatorProofs!TempsAssumption
<1>1. AllocatorProofs!OperandAssumption
  BY OperandAssumption DEF AllocatorProofs!OperandAssumption, Operands, AllocatorProofs!Operands
<1>2. AllocatorProofs!InputAssumption
  BY DEF AllocatorProofs!InputAssumption
<1>3. AllocatorProofs!TempsAssumption
  BY TempsAssumption DEF AllocatorProofs!TempsAssumption, TempsAreFit,
     AllocatorProofs!TempsAreFit, Allocatable, AllocatorProofs!Allocatable, ToSet,
     AllocatorProofs!ToSet
<1> QED
  BY <1>1, <1>2, <1>3

(* What holds while the analysis runs, ...                                 *)
AnalysisHolds ==
  AnalysisProofs!HandoverInv /\ AnalysisProofs!ReachInv /\ AnalysisProofs!SetsOK

(* ... what the allocator finds, ...                                       *)
Untouched ==
  /\ AllocatorProofs!InitAllocator
  /\ frame \in Frames /\ Stacked(frame)
  /\ UnreachedIsEpilog(blocks)
  /\ \A b \in DOMAIN blocks : \A k \in DOMAIN blocks[b].body : IsSpillable(blocks[b].body[k])

(* ... and what holds while it runs.                                       *)
AllocationHolds ==
  /\ AllocatorProofs!IInv /\ AllocatorProofs!SlotsInv
  /\ AllocatorProofs!CodeInv /\ AllocatorProofs!RewrittenOK
  /\ AllocatorProofs!RangesAreNumbered

LEMMA AnalysisBegins == AnalysisProofs!Init => AnalysisHolds
BY AnalysisAssumptions, AnalysisProofs!InitHandover, AnalysisProofs!InitReach,
   AnalysisProofs!InitSets, AnalysisProofs!OperandAssumption,
   AnalysisProofs!FunctionsAssumption DEF AnalysisHolds

LEMMA AnalysisGoesOn ==
  AnalysisHolds /\ [AnalysisProofs!Next]_(AnalysisProofs!vars) => AnalysisHolds'
BY AnalysisAssumptions, AnalysisProofs!NextHandover, AnalysisProofs!NextReach,
   AnalysisProofs!NextSets, AnalysisProofs!OperandAssumption,
   AnalysisProofs!FunctionsAssumption
   DEF AnalysisHolds, AnalysisProofs!HandoverInv, AnalysisProofs!AnalysisInv,
       AnalysisProofs!LivenessInv, AnalysisProofs!FlowInv, AnalysisProofs!PlacedInv

LEMMA AllocationGoesOn ==
  AllocationHolds /\ [AllocatorProofs!Next]_(AllocatorProofs!vars) => AllocationHolds'
BY AllocatorAssumptions, AllocatorProofs!NextInv, AllocatorProofs!NextSlots,
   AllocatorProofs!NextCode, AllocatorProofs!NextRewritten,
   AllocatorProofs!NextRangesNumbered, AllocatorProofs!OperandAssumption, AllocatorProofs!InputAssumption,
   AllocatorProofs!TempsAssumption
   DEF AllocationHolds, AllocatorProofs!IInv

(* The numbered blocks are closed under jumps, so that a block without     *)
(* numbers mentions no virtual operand and has none live.                  *)
LEMMA OnlyNumbered ==
  ASSUME AnalysisHolds, Untouched, pass = "allocate_hint",
         NEW o \in Virtual, NEW r \in live_ranges[o]
  PROVE  AnalysisProofs!IsNumbered(num2instr, r)
<1>1. /\ AnalysisProofs!Typed /\ AnalysisProofs!CodeOK /\ AnalysisProofs!TypeOK
      /\ AnalysisProofs!PlacedInv /\ AnalysisProofs!RangesConcern /\ AnalysisProofs!ReachInv
  BY DEF AnalysisHolds, AnalysisProofs!HandoverInv, AnalysisProofs!AnalysisInv,
     AnalysisProofs!PlacedInv, AnalysisProofs!Typed
<1>2. visited \subseteq DOMAIN blocks
  BY <1>1 DEF AnalysisProofs!TypeOK, AnalysisProofs!Block
<1>3. \A b \in DOMAIN blocks : DOMAIN blocks[b].body = 1..Len(blocks[b].body)
  BY <1>1, AnalysisAssumptions, AnalysisProofs!BlockFacts, AnalysisProofs!OperandAssumption,
     AnalysisProofs!FunctionsAssumption DEF AnalysisProofs!Block
<1>4. IsClosed(blocks, visited)
  <2>1. /\ 1 \in visited
        /\ \A b \in visited : \A k \in 1..Len(blocks[b].body) :
             blocks[b].body[k].label \in {AnalysisProofs!NoLabel} \cup visited
    BY <1>1, AnalysisAssumptions, AnalysisProofs!JumpsStayNumbered,
       AnalysisProofs!OperandAssumption, AnalysisProofs!FunctionsAssumption
  <2> QED
    BY <1>2, <1>3, <2>1 DEF IsClosed, NoLabel, AnalysisProofs!NoLabel
<1>5. o \in AnalysisProofs!Operands
  BY DEF AnalysisProofs!Operands
<1>6. /\ r.block \in DOMAIN blocks
      /\ \/ AnalysisProofs!IsNumbered(num2instr, r)
         \/ r.block \notin visited /\ AnalysisProofs!IsLeftOut(blocks[r.block], o)
  BY <1>1, <1>5, AnalysisAssumptions, AnalysisProofs!RangesNumbered,
     AnalysisProofs!OperandAssumption, AnalysisProofs!FunctionsAssumption
     DEF AnalysisProofs!Block
<1>7. ASSUME r.block \notin visited, AnalysisProofs!IsLeftOut(blocks[r.block], o) PROVE FALSE
  <2>1. PICK k \in DOMAIN blocks[r.block].body :
          LET instr == blocks[r.block].body[k]
          IN  instr.label # NoLabel \/ o \in Defs(instr) \cup Uses(instr)
    BY <1>7 DEF AnalysisProofs!IsLeftOut, AnalysisProofs!NoLabel, NoLabel, AnalysisProofs!Defs,
       Defs, AnalysisProofs!Uses, Uses, AnalysisProofs!ToSet, ToSet
  <2> QED
    BY <1>2, <1>4, <1>6, <1>7, <2>1 DEF Untouched, UnreachedIsEpilog
<1> QED
  BY <1>6, <1>7

(* allocate_hint finds what the allocator relies on, ...                   *)
LEMMA HandsOver ==
  AnalysisHolds /\ Untouched /\ pass = "allocate_hint" => AllocatorProofs!HandedOver
<1> SUFFICES ASSUME AnalysisHolds, Untouched, pass = "allocate_hint"
             PROVE  AllocatorProofs!HandedOver
  OBVIOUS
<1>1. AnalysisProofs!IsAnalysed(blocks, num2instr, live_ranges)
  BY AnalysisAssumptions, AnalysisProofs!HandoverIsAnalysed, AnalysisProofs!OperandAssumption,
     AnalysisProofs!FunctionsAssumption DEF AnalysisHolds, AnalysisProofs!Analysed
<1>2. AllocatorProofs!IsAnalysed(blocks, num2instr, live_ranges)
  BY <1>1 DEF AnalysisProofs!IsAnalysed, AllocatorProofs!IsAnalysed, AnalysisProofs!MachineBlocks,
     AllocatorProofs!MachineBlocks, AnalysisProofs!Operands, AllocatorProofs!Operands,
     AnalysisProofs!IsFiniteSet, AllocatorProofs!IsFiniteSet, AnalysisProofs!InOrder,
     AllocatorProofs!InOrder, AnalysisProofs!InstrNumbered, AllocatorProofs!InstrNumbered,
     AnalysisProofs!Defs, AllocatorProofs!Defs, AnalysisProofs!Uses, AllocatorProofs!Uses,
     AnalysisProofs!Covering, AllocatorProofs!Covering, AnalysisProofs!Cardinality,
     AllocatorProofs!Cardinality, AnalysisProofs!MachineInstrs, AllocatorProofs!MachineInstrs,
     AnalysisProofs!IsRange, AllocatorProofs!IsRange, AnalysisProofs!Less,
     AllocatorProofs!Less, AnalysisProofs!ToSet, AllocatorProofs!ToSet, AnalysisProofs!NoLabel,
     AllocatorProofs!NoLabel, AnalysisProofs!IsNumbered, AllocatorProofs!IsNumbered,
     AnalysisProofs!IsLeftOut, AllocatorProofs!IsLeftOut
<1>3. frame \in AllocatorProofs!Frames /\ AllocatorProofs!Stacked(frame)
  BY DEF Untouched, Frames, Stacked, StackObjects, AllocatorProofs!Frames,
     AllocatorProofs!Stacked, AllocatorProofs!StackObjects
<1>4. \A b \in DOMAIN blocks : \A k \in DOMAIN blocks[b].body :
        AllocatorProofs!IsSpillable(blocks[b].body[k])
  BY DEF Untouched, IsSpillable, AllocatorProofs!IsSpillable, Uses, AllocatorProofs!Uses, Defs,
     AllocatorProofs!Defs, Operands, AllocatorProofs!Operands, Cardinality,
     AllocatorProofs!Cardinality, ToSet, AllocatorProofs!ToSet
<1>5. ASSUME NEW o \in Virtual, NEW r \in live_ranges[o]
      PROVE  AllocatorProofs!IsNumbered(num2instr, r)
  BY OnlyNumbered DEF AllocatorProofs!IsNumbered, AnalysisProofs!IsNumbered
<1> QED
  BY <1>2, <1>3, <1>4, <1>5 DEF Untouched, AllocatorProofs!HandedOver

LEMMA AllocationBegins ==
  AnalysisHolds /\ Untouched /\ pass = "allocate_hint" => AllocationHolds
<1>1. AllocatorProofs!HandedOver => /\ AllocatorProofs!IInv /\ AllocatorProofs!SlotsInv
                                    /\ AllocatorProofs!CodeInv
  BY AllocatorAssumptions, AllocatorProofs!InitInv, AllocatorProofs!InitSlots,
     AllocatorProofs!InitCode, AllocatorProofs!OperandAssumption,
     AllocatorProofs!InputAssumption, AllocatorProofs!TempsAssumption
<1>2. AllocatorProofs!HandedOver => AllocatorProofs!RewrittenOK
  BY DEF AllocatorProofs!HandedOver, AllocatorProofs!InitAllocator,
     AllocatorProofs!RewrittenOK
<1>3. AllocatorProofs!HandedOver => AllocatorProofs!RangesAreNumbered
  BY AllocatorAssumptions, AllocatorProofs!InitRangesNumbered, AllocatorProofs!OperandAssumption,
     AllocatorProofs!InputAssumption, AllocatorProofs!TempsAssumption
<1> QED
  BY <1>1, <1>2, <1>3, HandsOver DEF AllocationHolds

(* ... and leaves it untouched until then.                                 *)
LEMMA FuncBegins == Init => AnalysisHolds /\ Untouched /\ pass = "build_block_graph"
<1> SUFFICES ASSUME Init
             PROVE  AnalysisHolds /\ Untouched /\ pass = "build_block_graph"
  OBVIOUS
<1>1. AnalysisProofs!Init /\ AllocatorProofs!InitAllocator
  BY SameAnalysisInit, SameAllocatorInit DEF Init
<1>2. pass = "build_block_graph" /\ blocks \in Functions
  BY <1>1 DEF AnalysisProofs!Init
<1>3. frame \in Frames /\ Stacked(frame)
  BY FramesAssumption DEF Init
<1> QED
  BY <1>1, <1>2, <1>3, AnalysisBegins, FunctionsAssumption DEF Untouched

LEMMA AnalysisTouchesNothing ==
  AnalysisHolds /\ Untouched /\ [AnalysisProofs!Next]_(AnalysisProofs!vars)
    /\ UNCHANGED allocating => Untouched'
<1> SUFFICES ASSUME AnalysisHolds, Untouched, [AnalysisProofs!Next]_(AnalysisProofs!vars),
                    UNCHANGED allocating
             PROVE  Untouched'
  OBVIOUS
<1>1. AllocatorProofs!InitAllocator' /\ frame' = frame
  BY DEF Untouched, allocating, AllocatorProofs!InitAllocator, AllocatorProofs!Allocatable,
     AllocatorProofs!ToSet
<1>2. AnalysisProofs!Typed /\ AnalysisProofs!Typed' /\ AnalysisProofs!Block' = AnalysisProofs!Block
      /\ AnalysisProofs!SameCode
  BY AnalysisAssumptions, AnalysisProofs!NextTyped, AnalysisProofs!NextKeepsCode,
     AnalysisProofs!OperandAssumption, AnalysisProofs!FunctionsAssumption
     DEF AnalysisHolds, AnalysisProofs!HandoverInv, AnalysisProofs!AnalysisInv,
         AnalysisProofs!PlacedInv
<1>3. AnalysisProofs!CodeOK /\ AnalysisProofs!CodeOK' /\ DOMAIN blocks' = DOMAIN blocks
  BY <1>2 DEF AnalysisProofs!Typed, AnalysisProofs!Block
<1>4. \A b \in DOMAIN blocks :
        /\ DOMAIN blocks[b].body = 1..Len(blocks[b].body)
        /\ DOMAIN blocks'[b].body = 1..Len(blocks'[b].body)
  BY <1>3, AnalysisAssumptions, AnalysisProofs!BlockFacts, AnalysisProofs!OperandAssumption,
     AnalysisProofs!FunctionsAssumption DEF AnalysisProofs!Block
<1>5. ASSUME NEW b \in DOMAIN blocks, NEW k \in 1..Len(blocks[b].body)
      PROVE  IsSpillable(blocks'[b].body[k])
  <2>1. IsSpillable(blocks[b].body[k])
    BY <1>4 DEF Untouched
  <2>2. /\ blocks'[b].body[k].def = blocks[b].body[k].def
        /\ blocks'[b].body[k].use = blocks[b].body[k].use
    BY <1>2 DEF AnalysisProofs!SameCode, AnalysisProofs!Block
  <2> QED
    BY <2>1, <2>2 DEF IsSpillable, Defs, Uses
<1>6. \A b \in DOMAIN blocks : Len(blocks'[b].body) = Len(blocks[b].body)
  BY <1>2 DEF AnalysisProofs!SameCode, AnalysisProofs!Block
<1>7. (frame \in Frames)' /\ Stacked(frame)'
  BY <1>1 DEF Untouched, Stacked, StackObjects
<1>8. \A b \in DOMAIN blocks' : \A k \in DOMAIN blocks'[b].body : IsSpillable(blocks'[b].body[k])
  BY <1>3, <1>4, <1>5, <1>6
<1>9. UnreachedIsEpilog(blocks')
  <2>1. /\ DOMAIN blocks' = DOMAIN blocks
        /\ \A b \in DOMAIN blocks : DOMAIN blocks'[b].body = DOMAIN blocks[b].body
    BY <1>3, <1>4, <1>6
  <2>2. \A b \in DOMAIN blocks : \A k \in DOMAIN blocks[b].body :
          /\ blocks'[b].body[k].label = blocks[b].body[k].label
          /\ Defs(blocks'[b].body[k]) = Defs(blocks[b].body[k])
          /\ Uses(blocks'[b].body[k]) = Uses(blocks[b].body[k])
    BY <1>2, <1>4 DEF AnalysisProofs!SameCode, AnalysisProofs!Block, Defs, Uses
  <2>3. ASSUME NEW S \in SUBSET DOMAIN blocks', IsClosed(blocks', S)
        PROVE  \A b \in DOMAIN blocks' \ S : \A k \in DOMAIN blocks'[b].body :
                 /\ blocks'[b].body[k].label = NoLabel
                 /\ (Defs(blocks'[b].body[k]) \cup Uses(blocks'[b].body[k])) \cap Virtual = {}
    <3>1. IsClosed(blocks, S)
      BY <2>1, <2>2, <2>3 DEF IsClosed
    <3> QED
      BY <2>1, <2>2, <3>1 DEF Untouched, UnreachedIsEpilog
  <2> QED
    BY <2>3 DEF UnreachedIsEpilog
<1> QED
  BY <1>1, <1>7, <1>8, <1>9 DEF Untouched

(* Every instruction of a reachable block has a number, under which the    *)
(* allocator finds it.                                                     *)
Numbered ==
  /\ 1 \in visited /\ visited \subseteq DOMAIN blocks
  /\ \A b \in visited :
       /\ "body" \in DOMAIN blocks[b]
       /\ \A k \in DOMAIN blocks[b].body :
            \E n \in AllocatorProofs!InstrNumbers : num2instr[n + 1] = <<b, k>>

LEMMA AnalysisNumbers == AnalysisHolds /\ pass = "allocate_hint" => Numbered
<1> SUFFICES ASSUME AnalysisHolds, pass = "allocate_hint"
             PROVE  Numbered
  OBVIOUS
<1>1. /\ AnalysisProofs!Typed /\ AnalysisProofs!NumberingOK /\ AnalysisProofs!ReachInv
      /\ AnalysisProofs!CodeOK /\ AnalysisProofs!TypeOK
  BY DEF AnalysisHolds, AnalysisProofs!HandoverInv, AnalysisProofs!AnalysisInv,
     AnalysisProofs!PlacedInv, AnalysisProofs!Typed
<1>2. 1 \in visited
  BY <1>1, AnalysisAssumptions, AnalysisProofs!JumpsStayNumbered,
     AnalysisProofs!OperandAssumption, AnalysisProofs!FunctionsAssumption
<1>3. visited \subseteq DOMAIN blocks
  BY <1>1 DEF AnalysisProofs!TypeOK, AnalysisProofs!Block
<1>4. ASSUME NEW b \in visited
      PROVE  /\ blocks[b] \in AnalysisProofs!MachineBlocks(DOMAIN blocks)
             /\ DOMAIN blocks[b].body = 1..Len(blocks[b].body)
  BY <1>1, <1>3, AnalysisAssumptions, AnalysisProofs!BlockFacts,
     AnalysisProofs!OperandAssumption, AnalysisProofs!FunctionsAssumption
     DEF AnalysisProofs!Block
<1>5. ASSUME NEW b \in visited, NEW k \in 1..Len(blocks[b].body)
      PROVE  \E n \in AllocatorProofs!InstrNumbers : num2instr[n + 1] = <<b, k>>
  <2>1. PICK n \in Nat : n + 1 \in 1..Len(num2instr) /\ num2instr[n + 1] = <<b, k>>
    BY <1>1, <1>3 DEF AnalysisProofs!NumberingOK, AnalysisProofs!BlockNumbered,
       AnalysisProofs!Block
  <2>2. Len(num2instr) \in Nat
    BY <1>1, LenProperties DEF AnalysisProofs!TypeOK
  <2> QED
    BY <2>1, <2>2 DEF AllocatorProofs!InstrNumbers
<1>6. \A b \in visited : "body" \in DOMAIN blocks[b]
  BY <1>4 DEF AnalysisProofs!MachineBlocks
<1> QED
  BY <1>2, <1>3, <1>4, <1>5, <1>6 DEF Numbered

LEMMA AllocationKeepsNumbers ==
  Numbered /\ [AllocatorProofs!Next]_(AllocatorProofs!vars) /\ UNCHANGED analysing => Numbered'
<1> SUFFICES ASSUME Numbered, [AllocatorProofs!Next]_(AllocatorProofs!vars), UNCHANGED analysing
             PROVE  Numbered'
  OBVIOUS
<1>1. /\ num2instr' = num2instr /\ DOMAIN blocks' = DOMAIN blocks
      /\ \A b \in DOMAIN blocks :
           "body" \in DOMAIN blocks[b] => /\ "body" \in DOMAIN blocks'[b]
                                           /\ DOMAIN blocks'[b].body = DOMAIN blocks[b].body
  BY AllocatorProofs!NextKeepsPlaces, AllocatorAssumptions
<1>2. visited' = visited /\ AllocatorProofs!InstrNumbers' = AllocatorProofs!InstrNumbers
  BY <1>1 DEF analysing, AllocatorProofs!InstrNumbers
<1> QED
  BY <1>1, <1>2 DEF Numbered

-----------------------------------------------------------------------------
(* One pass after the other.                                               *)
Analysing == {"build_block_graph", "build_block_def_use", "number_instruction",
              "liveness_analysis", "live_ranges", "allocate_hint"}

FuncInv ==
  IF pass \in Analysing THEN AnalysisHolds /\ Untouched ELSE AllocationHolds /\ Numbered

LEMMA InitFunc == Init => FuncInv
BY FuncBegins DEF FuncInv, Analysing

LEMMA AnalyseKeeps ==
  ASSUME FuncInv, Analyse
  PROVE  FuncInv'
<1>1. AnalysisProofs!Next /\ UNCHANGED allocating
  BY SameAnalysis DEF Analyse
<1>2. pass \in Analysing /\ pass' \in Analysing
  BY <1>1, AnalysisProofs!NextPass, AnalysisAssumptions, AnalysisProofs!OperandAssumption,
     AnalysisProofs!FunctionsAssumption DEF Analysing
<1>3. AnalysisHolds /\ Untouched
  BY <1>2 DEF FuncInv
<1>4. AnalysisHolds' /\ Untouched'
  BY <1>1, <1>3, AnalysisGoesOn, AnalysisTouchesNothing
<1> QED
  BY <1>2, <1>4 DEF FuncInv

LEMMA AllocateKeeps ==
  ASSUME FuncInv, Allocate
  PROVE  FuncInv' /\ pass' \notin Analysing /\ AllocationHolds /\ Numbered
<1>1. AllocatorProofs!Next /\ UNCHANGED analysing
  BY SameAllocator DEF Allocate
<1>2. pass \in AllocatorProofs!Passes /\ pass' \in AllocatorProofs!Passes \ {"allocate_hint"}
  BY <1>1, AllocatorProofs!NextPass, AllocatorAssumptions, AllocatorProofs!OperandAssumption,
     AllocatorProofs!InputAssumption, AllocatorProofs!TempsAssumption
<1>3. AllocationHolds /\ Numbered
  <2>1. CASE pass = "allocate_hint"
    BY <2>1, AllocationBegins, AnalysisNumbers DEF FuncInv, Analysing
  <2>2. CASE pass # "allocate_hint"
    BY <1>2, <2>2 DEF FuncInv, Analysing, AllocatorProofs!Passes
  <2> QED
    BY <2>1, <2>2
<1>4. AllocationHolds' /\ Numbered'
  BY <1>1, <1>3, AllocationGoesOn, AllocationKeepsNumbers
<1>5. pass' \notin Analysing
  BY <1>2 DEF Analysing, AllocatorProofs!Passes
<1> QED
  BY <1>3, <1>4, <1>5 DEF FuncInv

LEMMA StutterKeeps ==
  ASSUME FuncInv, UNCHANGED vars
  PROVE  FuncInv'
<1>1. CASE pass \in Analysing
  <2>1. AnalysisHolds /\ Untouched
    BY <1>1 DEF FuncInv
  <2>2. UNCHANGED AnalysisProofs!vars /\ UNCHANGED allocating /\ pass' = pass
    BY DEF vars, analysing, allocating, AnalysisProofs!vars, AnalysisProofs!numbering,
       AnalysisProofs!dataflow, AnalysisProofs!scan
  <2> QED
    BY <1>1, <2>1, <2>2, AnalysisGoesOn, AnalysisTouchesNothing DEF FuncInv
<1>2. CASE pass \notin Analysing
  <2>1. AllocationHolds /\ Numbered
    BY <1>2 DEF FuncInv
  <2>2. UNCHANGED AllocatorProofs!vars /\ UNCHANGED analysing /\ pass' = pass
    BY DEF vars, analysing, allocating, AllocatorProofs!vars, AllocatorProofs!code,
       AllocatorProofs!hints, AllocatorProofs!allocation, AllocatorProofs!spilling,
       AllocatorProofs!rewriting
  <2> QED
    BY <1>2, <2>1, <2>2, AllocationGoesOn, AllocationKeepsNumbers DEF FuncInv
<1> QED
  BY <1>1, <1>2

LEMMA NextFunc == FuncInv /\ [Next]_vars => FuncInv'
BY AnalyseKeeps, AllocateKeeps, StutterKeeps DEF Next

-----------------------------------------------------------------------------
(* What is shown of the allocator is shown of the allocator of Func.       *)
LEMMA SameNoClobber == Allocator!NoClobber <=> AllocatorProofs!NoClobber
BY DEF Allocator!NoClobber, AllocatorProofs!NoClobber, Allocator!AnyConflict,
   AllocatorProofs!AnyConflict, Allocator!conflict, AllocatorProofs!conflict

LEMMA SameSlotsApart == Allocator!SlotsApart <=> AllocatorProofs!SlotsApart
BY DEF Allocator!SlotsApart, AllocatorProofs!SlotsApart, Allocator!Cardinality,
   AllocatorProofs!Cardinality, Allocator!RA, AllocatorProofs!RA

LEMMA SameReloadsApart == Allocator!ReloadsApart <=> AllocatorProofs!ReloadsApart
BY DEF Allocator!ReloadsApart, AllocatorProofs!ReloadsApart, Allocator!InstrNumbers,
   AllocatorProofs!InstrNumbers, Allocator!InstrAt, AllocatorProofs!InstrAt,
   Allocator!Allocatable, AllocatorProofs!Allocatable, Allocator!Index, AllocatorProofs!Index,
   Allocator!InstrNumbered, AllocatorProofs!InstrNumbered, Allocator!ToSet,
   AllocatorProofs!ToSet

LEMMA SameCodeIsPhysical == Allocator!CodeIsPhysical <=> AllocatorProofs!CodeIsPhysical
BY DEF Allocator!CodeIsPhysical, AllocatorProofs!CodeIsPhysical, Allocator!Finished,
   AllocatorProofs!Finished, Allocator!InstrNumbers, AllocatorProofs!InstrNumbers,
   Allocator!Defs, AllocatorProofs!Defs, Allocator!InstrAt, AllocatorProofs!InstrAt,
   Allocator!Uses, AllocatorProofs!Uses, Allocator!ToSet, AllocatorProofs!ToSet,
   Allocator!InstrNumbered, AllocatorProofs!InstrNumbered

LEMMA SameSpilledUnderPressure == Allocator!SpilledUnderPressure <=> AllocatorProofs!SpilledUnderPressure
BY DEF Allocator!SpilledUnderPressure, AllocatorProofs!SpilledUnderPressure, Allocator!Split,
   AllocatorProofs!Split, Allocator!Spill, AllocatorProofs!Spill, Allocator!Allocatable,
   AllocatorProofs!Allocatable, Allocator!Index, AllocatorProofs!Index, Allocator!AnyConflict,
   AllocatorProofs!AnyConflict, Allocator!ToSet, AllocatorProofs!ToSet, Allocator!conflict,
   AllocatorProofs!conflict

LEMMA SameEveryOperandPlaced == Allocator!EveryOperandPlaced <=> AllocatorProofs!EveryOperandPlaced
BY DEF Allocator!EveryOperandPlaced, AllocatorProofs!EveryOperandPlaced, Allocator!Allocated,
   AllocatorProofs!Allocated, Allocator!Allocs, AllocatorProofs!Allocs, Allocator!Index,
   AllocatorProofs!Index

LEMMA SameVisits == AllocatorProofs!VisitsAreNumbered =>
  \A a \in Virtual : \A n \in Int \ Allocator!InstrNumbers : Allocator!Visits(a, n) = 0
BY DEF AllocatorProofs!VisitsAreNumbered, AllocatorProofs!InstrNumbers, Allocator!InstrNumbers,
   AllocatorProofs!Visits, Allocator!Visits, AllocatorProofs!Covering, Allocator!Covering,
   AllocatorProofs!Cardinality, Allocator!Cardinality

(* Compiled from what instruction selection may produce, through all the   *)
(* passes of Func::passes, a function has the properties the allocator has *)
(* on the inputs it is given alone: they do not depend on what the ranges  *)
(* computed from the code look like.  And no pass asks for an instruction  *)
(* by a number that none has, in a function that never returns either,     *)
(* whose epilog is not numbered.                                           *)
FunctionIsAllocated ==
  pass \notin Analysing =>
    /\ Allocator!NoClobber /\ Allocator!SpilledUnderPressure /\ Allocator!EveryOperandPlaced
    /\ Allocator!SlotsApart /\ Allocator!ReloadsApart /\ Allocator!CodeIsPhysical
    /\ \A a \in Virtual : \A n \in Int \ Allocator!InstrNumbers : Allocator!Visits(a, n) = 0

THEOREM PipelineAllocates == Spec => []FunctionIsAllocated
<1>1. FuncInv => FunctionIsAllocated
  <2> SUFFICES ASSUME AllocationHolds
               PROVE  /\ AllocatorProofs!NoClobber /\ AllocatorProofs!SpilledUnderPressure
                      /\ AllocatorProofs!EveryOperandPlaced /\ AllocatorProofs!SlotsApart
                      /\ AllocatorProofs!ReloadsApart /\ AllocatorProofs!CodeIsPhysical
                      /\ AllocatorProofs!VisitsAreNumbered
    BY SameVisits, SameNoClobber, SameSpilledUnderPressure, SameEveryOperandPlaced, SameSlotsApart,
       SameReloadsApart, SameCodeIsPhysical DEF FuncInv, FunctionIsAllocated
  <2>1. AllocatorProofs!NoClobber /\ AllocatorProofs!SpilledUnderPressure
    BY DEF AllocationHolds, AllocatorProofs!IInv
  <2>2. AllocatorProofs!EveryOperandPlaced
    BY DEF AllocationHolds, AllocatorProofs!IInv, AllocatorProofs!AllocInv,
       AllocatorProofs!Placement, AllocatorProofs!EveryOperandPlaced,
       AllocatorProofs!Allocating, AllocatorProofs!Allocated
  <2>3. AllocatorProofs!SlotsApart
    BY AllocatorAssumptions, AllocatorProofs!SlotsInvApart, AllocatorProofs!OperandAssumption,
       AllocatorProofs!InputAssumption, AllocatorProofs!TempsAssumption
       DEF AllocationHolds, AllocatorProofs!IInv
  <2>4. AllocatorProofs!ReloadsApart /\ AllocatorProofs!CodeIsPhysical
    BY AllocatorAssumptions, AllocatorProofs!CodeInvReloads, AllocatorProofs!CodeInvPhysical,
       AllocatorProofs!OperandAssumption, AllocatorProofs!InputAssumption,
       AllocatorProofs!TempsAssumption DEF AllocationHolds
  <2>5. AllocatorProofs!VisitsAreNumbered
    BY AllocatorAssumptions, AllocatorProofs!RangesNumberVisits,
       AllocatorProofs!OperandAssumption, AllocatorProofs!InputAssumption,
       AllocatorProofs!TempsAssumption DEF AllocationHolds, AllocatorProofs!IInv
  <2> QED
    BY <2>1, <2>2, <2>3, <2>4, <2>5
<1> QED
  BY <1>1, InitFunc, NextFunc, PTL DEF Spec
=============================================================================
