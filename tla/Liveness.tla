------------------------------ MODULE Liveness ------------------------------
(***************************************************************************)
(* The passes of Func::passes between instruction selection and register   *)
(* allocation (src/src/bkd_func.cpp): the block graph, the use and         *)
(* definition sets of the blocks, the numbering of the instructions, the   *)
(* backward worklist over the blocks and the live ranges read off it.      *)
(*                                                                         *)
(* A block is named by its position in the deque `blocks', an instruction  *)
(* by <<block, index>>.  number_instruction is recursive; `calls' is the   *)
(* sequence of its pending calls, so that a step is one activation.        *)
(***************************************************************************)
EXTENDS MachineCode

CONSTANT Functions   \* what instruction selection may produce

ASSUME FunctionsAssumption == \A f \in Functions : IsSelected(f)

VARIABLES
  pass,            \* the pass of Func::passes that runs next
  blocks,
  calls,           \* the pending calls of number_instruction
  visited,
  num2instr,       \* the numbered instructions; element n+1 has number n
  INs, OUTs,
  pending_blocks,
  cursor,          \* the block being scanned and the instruction reached in it
  range_buffer,
  live_ranges

numbering == <<calls, visited, num2instr>>
dataflow == <<INs, OUTs, pending_blocks>>
scan == <<cursor, range_buffer, live_ranges>>
vars == <<pass, blocks, numbering, dataflow, scan>>

Block == DOMAIN blocks

Init ==
  /\ pass = "build_block_graph"
  /\ blocks \in Functions
  /\ calls = <<1>>
  /\ visited = {}
  /\ num2instr = <<>>
  /\ INs = [b \in Block |-> {}]
  /\ OUTs = [b \in Block |-> {}]
  /\ pending_blocks = [b \in Block |-> b]
  /\ cursor = <<1, 0>>
  /\ range_buffer = <<>>
  /\ live_ranges = [o \in Operands |-> {}]
-----------------------------------------------------------------------------
(* A slip: instructions that do not jump are edges to nowhere.             *)
TargetsOfAll(b) == [k \in 1..Len(blocks[b].body) |-> blocks[b].body[k].label]

(* The labels a block jumps to, in the order of its instructions.          *)
Label(instr) == IF instr.label = NoLabel THEN <<>> ELSE <<instr.label>>

Targets(b) ==
  FlattenSeq([k \in 1..Len(blocks[b].body) |-> Label(blocks[b].body[k])])

(* The edges from a to b, as entries of b's in_blocks: one for every jump. *)
Edges(a, b) ==
  LET targets == Targets(a)
  IN  FlattenSeq([i \in 1..Len(targets) |-> IF targets[i] = b THEN <<a>> ELSE <<>>])

(* The blocks with an edge to b, once for every such edge.                 *)
Sources(b) == FlattenSeq([a \in Block |-> Edges(a, b)])

BuildBlockGraph ==
  /\ pass = "build_block_graph"
  /\ blocks' = [b \in Block |->
       [blocks[b] EXCEPT !.out_blocks = Targets(b), !.in_blocks = Sources(b)]]
  /\ pass' = "build_block_def_use"
  /\ UNCHANGED <<numbering, dataflow, scan>>

DefinedBefore(body, k) == UNION {Defs(body[j]) : j \in 1..(k - 1)}

BuildBlockDefUse ==
  /\ pass = "build_block_def_use"
  /\ blocks' = [b \in Block |->
       LET body == blocks[b].body
       IN  [blocks[b] EXCEPT
              !.uses = UNION {Uses(body[k]) \ DefinedBefore(body, k)
                                : k \in 1..Len(body)},
              !.defs = DefinedBefore(body, Len(body) + 1)]]
  /\ pass' = "number_instruction"
  /\ UNCHANGED <<numbering, dataflow, scan>>

(* An activation of number_instruction: a block seen before is skipped,    *)
(* another is numbered and the calls for its successors are made in turn.  *)
NumberInstruction ==
  /\ pass = "number_instruction"
  /\ calls # <<>>
  /\ LET b    == Head(calls)
         next == Len(num2instr)
         size == Len(blocks[b].body)
     IN  IF b \in visited
           THEN /\ calls' = Tail(calls)
                /\ UNCHANGED <<blocks, visited, num2instr>>
           ELSE /\ visited' = visited \cup {b}
                /\ blocks' = [blocks EXCEPT ![b].body =
                     [k \in 1..size |-> [@[k] EXCEPT !.number = next + k - 1]]]
                /\ num2instr' = num2instr \o [k \in 1..size |-> <<b, k>>]
                /\ calls' = blocks[b].out_blocks \o Tail(calls)
  /\ UNCHANGED <<pass, dataflow, scan>>

NumberInstructionReturns ==
  /\ pass = "number_instruction"
  /\ calls = <<>>
  /\ pass' = "liveness_analysis"
  /\ UNCHANGED <<blocks, numbering, dataflow, scan>>
-----------------------------------------------------------------------------
(* OUT = the union of the INs of the successors.                           *)
Out(b) == UNION {INs[s] : s \in ToSet(blocks[b].out_blocks)}

(* A slip: what the block writes stays live above it.                      *)
TransferWithDefs(b, out) == blocks[b].uses \cup out

(* in = use + (in - def)                                                   *)
Transfer(b, out) == blocks[b].uses \cup (out \ blocks[b].defs)

(* A slip: the wrong neighbours.                                           *)
RequeuedSuccessors(b, in) == IF in # INs[b] THEN blocks[b].out_blocks ELSE <<>>

(* Where IN has changed, the predecessors wait for another turn.           *)
Requeued(b, in) == IF in # INs[b] THEN blocks[b].in_blocks ELSE <<>>

PendingStep ==
  /\ pass = "liveness_analysis"
  /\ pending_blocks # <<>>
  /\ LET b  == Head(pending_blocks)
         in == Transfer(b, Out(b))
     IN  /\ OUTs' = [OUTs EXCEPT ![b] = Out(b)]
         /\ INs' = [INs EXCEPT ![b] = in]
         /\ pending_blocks' = Tail(pending_blocks) \o Requeued(b, in)
  /\ UNCHANGED <<pass, blocks, numbering, scan>>
-----------------------------------------------------------------------------
(* The second half of liveness_analysis.  The blocks are scanned in turn,  *)
(* each from its last instruction to its first; range_buffer holds, for    *)
(* every operand live at the point reached, the range still growing        *)
(* upwards.                                                                *)
FrontNum(b) == blocks[b].body[1].number
BackNum(b) == Last(blocks[b].body).number

(* A slip: the scan of a block begins again and again.                     *)
EnterBlockAgain(b) ==
  /\ cursor' = <<cursor[1], Len(blocks[cursor[1]].body)>>
  /\ range_buffer' =
       [o \in OUTs[cursor[1]] |->
          [fromNum |-> FrontNum(cursor[1]), toNum |-> BackNum(cursor[1]),
           instr_cnt |-> 0, block |-> cursor[1], start |-> 0]]

EnterBlock(b) ==
  /\ cursor' = <<b, Len(blocks[b].body)>>
  /\ range_buffer' =
       [o \in OUTs[b] |-> [fromNum |-> FrontNum(b), toNum |-> BackNum(b),
                           instr_cnt |-> 0, block |-> b, start |-> 0]]

AnalysisConverged ==
  /\ pass = "liveness_analysis"
  /\ pending_blocks = <<>>
  /\ EnterBlock(1)
  /\ pass' = "live_ranges"
  /\ UNCHANGED <<blocks, numbering, dataflow, live_ranges>>

(* The range of a value nobody in the block reads.                         *)
DeadRange(number, b) ==
  [fromNum |-> number, toNum |-> number, instr_cnt |-> 1, block |-> b, start |-> cursor[2]]

(* Slips: a range keeps its beginning at the front of the block; a range   *)
(* begins after the instruction that writes it.                            *)
ClosedRangeWhole(o, number, b) ==
  IF o \in DOMAIN range_buffer
    THEN [range_buffer[o] EXCEPT !.start = cursor[2], !.instr_cnt = @ + 1]
    ELSE DeadRange(number, b)

ClosedRangeLate(o, number, b) ==
  IF o \in DOMAIN range_buffer
    THEN [range_buffer[o] EXCEPT !.fromNum = number + 1, !.start = cursor[2],
                                 !.instr_cnt = @ + 1]
    ELSE DeadRange(number, b)

(* A definition closes the range of its operand, or is dead.               *)
ClosedRange(o, number, b) ==
  IF o \in DOMAIN range_buffer
    THEN [range_buffer[o] EXCEPT !.fromNum = number, !.start = cursor[2],
                                 !.instr_cnt = @ + 1]
    ELSE DeadRange(number, b)

(* Slips: a range that stops short of the read; a range that is not taken  *)
(* out of the buffer when a definition closes it.                          *)
OpenRangeShort(o, instr, b) ==
  LET mentions == Cardinality({i \in DOMAIN instr.use : instr.use[i] = o})
  IN  IF o \in DOMAIN range_buffer \ Defs(instr)
        THEN [range_buffer[o] EXCEPT !.instr_cnt = @ + mentions]
        ELSE [fromNum |-> FrontNum(b), toNum |-> instr.number - 1,
              instr_cnt |-> mentions, block |-> b, start |-> 0]

(* A use opens a range that reaches back to the front of the block, or is  *)
(* counted in the one that is open and not closed by the same instruction. *)
OpenRange(o, instr, b) ==
  LET mentions == Cardinality({i \in DOMAIN instr.use : instr.use[i] = o})
  IN  IF o \in DOMAIN range_buffer \ Defs(instr)
        THEN [range_buffer[o] EXCEPT !.instr_cnt = @ + mentions]
        ELSE [fromNum |-> FrontNum(b), toNum |-> instr.number,
              instr_cnt |-> mentions, block |-> b, start |-> 0]

ScanInstruction ==
  /\ pass = "live_ranges"
  /\ cursor[2] > 0
  /\ LET b     == cursor[1]
         instr == blocks[b].body[cursor[2]]
     IN  /\ live_ranges' = [o \in Operands |->
              IF o \in Defs(instr)
                THEN live_ranges[o] \cup {ClosedRange(o, instr.number, b)}
                ELSE live_ranges[o]]
         /\ range_buffer' =
              [o \in (DOMAIN range_buffer \ Defs(instr)) \cup Uses(instr) |->
                 IF o \in Uses(instr) THEN OpenRange(o, instr, b) ELSE range_buffer[o]]
         /\ cursor' = <<b, cursor[2] - 1>>
  /\ UNCHANGED <<pass, blocks, numbering, dataflow>>

(* What is left in range_buffer is live from the front of the block.  The  *)
(* lists are sorted by fromNum alone in the end, so that ranges which      *)
(* begin together are in any order; a list is kept as the set of its       *)
(* ranges, which `start' tells apart.                                      *)
LeaveBlock ==
  /\ pass = "live_ranges"
  /\ cursor[2] = 0
  /\ live_ranges' = [o \in Operands |->
       IF o \in DOMAIN range_buffer
         THEN live_ranges[o] \cup {range_buffer[o]} ELSE live_ranges[o]]
  /\ IF cursor[1] < Len(blocks)
       THEN EnterBlock(cursor[1] + 1) /\ UNCHANGED pass
       ELSE pass' = "allocate_hint" /\ UNCHANGED <<cursor, range_buffer>>
  /\ UNCHANGED <<blocks, numbering, dataflow>>

Next ==
  \/ BuildBlockGraph
  \/ BuildBlockDefUse
  \/ NumberInstruction
  \/ NumberInstructionReturns
  \/ PendingStep
  \/ AnalysisConverged
  \/ ScanInstruction
  \/ LeaveBlock

Spec == Init /\ [][Next]_vars

(* The passes are a sequential program: it keeps running.                  *)
FairSpec == Spec /\ WF_vars(Next)
-----------------------------------------------------------------------------
(* What the passes are meant to compute, stated with paths through the     *)
(* block graph and no iteration.                                           *)

(* The paths along a successor relation that visit no block twice: enough, *)
(* since a path that carries a value still does so without its cycles.     *)
Paths(succ) ==
  {p \in UNION {[1..n -> Block] : n \in 1..Len(blocks)} :
     IsInjective(p) /\ \A i \in 1..(Len(p) - 1) : p[i + 1] \in succ[p[i]]}

(* For every block, the operands some path from its start reads before it  *)
(* writes them, and those needed at its end.                               *)
LiveAtStart ==
  LET paths == Paths([b \in Block |-> ToSet(Targets(b))])
  IN  [b \in Block |-> UNION {
         {o \in blocks[p[Len(p)]].uses :
            \A i \in 1..(Len(p) - 1) : o \notin blocks[p[i]].defs}
         : p \in {q \in paths : q[1] = b}}]

AtEnd(live, b) == UNION {live[s] : s \in ToSet(Targets(b))}

(* The operands whose value is still needed after the k-th instruction, if *)
(* those of atEnd are needed at the end of the block.                      *)
LiveAfter(body, k, atEnd) ==
  LET Kept(o, j) == \A i \in (k + 1)..(j - 1) : o \notin Defs(body[i])
  IN  {o \in atEnd : Kept(o, Len(body) + 1)}
        \cup UNION {{o \in Uses(body[j]) : Kept(o, j)} : j \in (k + 1)..Len(body)}

(* Everything up to the live ranges has been computed.                     *)
Analysed == pass = "allocate_hint"

-----------------------------------------------------------------------------
TypeOK ==
  /\ pass \in {"build_block_graph", "build_block_def_use", "number_instruction",
               "liveness_analysis", "live_ranges", "allocate_hint"}
  /\ blocks \in Seq(MachineBlocks(Block))
  /\ calls \in Seq(Block)
  /\ visited \subseteq Block
  /\ num2instr \in Seq(Block \X Nat)
  /\ INs \in [Block -> SUBSET Operands]
  /\ OUTs \in [Block -> SUBSET Operands]
  /\ pending_blocks \in Seq(Block)
  /\ cursor \in Block \X Nat
  /\ DOMAIN range_buffer \subseteq Operands
  /\ \A o \in DOMAIN range_buffer : range_buffer[o] \in LiveRanges
  /\ live_ranges \in [Operands -> SUBSET LiveRanges]

(* A block that is not waiting in pending_blocks satisfies the equation of *)
(* the analysis with the INs its successors have now: a change of IN never *)
(* leaves a predecessor that has to be looked at again out of the queue.   *)
PendingCoversChanges ==
  pass = "liveness_analysis" =>
    \A b \in Block :
      b \notin ToSet(pending_blocks) =>
        OUTs[b] = Out(b) /\ INs[b] = Transfer(b, Out(b))

(* The worklist stops at the least solution: what it calls live at the end *)
(* of a block is what some path from there reads, also around loops.       *)
AnalysisIsLiveness ==
  Analysed =>
    LET live == LiveAtStart
    IN  \A b \in Block : INs[b] = live[b] /\ OUTs[b] = AtEnd(live, b)

(* Two operands needed at the same time conflict: when an instruction that *)
(* can be reached writes x, every other operand needed afterwards has a    *)
(* range that conflicts with one of x's, so one register never serves both.*)
InterferenceCovered ==
  Analysed =>
    LET live == LiveAtStart
    IN  \A b \in visited : \A k \in DOMAIN blocks[b].body :
          LET after == LiveAfter(blocks[b].body, k, AtEnd(live, b))
          IN  \A x \in Defs(blocks[b].body[k]) : \A y \in after \ {x} :
                AnyConflict(live_ranges[x], live_ranges[y])

(* spill and rewrite_operands visit the instructions inside the ranges of  *)
(* an operand and no others: every instruction that mentions the operand   *)
(* lies in one of them, and its number leads back to it.                   *)
RangesCoverMentions ==
  Analysed =>
    \A b \in visited : \A k \in DOMAIN blocks[b].body :
      LET instr == blocks[b].body[k]
      IN  /\ num2instr[instr.number + 1] = <<b, k>>
          /\ \A o \in Defs(instr) \cup Uses(instr) :
               \E r \in live_ranges[o] :
                 r.fromNum <= instr.number /\ instr.number <= r.toNum

(* The ranges of one operand follow one another: a later one begins no     *)
(* earlier than the one before it ends.  The scan of try_allocate, which   *)
(* begins in the middle of a register's ranges, relies on it.              *)
OwnRangesInOrder ==
  Analysed => \A o \in Operands : InOrder(live_ranges[o])

(* What the allocator is given is what it relies on.  Beyond the two       *)
(* above: no instruction lies in three ranges of an operand, and in two    *)
(* only where the operand is written: spill takes a temporary for every    *)
(* range an instruction that reads the operand lies in, and has three.     *)
(* And the numbers in a range are indices of num2instr, unless its block   *)
(* was never numbered and mentions the operand or jumps on.                *)
ReadyForAllocation == Analysed => IsAnalysed(blocks, num2instr, live_ranges)

(* The recursion and the worklist come to an end.                          *)
AnalysisTerminates == <>Analysed
=============================================================================
