-------------------------- MODULE Liveness_proofs --------------------------
(***************************************************************************)
(* Proofs about the liveness analysis and the live ranges, for every       *)
(* function: any number of blocks, any edges among them, any instructions  *)
(* and operands.                                                           *)
(***************************************************************************)
EXTENDS Liveness, Lemmas, FiniteSetTheorems

(* What the code always looks like: blocks are typed and none is empty.    *)
CodeOK ==
  /\ blocks # <<>> /\ blocks \in Seq(MachineBlocks(Block))
  /\ \A b \in Block : blocks[b].body # <<>>

LEMMA BlockFacts ==
  ASSUME CodeOK
  PROVE  /\ Len(blocks) \in Nat \ {0} /\ Block = 1..Len(blocks)
         /\ \A b \in Block :
              /\ blocks[b] \in MachineBlocks(Block)
              /\ blocks[b].body \in Seq(MachineInstrs(Block))
              /\ Len(blocks[b].body) \in Nat \ {0}
              /\ DOMAIN blocks[b].body = 1..Len(blocks[b].body)
<1>1. Len(blocks) \in Nat \ {0} /\ Block = 1..Len(blocks)
  BY EmptySeq, LenProperties DEF CodeOK, Block
<1>2. ASSUME NEW b \in Block
      PROVE  /\ blocks[b] \in MachineBlocks(Block)
             /\ blocks[b].body \in Seq(MachineInstrs(Block))
             /\ Len(blocks[b].body) \in Nat \ {0}
             /\ DOMAIN blocks[b].body = 1..Len(blocks[b].body)
  <2>1. blocks[b] \in MachineBlocks(Block)
    BY <1>1, ElementOfSeq DEF CodeOK
  <2>2. blocks[b].body \in Seq(MachineInstrs(Block))
    BY <2>1 DEF MachineBlocks
  <2> QED
    BY <2>1, <2>2, EmptySeq, LenProperties DEF CodeOK
<1> QED
  BY <1>1, <1>2

LEMMA InstrFacts ==
  ASSUME CodeOK, NEW b \in Block, NEW k \in 1..Len(blocks[b].body)
  PROVE  LET instr == blocks[b].body[k]
         IN  /\ instr \in MachineInstrs(Block)
             /\ instr.label \in {NoLabel} \cup Block
             /\ instr.number \in Int
             /\ Defs(instr) \subseteq Operands
             /\ Uses(instr) \subseteq Operands
<1> DEFINE instr == blocks[b].body[k]
<1>1. instr \in MachineInstrs(Block)
  BY BlockFacts, ElementOfSeq
<1>2. /\ instr.label \in {NoLabel} \cup Block
      /\ instr.number \in Int
      /\ instr.def \in Seq(Operands) /\ instr.use \in Seq(Operands)
  BY <1>1 DEF MachineInstrs
<1>3. Defs(instr) \subseteq Operands /\ Uses(instr) \subseteq Operands
  BY <1>2, ElementOfSeq, LenProperties DEF Defs, Uses, ToSet
<1> QED
  BY <1>1, <1>2, <1>3

-----------------------------------------------------------------------------
(* The edges of the block graph.                                           *)
LEMMA TargetsProperties ==
  ASSUME CodeOK, NEW b \in Block
  PROVE  /\ Targets(b) \in Seq(Block)
         /\ \A x : x \in ToSet(Targets(b)) <=>
                     \E k \in 1..Len(blocks[b].body) :
                       blocks[b].body[k].label = x /\ x # NoLabel
<1> DEFINE body == blocks[b].body
           labels == [k \in 1..Len(body) |-> Label(body[k])]
<1>1. Len(body) \in Nat
  BY BlockFacts
<1>2. ASSUME NEW k \in 1..Len(body)
      PROVE  /\ Label(body[k]) \in Seq(Block)
             /\ \A x : x \in ToSet(Label(body[k])) <=> body[k].label = x /\ x # NoLabel
  <2>1. body[k].label \in {NoLabel} \cup Block
    BY InstrFacts
  <2>2. CASE body[k].label = NoLabel
    <3>1. Label(body[k]) = <<>>
      BY <2>2 DEF Label
    <3> QED
      BY <2>2, <3>1, EmptySeq DEF ToSet
  <2>3. CASE body[k].label # NoLabel
    <3>1. Label(body[k]) = <<body[k].label>>
      BY <2>3 DEF Label
    <3> QED
      BY <2>1, <2>3, <3>1 DEF ToSet
  <2> QED
    BY <2>2, <2>3
<1>3. labels \in Seq(Seq(Block)) /\ Len(labels) = Len(body)
  BY <1>1, <1>2
<1>4. \A k \in 1..Len(body) : labels[k] = Label(body[k])
  OBVIOUS
<1>5. Targets(b) = FlattenSeq(labels)
  BY DEF Targets
<1> HIDE DEF labels
<1>6. /\ FlattenSeq(labels) \in Seq(Block)
      /\ \A x : x \in ToSet(FlattenSeq(labels)) <=>
                  \E k \in 1..Len(labels) : x \in ToSet(labels[k])
  BY <1>3, FlattenProperties
<1>7. ASSUME NEW x
      PROVE  x \in ToSet(FlattenSeq(labels)) <=>
               \E k \in 1..Len(body) : body[k].label = x /\ x # NoLabel
  <2>1. x \in ToSet(FlattenSeq(labels)) <=>
          \E k \in 1..Len(body) : x \in ToSet(labels[k])
    BY <1>3, <1>6
  <2>2. ASSUME NEW k \in 1..Len(body)
        PROVE  x \in ToSet(labels[k]) <=> body[k].label = x /\ x # NoLabel
    BY <1>2, <1>4
  <2> QED
    BY <2>1, <2>2
<1> QED
  BY <1>5, <1>6, <1>7

LEMMA EdgesProperties ==
  ASSUME CodeOK, NEW a \in Block, NEW b \in Block
  PROVE  /\ Edges(a, b) \in Seq(Block)
         /\ \A x : x \in ToSet(Edges(a, b)) <=> x = a /\ b \in ToSet(Targets(a))
<1> DEFINE targets == Targets(a)
           edges == [i \in 1..Len(targets) |-> IF targets[i] = b THEN <<a>> ELSE <<>>]
<1>1. targets \in Seq(Block) /\ Len(targets) \in Nat /\ DOMAIN targets = 1..Len(targets)
  BY TargetsProperties, LenProperties
<1>2. Edges(a, b) = FlattenSeq(edges)
  BY DEF Edges
<1>3. edges \in Seq(Seq(Block)) /\ Len(edges) = Len(targets)
  BY <1>1
<1>4. ASSUME NEW i \in 1..Len(targets), NEW x
      PROVE  x \in ToSet(edges[i]) <=> x = a /\ targets[i] = b
  BY <1>1 DEF ToSet
<1>5. b \in ToSet(targets) <=> \E i \in 1..Len(targets) : targets[i] = b
  BY <1>1 DEF ToSet
<1> HIDE DEF edges
<1>6. /\ FlattenSeq(edges) \in Seq(Block)
      /\ \A x : x \in ToSet(FlattenSeq(edges)) <=>
                  \E i \in 1..Len(edges) : x \in ToSet(edges[i])
  BY <1>3, FlattenProperties
<1>7. ASSUME NEW x
      PROVE  x \in ToSet(FlattenSeq(edges)) <=> x = a /\ b \in ToSet(targets)
  <2>1. x \in ToSet(FlattenSeq(edges)) <=>
          \E i \in 1..Len(targets) : x \in ToSet(edges[i])
    BY <1>3, <1>6
  <2> QED
    BY <1>4, <1>5, <2>1
<1> QED
  BY <1>2, <1>6, <1>7

LEMMA SourcesProperties ==
  ASSUME CodeOK, NEW b \in Block
  PROVE  /\ Sources(b) \in Seq(Block)
         /\ \A a : a \in ToSet(Sources(b)) <=> a \in Block /\ b \in ToSet(Targets(a))
<1> DEFINE edges == [a \in Block |-> Edges(a, b)]
<1>1. Block = 1..Len(blocks) /\ Len(blocks) \in Nat
  BY BlockFacts
<1>2. edges \in Seq(Seq(Block)) /\ Len(edges) = Len(blocks)
  BY <1>1, EdgesProperties
<1>3. \A a \in Block : edges[a] = Edges(a, b)
  OBVIOUS
<1>4. Sources(b) = FlattenSeq(edges)
  BY DEF Sources
<1> HIDE DEF edges
<1>5. /\ FlattenSeq(edges) \in Seq(Block)
      /\ \A x : x \in ToSet(FlattenSeq(edges)) <=>
                  \E a \in 1..Len(edges) : x \in ToSet(edges[a])
  BY <1>2, FlattenProperties
<1>6. ASSUME NEW a
      PROVE  a \in ToSet(FlattenSeq(edges)) <=> a \in Block /\ b \in ToSet(Targets(a))
  <2>1. a \in ToSet(FlattenSeq(edges)) <=> \E c \in Block : a \in ToSet(edges[c])
    BY <1>1, <1>2, <1>5
  <2>2. ASSUME NEW c \in Block
        PROVE  a \in ToSet(edges[c]) <=> a = c /\ b \in ToSet(Targets(c))
    BY <1>3, EdgesProperties
  <2> QED
    BY <2>1, <2>2
<1> QED
  BY <1>4, <1>5, <1>6

-----------------------------------------------------------------------------
(* Type correctness.  The scan never leaves the block it is in.            *)
CursorOK == pass = "live_ranges" => cursor[2] <= Len(blocks[cursor[1]].body)

Typed == CodeOK /\ TypeOK /\ CursorOK

(* A pass that maps every block to a block changes neither their number    *)
(* nor their types.                                                        *)
LEMMA MappedBlocks ==
  ASSUME CodeOK, NEW f \in [Block -> MachineBlocks(Block)], blocks' = f,
         \A b \in Block : f[b].body # <<>>
  PROVE  CodeOK' /\ Block' = Block /\ blocks' \in Seq(MachineBlocks(Block))
<1>1. Block = 1..Len(blocks) /\ Len(blocks) \in Nat \ {0}
  BY BlockFacts
<1>2. f \in Seq(MachineBlocks(Block)) /\ Len(f) = Len(blocks) /\ f # <<>>
  BY <1>1
<1>3. Block' = Block
  BY DEF Block
<1> QED
  BY <1>2, <1>3 DEF CodeOK

LEMMA InitTyped == Init => Typed
<1> SUFFICES ASSUME Init PROVE Typed
  OBVIOUS
<1>1. IsSelected(blocks)
  BY FunctionsAssumption DEF Init
<1>2. CodeOK
  BY <1>1 DEF IsSelected, CodeOK, Block
<1>3. Block = 1..Len(blocks) /\ Len(blocks) \in Nat \ {0}
  BY <1>2, BlockFacts
<1>4. calls \in Seq(Block) /\ cursor \in Block \X Nat
  BY <1>3 DEF Init
<1>5. pending_blocks \in Seq(Block)
  BY <1>3 DEF Init
<1>6. TypeOK
  BY <1>2, <1>4, <1>5 DEF Init, TypeOK, CodeOK
<1> QED
  BY <1>2, <1>6 DEF Typed, CursorOK, Init

LEMMA BuildBlockGraphTyped ==
  ASSUME Typed, BuildBlockGraph
  PROVE  Typed' /\ Block' = Block
<1> DEFINE f == [b \in Block |->
                   [blocks[b] EXCEPT !.out_blocks = Targets(b), !.in_blocks = Sources(b)]]
<1> USE DEF Typed
<1>1. ASSUME NEW b \in Block
      PROVE  f[b] \in MachineBlocks(Block) /\ f[b].body # <<>>
  <2>1. blocks[b] \in MachineBlocks(Block) /\ blocks[b].body # <<>>
    BY BlockFacts DEF CodeOK
  <2>2. Targets(b) \in Seq(Block) /\ Sources(b) \in Seq(Block)
    BY TargetsProperties, SourcesProperties
  <2> QED
    BY <2>1, <2>2 DEF MachineBlocks
<1>2. blocks' = f
  BY DEF BuildBlockGraph
<1>3. f \in [Block -> MachineBlocks(Block)]
  BY <1>1
<1> HIDE DEF f
<1>4. CodeOK' /\ Block' = Block /\ blocks' \in Seq(MachineBlocks(Block))
  BY <1>1, <1>2, <1>3, MappedBlocks
<1>5. TypeOK'
  BY <1>4 DEF BuildBlockGraph, TypeOK, numbering, dataflow, scan
<1> QED
  BY <1>4, <1>5 DEF BuildBlockGraph, CursorOK

LEMMA BuildBlockDefUseTyped ==
  ASSUME Typed, BuildBlockDefUse
  PROVE  Typed' /\ Block' = Block
<1> DEFINE used(body) == UNION {Uses(body[k]) \ DefinedBefore(body, k) : k \in 1..Len(body)}
           f == [b \in Block |->
                   [blocks[b] EXCEPT !.uses = used(blocks[b].body),
                      !.defs = DefinedBefore(blocks[b].body, Len(blocks[b].body) + 1)]]
<1> USE DEF Typed
<1>1. ASSUME NEW b \in Block
      PROVE  f[b] \in MachineBlocks(Block) /\ f[b].body # <<>>
  <2>1. blocks[b] \in MachineBlocks(Block) /\ blocks[b].body # <<>>
    BY BlockFacts DEF CodeOK
  <2>2. Len(blocks[b].body) \in Nat
    BY BlockFacts
  <2>3. used(blocks[b].body) \subseteq Operands
    BY InstrFacts
  <2>4. DefinedBefore(blocks[b].body, Len(blocks[b].body) + 1) \subseteq Operands
    BY <2>2, InstrFacts DEF DefinedBefore
  <2> HIDE DEF used
  <2> QED
    BY <2>1, <2>3, <2>4 DEF MachineBlocks
<1>2. blocks' = f
  BY DEF BuildBlockDefUse
<1>3. f \in [Block -> MachineBlocks(Block)]
  BY <1>1
<1> HIDE DEF f
<1>4. CodeOK' /\ Block' = Block /\ blocks' \in Seq(MachineBlocks(Block))
  BY <1>1, <1>2, <1>3, MappedBlocks
<1>5. TypeOK'
  BY <1>4 DEF BuildBlockDefUse, TypeOK, numbering, dataflow, scan
<1> QED
  BY <1>4, <1>5 DEF BuildBlockDefUse, CursorOK

(* What an activation of number_instruction does to a block it has not     *)
(* seen before.                                                            *)
Numbered(b) ==
  LET next == Len(num2instr)
      size == Len(blocks[b].body)
  IN  [blocks EXCEPT ![b].body =
         [k \in 1..size |-> [@[k] EXCEPT !.number = next + k - 1]]]

LEMMA NumberedBlocks ==
  ASSUME CodeOK, num2instr \in Seq(Block \X Nat), NEW b \in Block, blocks' = Numbered(b)
  PROVE  /\ CodeOK' /\ Block' = Block /\ blocks' \in Seq(MachineBlocks(Block))
         /\ \A c \in Block \ {b} : blocks'[c] = blocks[c]
         /\ \A c \in Block :
              /\ blocks'[c].in_blocks = blocks[c].in_blocks
              /\ blocks'[c].out_blocks = blocks[c].out_blocks
              /\ blocks'[c].uses = blocks[c].uses /\ blocks'[c].defs = blocks[c].defs
         /\ Len(blocks'[b].body) = Len(blocks[b].body)
         /\ \A k \in 1..Len(blocks[b].body) :
              blocks'[b].body[k] =
                [blocks[b].body[k] EXCEPT !.number = Len(num2instr) + k - 1]
<1> DEFINE body == blocks[b].body
           numbered == [k \in 1..Len(body) |->
                          [body[k] EXCEPT !.number = Len(num2instr) + k - 1]]
           f == Numbered(b)
<1>1. /\ blocks[b] \in MachineBlocks(Block)
      /\ Len(body) \in Nat \ {0} /\ Len(num2instr) \in Nat
      /\ Block = 1..Len(blocks) /\ blocks = [c \in Block |-> blocks[c]]
  BY BlockFacts, LenProperties, IsASeq DEF CodeOK
<1>2. numbered \in Seq(MachineInstrs(Block)) /\ numbered # <<>> /\ Len(numbered) = Len(body)
  <2>1. ASSUME NEW k \in 1..Len(body)
        PROVE  [body[k] EXCEPT !.number = Len(num2instr) + k - 1] \in MachineInstrs(Block)
    <3>1. body[k] \in MachineInstrs(Block)
      BY InstrFacts
    <3>2. Len(num2instr) + k - 1 \in Int
      BY <1>1
    <3> QED
      BY <3>1, <3>2 DEF MachineInstrs
  <2>2. numbered \in [1..Len(body) -> MachineInstrs(Block)]
    BY <2>1
  <2> HIDE DEF numbered
  <2>3. numbered \in Seq(MachineInstrs(Block)) /\ Len(numbered) = Len(body)
    BY <1>1, <2>2, FunctionIsSeq
  <2>4. numbered # <<>>
    BY <1>1, <2>3
  <2> QED
    BY <2>3, <2>4
<1>3. f = [blocks EXCEPT ![b] = [blocks[b] EXCEPT !.body = numbered]]
  BY DEF Numbered
<1>4. [blocks[b] EXCEPT !.body = numbered] \in MachineBlocks(Block)
  BY <1>1, <1>2 DEF MachineBlocks
<1>5. LET block == [blocks[b] EXCEPT !.body = numbered]
      IN  /\ block.body = numbered
          /\ block.in_blocks = blocks[b].in_blocks
          /\ block.out_blocks = blocks[b].out_blocks
          /\ block.uses = blocks[b].uses /\ block.defs = blocks[b].defs
  BY <1>1 DEF MachineBlocks
<1> HIDE DEF f
<1>6. /\ f[b] = [blocks[b] EXCEPT !.body = numbered]
      /\ \A c \in Block \ {b} : f[c] = blocks[c]
      /\ DOMAIN f = Block /\ f = [c \in Block |-> f[c]]
  BY <1>1, <1>3
<1>7. /\ f \in [Block -> MachineBlocks(Block)]
      /\ \A c \in Block : f[c].body # <<>>
  <2> HIDE DEF numbered
  <2>1. f[b] \in MachineBlocks(Block) /\ f[b].body # <<>>
    BY <1>2, <1>4, <1>5, <1>6
  <2>2. \A c \in Block \ {b} : f[c] \in MachineBlocks(Block) /\ f[c].body # <<>>
    BY <1>6, BlockFacts DEF CodeOK
  <2> QED
    BY <1>6, <2>1, <2>2
<1>8. CodeOK' /\ Block' = Block /\ blocks' \in Seq(MachineBlocks(Block))
  BY <1>7, MappedBlocks DEF f
<1>9. \A k \in 1..Len(body) : numbered[k] = [body[k] EXCEPT !.number = Len(num2instr) + k - 1]
  OBVIOUS
<1>10. blocks' = f
  BY DEF f
<1> HIDE DEF numbered
<1>11. blocks'[b].body = numbered /\ \A c \in Block \ {b} : blocks'[c] = blocks[c]
  BY <1>5, <1>6, <1>10
<1>12. ASSUME NEW c \in Block
       PROVE  /\ blocks'[c].in_blocks = blocks[c].in_blocks
              /\ blocks'[c].out_blocks = blocks[c].out_blocks
              /\ blocks'[c].uses = blocks[c].uses /\ blocks'[c].defs = blocks[c].defs
  BY <1>5, <1>6, <1>10
<1> QED
  BY <1>2, <1>8, <1>9, <1>11, <1>12

LEMMA NumberInstructionTyped ==
  ASSUME Typed, NumberInstruction
  PROVE  Typed' /\ Block' = Block
<1> USE DEF Typed
<1> DEFINE b == Head(calls)
           places == [k \in 1..Len(blocks[b].body) |-> <<b, k>>]
<1>1. b \in Block /\ Tail(calls) \in Seq(Block)
  BY HeadAndTail DEF NumberInstruction, TypeOK
<1>2. pass = "number_instruction" /\ UNCHANGED <<pass, dataflow, scan>>
  BY DEF NumberInstruction
<1>3. CASE b \in visited
  <2>1. calls' = Tail(calls) /\ UNCHANGED <<blocks, visited, num2instr>>
    BY <1>3 DEF NumberInstruction
  <2>2. Block' = Block
    BY <2>1 DEF Block
  <2>3. CodeOK'
    BY <2>1, <2>2 DEF CodeOK
  <2>4. TypeOK'
    BY <1>1, <1>2, <2>1, <2>2 DEF TypeOK, dataflow, scan
  <2> QED
    BY <1>2, <2>2, <2>3, <2>4 DEF CursorOK
<1>4. CASE b \notin visited
  <2>1. /\ visited' = visited \cup {b}
        /\ blocks' = Numbered(b)
        /\ num2instr' = num2instr \o places
        /\ calls' = blocks[b].out_blocks \o Tail(calls)
    BY <1>4 DEF NumberInstruction, Numbered
  <2>2. CodeOK' /\ Block' = Block /\ blocks' \in Seq(MachineBlocks(Block))
    BY <1>1, <2>1, NumberedBlocks DEF TypeOK
  <2>3. blocks[b].out_blocks \in Seq(Block) /\ Len(blocks[b].body) \in Nat
    BY <1>1, BlockFacts DEF MachineBlocks
  <2>4. calls' \in Seq(Block)
    BY <1>1, <2>1, <2>3, ConcatProperties
  <2>5. num2instr' \in Seq(Block \X Nat)
    <3>1. places \in Seq(Block \X Nat)
      BY <1>1, <2>3
    <3> QED
      BY <2>1, <3>1, ConcatProperties DEF TypeOK
  <2>6. TypeOK'
    BY <1>1, <1>2, <2>1, <2>2, <2>4, <2>5 DEF TypeOK, dataflow, scan
  <2> QED
    BY <1>2, <2>2, <2>6 DEF CursorOK
<1> QED
  BY <1>3, <1>4

LEMMA SameBlocks ==
  ASSUME CodeOK, UNCHANGED blocks
  PROVE  CodeOK' /\ Block' = Block
<1>1. Block' = Block
  BY DEF Block
<1> QED
  BY <1>1 DEF CodeOK

LEMMA NumberInstructionReturnsTyped ==
  ASSUME Typed, NumberInstructionReturns
  PROVE  Typed' /\ Block' = Block
<1> USE DEF Typed, NumberInstructionReturns
<1>1. CodeOK' /\ Block' = Block
  BY SameBlocks
<1> QED
  BY <1>1 DEF TypeOK, CursorOK, numbering, dataflow, scan

LEMMA PendingStepTyped ==
  ASSUME Typed, PendingStep
  PROVE  Typed' /\ Block' = Block
<1> DEFINE b == Head(pending_blocks)
           in == Transfer(b, Out(b))
<1> USE DEF Typed
<1>1. CodeOK' /\ Block' = Block
  BY SameBlocks DEF PendingStep
<1>2. b \in Block /\ Tail(pending_blocks) \in Seq(Block)
  BY HeadAndTail DEF PendingStep, TypeOK
<1>3. blocks[b] \in MachineBlocks(Block)
  BY <1>2, BlockFacts
<1>4. Out(b) \subseteq Operands
  <2>1. ToSet(blocks[b].out_blocks) \subseteq Block
    BY <1>3, ElementOfSeq, LenProperties DEF MachineBlocks, ToSet
  <2> QED
    BY <2>1 DEF Out, TypeOK
<1>5. in \subseteq Operands
  BY <1>3, <1>4 DEF Transfer, MachineBlocks
<1>6. Requeued(b, in) \in Seq(Block)
  BY <1>3, EmptySeq DEF Requeued, MachineBlocks
<1>7. pending_blocks' \in Seq(Block)
  BY <1>2, <1>6, ConcatProperties DEF PendingStep
<1>8. INs' \in [Block -> SUBSET Operands] /\ OUTs' \in [Block -> SUBSET Operands]
  <2>1. /\ INs' = [INs EXCEPT ![b] = in]
        /\ OUTs' = [OUTs EXCEPT ![b] = Out(b)]
    BY DEF PendingStep
  <2> HIDE DEF in, b
  <2> QED
    BY <1>2, <1>4, <1>5, <2>1 DEF TypeOK
<1> QED
  BY <1>1, <1>7, <1>8 DEF PendingStep, TypeOK, CursorOK, numbering, scan

(* The range a block opens with for an operand that is live at its end.    *)
LEMMA NumbersAreIntegers ==
  ASSUME CodeOK, NEW b \in Block
  PROVE  /\ FrontNum(b) \in Int /\ BackNum(b) \in Int
         /\ BackNum(b) = blocks[b].body[Len(blocks[b].body)].number
<1>1. /\ Len(blocks[b].body) \in Nat \ {0}
      /\ Last(blocks[b].body) = blocks[b].body[Len(blocks[b].body)]
  BY BlockFacts DEF Last
<1>2. ASSUME NEW k \in 1..Len(blocks[b].body)
      PROVE  blocks[b].body[k].number \in Int
  BY InstrFacts
<1> QED
  BY <1>1, <1>2 DEF FrontNum, BackNum

LEMMA EnterBlockTyped ==
  ASSUME CodeOK, TypeOK, NEW b \in Block, EnterBlock(b)
  PROVE  /\ cursor' \in Block \X Nat /\ cursor'[1] = b
         /\ cursor'[2] = Len(blocks[b].body)
         /\ DOMAIN range_buffer' = OUTs[b]
         /\ \A o \in OUTs[b] :
              range_buffer'[o] = [fromNum |-> FrontNum(b), toNum |-> BackNum(b),
                                  instr_cnt |-> 0, block |-> b, start |-> 0]
         /\ DOMAIN range_buffer' \subseteq Operands
         /\ \A o \in DOMAIN range_buffer' : range_buffer'[o] \in LiveRanges
<1>1. Len(blocks[b].body) \in Nat /\ Block \subseteq Nat
  BY BlockFacts
<1>2. cursor' = <<b, Len(blocks[b].body)>>
  BY DEF EnterBlock
<1>3. /\ DOMAIN range_buffer' = OUTs[b]
      /\ \A o \in OUTs[b] :
           range_buffer'[o] = [fromNum |-> FrontNum(b), toNum |-> BackNum(b),
                               instr_cnt |-> 0, block |-> b, start |-> 0]
  BY DEF EnterBlock
<1>4. OUTs[b] \subseteq Operands
  BY DEF TypeOK
<1>5. \A o \in OUTs[b] : range_buffer'[o] \in LiveRanges
  BY <1>1, <1>3, NumbersAreIntegers DEF LiveRanges
<1> QED
  BY <1>1, <1>2, <1>3, <1>4, <1>5

LEMMA AnalysisConvergedTyped ==
  ASSUME Typed, AnalysisConverged
  PROVE  Typed' /\ Block' = Block
<1> USE DEF Typed
<1>1. /\ CodeOK' /\ Block' = Block
      /\ UNCHANGED <<blocks, numbering, dataflow, live_ranges>>
      /\ pass' = "live_ranges"
  BY SameBlocks DEF AnalysisConverged
<1>2. 1 \in Block
  BY BlockFacts
<1>3. EnterBlock(1)
  BY DEF AnalysisConverged
<1>4. /\ cursor' \in Block \X Nat /\ cursor'[1] = 1
      /\ cursor'[2] = Len(blocks[1].body)
      /\ DOMAIN range_buffer' \subseteq Operands
      /\ \A o \in DOMAIN range_buffer' : range_buffer'[o] \in LiveRanges
  BY <1>2, <1>3, EnterBlockTyped
<1>5. CursorOK'
  <2>1. Len(blocks[1].body) \in Nat
    BY <1>2, BlockFacts
  <2> QED
    BY <1>1, <1>4, <2>1 DEF CursorOK
<1>6. TypeOK'
  BY <1>1, <1>4 DEF TypeOK, numbering, dataflow
<1> QED
  BY <1>1, <1>5, <1>6

LEMMA MentionsAreCounted ==
  ASSUME NEW S, NEW s \in Seq(S), NEW o
  PROVE  Cardinality({i \in DOMAIN s : s[i] = o}) \in Nat
<1>1. IsFiniteSet(1..Len(s)) /\ DOMAIN s = 1..Len(s)
  BY LenProperties, FS_Interval
<1>2. IsFiniteSet({i \in DOMAIN s : s[i] = o})
  BY <1>1, FS_Subset
<1> QED
  BY <1>2, FS_CardinalityType

(* A range that another use is counted in.                                 *)
LEMMA RangeCounted ==
  ASSUME NEW r \in LiveRanges, NEW m \in Nat
  PROVE  LET d == [r EXCEPT !.instr_cnt = @ + m]
         IN  /\ d \in LiveRanges /\ d.fromNum = r.fromNum
             /\ d.toNum = r.toNum /\ d.block = r.block
<1>1. r = [fromNum |-> r.fromNum, toNum |-> r.toNum, instr_cnt |-> r.instr_cnt,
           block |-> r.block, start |-> r.start]
  BY DEF LiveRanges
<1>2. [r EXCEPT !.instr_cnt = @ + m] =
        [fromNum |-> r.fromNum, toNum |-> r.toNum, instr_cnt |-> r.instr_cnt + m,
         block |-> r.block, start |-> r.start]
  BY <1>1
<1>3. /\ r.fromNum \in Int /\ r.toNum \in Int /\ r.instr_cnt + m \in Nat
      /\ r.block \in Nat /\ r.start \in Nat
  BY DEF LiveRanges
<1> QED
  BY <1>2, <1>3 DEF LiveRanges

(* What a range becomes when an instruction is scanned.                    *)
LEMMA RangesProperties ==
  ASSUME Typed, NEW b \in Block, NEW k \in 1..Len(blocks[b].body), NEW o \in Operands
  PROVE  LET instr  == blocks[b].body[k]
             closed == ClosedRange(o, instr.number, b)
             open   == OpenRange(o, instr, b)
         IN  /\ closed \in LiveRanges /\ open \in LiveRanges
             /\ closed.fromNum = instr.number
             /\ closed.toNum = IF o \in DOMAIN range_buffer
                                 THEN range_buffer[o].toNum ELSE instr.number
             /\ IF o \in DOMAIN range_buffer \ Defs(instr)
                  THEN /\ open.fromNum = range_buffer[o].fromNum
                       /\ open.toNum = range_buffer[o].toNum
                       /\ open.block = range_buffer[o].block
                  ELSE /\ open.fromNum = FrontNum(b)
                       /\ open.toNum = instr.number
                       /\ open.block = b
             /\ closed.block = IF o \in DOMAIN range_buffer
                                 THEN range_buffer[o].block ELSE b
<1> DEFINE instr == blocks[b].body[k]
           mentions == Cardinality({i \in DOMAIN instr.use : instr.use[i] = o})
<1>1. instr \in MachineInstrs(Block) /\ instr.number \in Int
  BY InstrFacts DEF Typed
<1>2. mentions \in Nat
  <2>1. instr.use \in Seq(Operands)
    BY <1>1 DEF MachineInstrs
  <2> HIDE DEF instr
  <2> QED
    BY <2>1, MentionsAreCounted
<1>3. FrontNum(b) \in Int /\ b \in Nat
  BY NumbersAreIntegers, BlockFacts DEF Typed
<1>4. o \in DOMAIN range_buffer => range_buffer[o] \in LiveRanges
  BY DEF Typed, TypeOK
<1>5. cursor[2] \in Nat
  BY DEF Typed, TypeOK
<1>6. /\ ClosedRange(o, instr.number, b) \in LiveRanges
      /\ ClosedRange(o, instr.number, b).fromNum = instr.number
      /\ ClosedRange(o, instr.number, b).toNum =
           IF o \in DOMAIN range_buffer THEN range_buffer[o].toNum ELSE instr.number
      /\ ClosedRange(o, instr.number, b).block =
           IF o \in DOMAIN range_buffer THEN range_buffer[o].block ELSE b
  <2> HIDE DEF instr
  <2>1. CASE o \in DOMAIN range_buffer
    <3>1. ClosedRange(o, instr.number, b) =
            [range_buffer[o] EXCEPT !.fromNum = instr.number, !.start = cursor[2],
                                    !.instr_cnt = @ + 1]
      BY <2>1 DEF ClosedRange
    <3> DEFINE r == range_buffer[o]
               n == instr.number
               c == cursor[2]
    <3>2. r \in LiveRanges /\ n \in Int /\ c \in Nat
      BY <1>1, <1>4, <1>5, <2>1
    <3> DEFINE closed == ClosedRange(o, instr.number, b)
    <3>3. closed = [r EXCEPT !.fromNum = n, !.start = c, !.instr_cnt = @ + 1]
      BY <3>1
    <3> HIDE DEF closed, r, n, c
    <3> DEFINE d == [r EXCEPT !.fromNum = n]
               e == [d EXCEPT !.start = c]
    <3>4. r = [fromNum |-> r.fromNum, toNum |-> r.toNum, instr_cnt |-> r.instr_cnt,
               block |-> r.block, start |-> r.start]
      BY <3>2 DEF LiveRanges
    <3>5. d = [fromNum |-> n, toNum |-> r.toNum, instr_cnt |-> r.instr_cnt,
               block |-> r.block, start |-> r.start]
      BY <3>4
    <3>6. closed = [e EXCEPT !.instr_cnt = r.instr_cnt + 1]
      BY <3>3
    <3> HIDE DEF d
    <3>7. e = [fromNum |-> n, toNum |-> r.toNum, instr_cnt |-> r.instr_cnt,
               block |-> r.block, start |-> c]
      BY <3>5
    <3> HIDE DEF e
    <3>8. closed = [fromNum |-> n, toNum |-> r.toNum, instr_cnt |-> r.instr_cnt + 1,
                    block |-> r.block, start |-> c]
      BY <3>6, <3>7
    <3>9. r.toNum \in Int /\ r.instr_cnt + 1 \in Nat /\ r.block \in Nat
      BY <3>2 DEF LiveRanges
    <3>10. /\ closed \in LiveRanges /\ closed.fromNum = n
           /\ closed.toNum = r.toNum /\ closed.block = r.block
      BY <3>2, <3>8, <3>9 DEF LiveRanges
    <3> QED
      BY <2>1, <3>10 DEF r, n, closed
  <2>2. CASE o \notin DOMAIN range_buffer
    <3>1. ClosedRange(o, instr.number, b) =
            [fromNum |-> instr.number, toNum |-> instr.number, instr_cnt |-> 1,
             block |-> b, start |-> cursor[2]]
      BY <2>2 DEF ClosedRange, DeadRange
    <3> QED
      BY <1>1, <1>3, <1>5, <2>2, <3>1 DEF LiveRanges
  <2> QED
    BY <2>1, <2>2
<1>7. OpenRange(o, instr, b) =
        IF o \in DOMAIN range_buffer \ Defs(instr)
          THEN [range_buffer[o] EXCEPT !.instr_cnt = @ + mentions]
          ELSE [fromNum |-> FrontNum(b), toNum |-> instr.number,
                instr_cnt |-> mentions, block |-> b, start |-> 0]
  BY DEF OpenRange
<1> HIDE DEF mentions, instr
<1>8. /\ OpenRange(o, instr, b) \in LiveRanges
      /\ IF o \in DOMAIN range_buffer \ Defs(instr)
           THEN /\ OpenRange(o, instr, b).fromNum = range_buffer[o].fromNum
                /\ OpenRange(o, instr, b).toNum = range_buffer[o].toNum
                /\ OpenRange(o, instr, b).block = range_buffer[o].block
           ELSE /\ OpenRange(o, instr, b).fromNum = FrontNum(b)
                /\ OpenRange(o, instr, b).toNum = instr.number
                /\ OpenRange(o, instr, b).block = b
  <2>1. CASE o \in DOMAIN range_buffer \ Defs(instr)
    <3>1. range_buffer[o] \in LiveRanges
      BY <1>4, <2>1
    <3>2. OpenRange(o, instr, b) = [range_buffer[o] EXCEPT !.instr_cnt = @ + mentions]
      BY <1>7, <2>1
    <3> QED
      BY <1>2, <2>1, <3>1, <3>2, RangeCounted
  <2>2. CASE o \notin DOMAIN range_buffer \ Defs(instr)
    BY <1>1, <1>2, <1>3, <1>7, <2>2 DEF LiveRanges
  <2> QED
    BY <2>1, <2>2
<1> QED
  BY <1>6, <1>8 DEF instr

LEMMA ScanInstructionTyped ==
  ASSUME Typed, ScanInstruction
  PROVE  Typed' /\ Block' = Block
<1> DEFINE b     == cursor[1]
           k     == cursor[2]
           instr == blocks[b].body[k]
<1>1. CodeOK' /\ Block' = Block /\ UNCHANGED <<pass, blocks, numbering, dataflow>>
  BY SameBlocks DEF Typed, ScanInstruction
<1>2. /\ b \in Block /\ k \in 1..Len(blocks[b].body)
      /\ k <= Len(blocks[b].body) /\ Len(blocks[b].body) \in Nat
  <2>1. b \in Block /\ k \in Nat /\ k > 0 /\ k <= Len(blocks[b].body)
    BY DEF Typed, TypeOK, CursorOK, ScanInstruction
  <2> QED
    BY <2>1, BlockFacts DEF Typed
<1>3. cursor' = <<b, k - 1>> /\ k - 1 \in Nat /\ k - 1 <= Len(blocks[b].body)
  BY <1>2 DEF ScanInstruction
<1>4. Uses(instr) \subseteq Operands
  BY <1>2, InstrFacts DEF Typed
<1>5. /\ live_ranges' = [o \in Operands |->
           IF o \in Defs(instr)
             THEN live_ranges[o] \cup {ClosedRange(o, instr.number, b)}
             ELSE live_ranges[o]]
      /\ range_buffer' =
           [o \in (DOMAIN range_buffer \ Defs(instr)) \cup Uses(instr) |->
              IF o \in Uses(instr) THEN OpenRange(o, instr, b) ELSE range_buffer[o]]
  BY DEF ScanInstruction
<1>6. ASSUME NEW o \in Operands
      PROVE  ClosedRange(o, instr.number, b) \in LiveRanges /\ OpenRange(o, instr, b) \in LiveRanges
  BY <1>2, RangesProperties
<1>7. TypeOK
  BY DEF Typed
<1> HIDE DEF instr, b, k
<1>8. live_ranges' \in [Operands -> SUBSET LiveRanges]
  BY <1>5, <1>6, <1>7 DEF TypeOK
<1>9. /\ DOMAIN range_buffer' \subseteq Operands
      /\ \A o \in DOMAIN range_buffer' : range_buffer'[o] \in LiveRanges
  BY <1>4, <1>5, <1>6, <1>7 DEF TypeOK
<1>10. cursor' \in Block \X Nat /\ cursor'[1] = b /\ cursor'[2] = k - 1
  BY <1>2, <1>3
<1>11. TypeOK'
  BY <1>1, <1>7, <1>8, <1>9, <1>10 DEF TypeOK, numbering, dataflow
<1>12. CursorOK'
  BY <1>1, <1>3, <1>10 DEF CursorOK
<1> QED
  BY <1>1, <1>11, <1>12 DEF Typed

LEMMA LeaveBlockTyped ==
  ASSUME Typed, LeaveBlock
  PROVE  Typed' /\ Block' = Block
<1> USE DEF Typed
<1>1. CodeOK' /\ Block' = Block /\ UNCHANGED <<blocks, numbering, dataflow>>
  BY SameBlocks DEF LeaveBlock
<1>2. live_ranges' \in [Operands -> SUBSET LiveRanges]
  BY DEF LeaveBlock, TypeOK
<1>3. CASE cursor[1] < Len(blocks)
  <2>1. EnterBlock(cursor[1] + 1) /\ UNCHANGED pass
    BY <1>3 DEF LeaveBlock
  <2>2. cursor[1] + 1 \in Block
    BY <1>3, BlockFacts DEF TypeOK
  <2>3. /\ cursor' \in Block \X Nat /\ cursor'[1] = cursor[1] + 1
        /\ cursor'[2] = Len(blocks[cursor[1] + 1].body)
        /\ DOMAIN range_buffer' \subseteq Operands
        /\ \A o \in DOMAIN range_buffer' : range_buffer'[o] \in LiveRanges
    BY <2>1, <2>2, EnterBlockTyped
  <2>4. TypeOK'
    BY <1>1, <1>2, <2>1, <2>3 DEF TypeOK, numbering, dataflow
  <2>5. CursorOK'
    <3>1. Len(blocks[cursor[1] + 1].body) \in Nat
      BY <2>2, BlockFacts
    <3> QED
      BY <1>1, <2>3, <3>1 DEF CursorOK
  <2> QED
    BY <1>1, <2>4, <2>5
<1>4. CASE ~(cursor[1] < Len(blocks))
  <2>1. pass' = "allocate_hint" /\ UNCHANGED <<cursor, range_buffer>>
    BY <1>4 DEF LeaveBlock
  <2> QED
    BY <1>1, <1>2, <2>1 DEF TypeOK, CursorOK, numbering, dataflow
<1> QED
  BY <1>3, <1>4

LEMMA NextTyped == Typed /\ [Next]_vars => Typed' /\ Block' = Block
<1> SUFFICES ASSUME Typed, [Next]_vars PROVE Typed' /\ Block' = Block
  OBVIOUS
<1>1. CASE UNCHANGED vars
  <2>1. CodeOK' /\ Block' = Block
    BY <1>1, SameBlocks DEF vars, Typed
  <2> QED
    BY <1>1, <2>1 DEF Typed, TypeOK, CursorOK, vars, numbering, dataflow, scan
<1> QED
  BY <1>1, BuildBlockGraphTyped, BuildBlockDefUseTyped, NumberInstructionTyped,
     NumberInstructionReturnsTyped, PendingStepTyped, AnalysisConvergedTyped,
     ScanInstructionTyped, LeaveBlockTyped DEF Next

(* Every variable keeps its type.  In particular every entry of the        *)
(* worklist and every pending call of number_instruction names a block of  *)
(* the function, and only operands have ranges.                            *)
THEOREM TypeCorrect == Spec => []TypeOK
<1>1. Init => Typed
  BY InitTyped
<1>2. Typed /\ [Next]_vars => Typed'
  BY NextTyped
<1>3. Typed => TypeOK
  BY DEF Typed
<1> QED
  BY <1>1, <1>2, <1>3, PTL DEF Spec

-----------------------------------------------------------------------------
(* The graph: a block's out_blocks are its targets, and each of them has   *)
(* the block among its in_blocks.                                          *)
GraphOK ==
  pass # "build_block_graph" =>
    \A a \in Block :
      /\ ToSet(blocks[a].out_blocks) = ToSet(Targets(a))
      /\ \A s \in ToSet(Targets(a)) : a \in ToSet(blocks[s].in_blocks)

LEMMA NextPass ==
  Next => /\ pass \in {"build_block_graph", "build_block_def_use", "number_instruction",
                      "liveness_analysis", "live_ranges"}
          /\ pass' \in {"build_block_graph", "build_block_def_use", "number_instruction",
                       "liveness_analysis", "live_ranges", "allocate_hint"}
BY DEF Next, BuildBlockGraph, BuildBlockDefUse, NumberInstruction,
   NumberInstructionReturns, PendingStep, AnalysisConverged, ScanInstruction, LeaveBlock

(* The passes change what is recorded of an instruction, never what it     *)
(* does.                                                                   *)
SameCode ==
  \A b \in Block :
    /\ Len(blocks'[b].body) = Len(blocks[b].body)
    /\ \A k \in 1..Len(blocks[b].body) :
         /\ blocks'[b].body[k].def = blocks[b].body[k].def
         /\ blocks'[b].body[k].use = blocks[b].body[k].use
         /\ blocks'[b].body[k].label = blocks[b].body[k].label
         /\ blocks'[b].body[k].mv = blocks[b].body[k].mv

(* After the first two passes the rest of a block is not touched either.   *)
SameGraph ==
  \A b \in Block :
    /\ blocks'[b].in_blocks = blocks[b].in_blocks
    /\ blocks'[b].out_blocks = blocks[b].out_blocks
    /\ blocks'[b].uses = blocks[b].uses
    /\ blocks'[b].defs = blocks[b].defs

LEMMA NumberInstructionKeepsCode ==
  ASSUME Typed, NumberInstruction
  PROVE  SameCode /\ SameGraph
<1> DEFINE b == Head(calls)
<1>1. b \in Block /\ num2instr \in Seq(Block \X Nat) /\ CodeOK
  BY HeadAndTail DEF NumberInstruction, Typed, TypeOK
<1>2. CASE b \in visited
  BY <1>2 DEF NumberInstruction, SameCode, SameGraph
<1>3. CASE b \notin visited
  <2>1. blocks' = Numbered(b)
    BY <1>3 DEF NumberInstruction, Numbered
  <2> HIDE DEF b
  <2>2. /\ \A c \in Block \ {b} : blocks'[c] = blocks[c]
        /\ Len(blocks'[b].body) = Len(blocks[b].body)
        /\ \A k \in 1..Len(blocks[b].body) :
             blocks'[b].body[k] = [blocks[b].body[k] EXCEPT !.number = Len(num2instr) + k - 1]
        /\ SameGraph
    BY <1>1, <2>1, NumberedBlocks DEF SameGraph
  <2>3. ASSUME NEW k \in 1..Len(blocks[b].body)
        PROVE  /\ blocks'[b].body[k].def = blocks[b].body[k].def
               /\ blocks'[b].body[k].use = blocks[b].body[k].use
               /\ blocks'[b].body[k].label = blocks[b].body[k].label
               /\ blocks'[b].body[k].mv = blocks[b].body[k].mv
    <3>1. blocks[b].body[k] \in MachineInstrs(Block)
      BY <1>1, InstrFacts
    <3> QED
      BY <2>2, <3>1 DEF MachineInstrs
  <2> QED
    BY <2>2, <2>3 DEF SameCode
<1> QED
  BY <1>2, <1>3

LEMMA NextKeepsCode ==
  ASSUME Typed, [Next]_vars
  PROVE  /\ SameCode
         /\ pass \notin {"build_block_graph", "build_block_def_use"} => SameGraph
<1>1. ASSUME UNCHANGED blocks PROVE SameCode /\ SameGraph
  BY <1>1 DEF SameCode, SameGraph
<1>2. ASSUME BuildBlockGraph PROVE SameCode
  <2>1. \A b \in Block : blocks'[b].body = blocks[b].body
    BY <1>2, BlockFacts DEF BuildBlockGraph, Typed, MachineBlocks
  <2> QED
    BY <2>1 DEF SameCode
<1>3. ASSUME BuildBlockDefUse PROVE SameCode
  <2>1. ASSUME NEW b \in Block
        PROVE  blocks'[b].body = blocks[b].body
    <3>1. blocks[b] \in MachineBlocks(Block)
      BY BlockFacts DEF Typed
    <3>2. /\ blocks'[b] = [blocks[b] EXCEPT !.uses = blocks'[b].uses, !.defs = blocks'[b].defs]
      BY <1>3, <3>1 DEF BuildBlockDefUse, MachineBlocks
    <3> QED
      BY <3>1, <3>2 DEF MachineBlocks
  <2> QED
    BY <2>1 DEF SameCode
<1> QED
  BY <1>1, <1>2, <1>3, NumberInstructionKeepsCode
     DEF Next, vars, BuildBlockGraph, BuildBlockDefUse, NumberInstructionReturns,
         PendingStep, AnalysisConverged, ScanInstruction, LeaveBlock

LEMMA SameTargets ==
  ASSUME SameCode, NEW b \in Block
  PROVE  Targets(b)' = Targets(b)
<1>1. [k \in 1..Len(blocks'[b].body) |-> Label(blocks'[b].body[k])] =
      [k \in 1..Len(blocks[b].body) |-> Label(blocks[b].body[k])]
  BY DEF SameCode, Label
<1> QED
  BY <1>1 DEF Targets

LEMMA BuildBlockGraphBuildsGraph ==
  ASSUME Typed, BuildBlockGraph
  PROVE  GraphOK'
<1>1. Block' = Block /\ SameCode
  BY BuildBlockGraphTyped, NextKeepsCode DEF Next
<1>2. ASSUME NEW a \in Block
      PROVE  /\ blocks'[a].out_blocks = Targets(a)
             /\ blocks'[a].in_blocks = Sources(a)
  BY BlockFacts DEF BuildBlockGraph, MachineBlocks, Typed
<1>3. ASSUME NEW a \in Block, NEW s \in ToSet(Targets(a))
      PROVE  s \in Block /\ a \in ToSet(blocks'[s].in_blocks)
  <2>1. s \in Block
    BY TargetsProperties, ElementOfSeq, LenProperties DEF ToSet, Typed
  <2> QED
    BY <1>2, <2>1, SourcesProperties DEF Typed
<1>4. \A a \in Block : Targets(a)' = Targets(a)
  BY <1>1, SameTargets
<1> QED
  BY <1>1, <1>2, <1>3, <1>4 DEF GraphOK

LEMMA NextGraph == Typed /\ GraphOK /\ [Next]_vars => GraphOK'
<1> SUFFICES ASSUME Typed, GraphOK, [Next]_vars PROVE GraphOK'
  OBVIOUS
<1>1. Block' = Block /\ SameCode
  BY NextTyped, NextKeepsCode
<1>2. \A a \in Block : Targets(a)' = Targets(a)
  BY <1>1, SameTargets
<1>3. \A a \in Block : ToSet(Targets(a)) \subseteq Block
  BY TargetsProperties, ElementOfSeq, LenProperties DEF ToSet, Typed
<1>4. ASSUME pass # "build_block_graph",
             \A b \in Block : /\ blocks'[b].in_blocks = blocks[b].in_blocks
                              /\ blocks'[b].out_blocks = blocks[b].out_blocks
      PROVE  GraphOK'
  BY <1>1, <1>2, <1>3, <1>4 DEF GraphOK
<1>5. CASE BuildBlockGraph
  BY <1>5, BuildBlockGraphBuildsGraph
<1>6. CASE BuildBlockDefUse
  <2>1. ASSUME NEW b \in Block
        PROVE  /\ blocks'[b].in_blocks = blocks[b].in_blocks
               /\ blocks'[b].out_blocks = blocks[b].out_blocks
    <3>1. blocks[b] \in MachineBlocks(Block)
      BY BlockFacts DEF Typed
    <3> QED
      BY <1>6, <3>1 DEF BuildBlockDefUse, MachineBlocks
  <2> QED
    BY <1>4, <1>6, <2>1 DEF BuildBlockDefUse
<1>7. CASE ~BuildBlockGraph /\ ~BuildBlockDefUse
  <2>1. CASE UNCHANGED vars
    BY <1>1, <1>4, <2>1 DEF vars, GraphOK, SameGraph
  <2>2. CASE ~UNCHANGED vars
    <3>1. pass \notin {"build_block_graph", "build_block_def_use"}
      BY <1>7, <2>2 DEF Next, NumberInstruction, NumberInstructionReturns,
           PendingStep, AnalysisConverged, ScanInstruction, LeaveBlock
    <3> QED
      BY <1>4, <3>1, NextKeepsCode DEF SameGraph
  <2> QED
    BY <2>1, <2>2
<1> QED
  BY <1>5, <1>6, <1>7

-----------------------------------------------------------------------------
(* The worklist.  Before it runs, every block waits in it; when it is      *)
(* empty, every block satisfies the equation of the analysis.              *)
Solved(b) == OUTs[b] = Out(b) /\ INs[b] = Transfer(b, Out(b))

WorklistOK ==
  /\ pass \in {"build_block_graph", "build_block_def_use", "number_instruction"} =>
       /\ \A b \in Block : b \in ToSet(pending_blocks)
       /\ INs = [b \in Block |-> {}]
  /\ PendingCoversChanges
  /\ pass \in {"live_ranges", "allocate_hint"} => \A b \in Block : Solved(b)

FlowInv == Typed /\ GraphOK /\ WorklistOK

LEMMA SameSolved ==
  ASSUME SameGraph, UNCHANGED <<INs, OUTs>>, Block' = Block, NEW b \in Block
  PROVE  Solved(b)' = Solved(b)
<1>1. Out(b)' = Out(b)
  BY DEF Out, SameGraph
<1>2. Transfer(b, Out(b))' = Transfer(b, Out(b))
  BY <1>1 DEF Transfer, SameGraph
<1> QED
  BY <1>1, <1>2 DEF Solved

(* A turn of the worklist loop leaves no change behind: the block taken    *)
(* is solved, and one that is not queued has no successor whose IN became  *)
(* another.                                                                *)
LEMMA PendingStepCovers ==
  ASSUME FlowInv, PendingStep
  PROVE  PendingCoversChanges'
<1> DEFINE b  == Head(pending_blocks)
           in == Transfer(b, Out(b))
<1> USE DEF FlowInv
<1>1. Block' = Block /\ Typed
  BY PendingStepTyped
<1>2. /\ pass = "liveness_analysis" /\ pending_blocks # <<>>
      /\ OUTs' = [OUTs EXCEPT ![b] = Out(b)]
      /\ INs' = [INs EXCEPT ![b] = in]
      /\ pending_blocks' = Tail(pending_blocks) \o Requeued(b, in)
      /\ UNCHANGED <<pass, blocks>>
  BY DEF PendingStep
<1>3. /\ INs \in [Block -> SUBSET Operands] /\ OUTs \in [Block -> SUBSET Operands]
      /\ pending_blocks \in Seq(Block)
  BY DEF Typed, TypeOK
<1>4. /\ b \in Block /\ Tail(pending_blocks) \in Seq(Block)
      /\ ToSet(pending_blocks) = {b} \cup ToSet(Tail(pending_blocks))
  BY <1>2, <1>3, HeadAndTail
<1>5. blocks[b].in_blocks \in Seq(Block)
  BY <1>4, BlockFacts DEF Typed, MachineBlocks
<1> HIDE DEF b, in
<1>6. ToSet(pending_blocks') = ToSet(Tail(pending_blocks)) \cup ToSet(Requeued(b, in))
  <2>1. Requeued(b, in) \in Seq(Block)
    BY <1>5, EmptySeq DEF Requeued
  <2>2. pending_blocks' = Tail(pending_blocks) \o Requeued(b, in)
    BY <1>2 DEF b, in
  <2>3. Tail(pending_blocks) \in Seq(Block)
    BY <1>4
  <2>4. ToSet(Tail(pending_blocks) \o Requeued(b, in))
          = ToSet(Tail(pending_blocks)) \cup ToSet(Requeued(b, in))
    BY <2>1, <2>3, ConcatElements
  <2> QED
    BY <2>2, <2>4
<1>7. /\ INs'[b] = in /\ OUTs'[b] = Out(b)
      /\ \A c \in Block \ {b} : INs'[c] = INs[c] /\ OUTs'[c] = OUTs[c]
  BY <1>2, <1>3, <1>4
\* Who is not queued has the same OUT as before.
<1>8. ASSUME NEW c \in Block, c \notin ToSet(pending_blocks')
      PROVE  Out(c)' = Out(c)
  <2>1. ASSUME NEW s \in ToSet(blocks[c].out_blocks)
        PROVE  INs'[s] = INs[s]
    <3>1. s \in ToSet(Targets(c)) /\ s \in Block
      <4>1. blocks[c].out_blocks \in Seq(Block)
        BY <1>1, BlockFacts DEF Typed, MachineBlocks
      <4>2. ToSet(blocks[c].out_blocks) = ToSet(Targets(c))
        BY <1>2 DEF GraphOK
      <4>3. ToSet(blocks[c].out_blocks) \subseteq Block
        BY <4>1, ElementOfSeq DEF ToSet
      <4> QED
        BY <2>1, <4>2, <4>3
    <3>2. c \in ToSet(blocks[s].in_blocks)
      BY <1>2, <3>1 DEF GraphOK
    <3>3. CASE s = b
      <4>1. in = INs[b]
        BY <1>6, <1>8, <3>2, <3>3 DEF Requeued
      <4> QED
        BY <1>7, <3>3, <4>1
    <3> QED
      BY <1>7, <3>1, <3>3
  <2> QED
    BY <1>2, <2>1 DEF Out
<1>9. \A c \in Block : Transfer(c, Out(c))' = Transfer(c, Out(c)')
  BY <1>2 DEF Transfer
<1>10. ASSUME NEW c \in Block, c \notin ToSet(pending_blocks')
       PROVE  OUTs'[c] = Out(c)' /\ INs'[c] = Transfer(c, Out(c)')
  <2>1. CASE c = b
    BY <1>7, <1>8, <1>10, <2>1 DEF in
  <2>2. CASE c # b
    <3>1. c \notin ToSet(pending_blocks)
      BY <1>4, <1>6, <1>10, <2>2
    <3>2. OUTs[c] = Out(c) /\ INs[c] = Transfer(c, Out(c))
      BY <1>2, <3>1 DEF WorklistOK, PendingCoversChanges
    <3> QED
      BY <1>7, <1>8, <1>10, <2>2, <3>2
  <2> QED
    BY <2>1, <2>2
<1>11. \A c \in Block : Transfer(c, Out(c)') = Transfer(c, Out(c))'
  BY <1>9
<1> QED
  BY <1>1, <1>10, <1>11 DEF PendingCoversChanges

LEMMA InitFlow == Init => FlowInv
<1> SUFFICES ASSUME Init PROVE FlowInv
  OBVIOUS
<1>1. Typed
  BY InitTyped
<1>2. \A b \in Block : b \in ToSet(pending_blocks)
  BY DEF Init, ToSet
<1>3. GraphOK /\ WorklistOK
  BY <1>2 DEF Init, GraphOK, WorklistOK, PendingCoversChanges
<1> QED
  BY <1>1, <1>3 DEF FlowInv

LEMMA NextFlow == FlowInv /\ [Next]_vars => FlowInv'
<1> SUFFICES ASSUME FlowInv, [Next]_vars PROVE FlowInv'
  OBVIOUS
<1>1. Typed' /\ Block' = Block /\ GraphOK'
  BY NextTyped, NextGraph DEF FlowInv
<1>2. CASE BuildBlockGraph \/ BuildBlockDefUse \/ NumberInstruction
  BY <1>1, <1>2 DEF FlowInv, WorklistOK, PendingCoversChanges, BuildBlockGraph,
     BuildBlockDefUse, NumberInstruction, dataflow
<1>3. CASE NumberInstructionReturns
  BY <1>1, <1>3 DEF FlowInv, WorklistOK, PendingCoversChanges, NumberInstructionReturns,
     dataflow
<1>4. CASE PendingStep
  BY <1>1, <1>4, PendingStepCovers DEF FlowInv, WorklistOK, PendingStep
<1>5. ASSUME pass \in {"liveness_analysis", "live_ranges", "allocate_hint"},
             pass = "liveness_analysis" => pending_blocks = <<>>,
             pass' \in {"live_ranges", "allocate_hint"},
             UNCHANGED <<blocks, dataflow>>
      PROVE  WorklistOK'
  <2>1. \A b \in Block : Solved(b)
    <3>1. pending_blocks = <<>> => \A b \in Block : b \notin ToSet(pending_blocks)
      BY DEF ToSet
    <3> QED
      BY <1>5, <3>1 DEF FlowInv, WorklistOK, PendingCoversChanges, Solved
  <2>2. SameGraph
    BY <1>5 DEF SameGraph
  <2>3. \A b \in Block : Solved(b)'
    BY <1>1, <1>5, <2>1, <2>2, SameSolved DEF dataflow
  <2> QED
    BY <1>1, <1>5, <2>3 DEF WorklistOK, PendingCoversChanges
<1>6. CASE AnalysisConverged
  BY <1>1, <1>5, <1>6 DEF FlowInv, AnalysisConverged
<1>7. CASE ScanInstruction \/ LeaveBlock
  BY <1>1, <1>5, <1>7 DEF FlowInv, ScanInstruction, LeaveBlock
<1>8. CASE UNCHANGED vars
  <2>1. SameGraph
    BY <1>8 DEF SameGraph, vars
  <2>2. \A b \in Block : Solved(b)' = Solved(b)
    BY <1>1, <1>8, <2>1, SameSolved DEF vars, dataflow
  <2>3. PendingCoversChanges'
    BY <1>1, <1>8, <2>2 DEF FlowInv, WorklistOK, PendingCoversChanges, Solved, vars, dataflow
  <2> QED
    BY <1>1, <1>8, <2>2, <2>3 DEF FlowInv, WorklistOK, vars, dataflow
<1> QED
  BY <1>2, <1>3, <1>4, <1>6, <1>7, <1>8 DEF Next

(* A change of IN never leaves a predecessor that has to be looked at      *)
(* again out of pending_blocks.                                            *)
THEOREM WorklistCovers == Spec => []PendingCoversChanges
<1>1. Init => FlowInv
  BY InitFlow
<1>2. FlowInv /\ [Next]_vars => FlowInv'
  BY NextFlow
<1>3. FlowInv => PendingCoversChanges
  BY DEF FlowInv, WorklistOK
<1> QED
  BY <1>1, <1>2, <1>3, PTL DEF Spec

-----------------------------------------------------------------------------
(* How the passes come to their end.  The worklist only ever adds: no IN   *)
(* is beyond what the equation of the block gives by now, so the next turn *)
(* with the block keeps all of it.                                         *)
Rising == \A b \in Block : INs[b] \subseteq Transfer(b, Out(b))

RisingInv == FlowInv /\ Rising

LEMMA PendingStepAdds ==
  ASSUME RisingInv, PendingStep
  PROVE  /\ \A c \in Block : INs[c] \subseteq INs'[c]
         /\ Rising'
         /\ INs' = INs => Len(pending_blocks') < Len(pending_blocks)
<1> DEFINE b  == Head(pending_blocks)
           in == Transfer(b, Out(b))
<1> USE DEF RisingInv, FlowInv
<1>1. Block' = Block /\ Typed
  BY PendingStepTyped
<1>2. /\ pass = "liveness_analysis" /\ pending_blocks # <<>>
      /\ INs' = [INs EXCEPT ![b] = in]
      /\ pending_blocks' = Tail(pending_blocks) \o Requeued(b, in)
      /\ UNCHANGED <<pass, blocks>>
  BY DEF PendingStep
<1>3. INs \in [Block -> SUBSET Operands] /\ pending_blocks \in Seq(Block)
  BY DEF Typed, TypeOK
<1>4. b \in Block
  BY <1>2, <1>3, HeadAndTail
<1>5. INs[b] \subseteq in
  BY <1>4 DEF Rising
<1> HIDE DEF b, in
<1>6. INs'[b] = in /\ \A c \in Block \ {b} : INs'[c] = INs[c]
  BY <1>2, <1>3, <1>4
<1>7. \A c \in Block : INs[c] \subseteq INs'[c]
  BY <1>5, <1>6
<1>8. ASSUME NEW c \in Block
      PROVE  INs'[c] \subseteq Transfer(c, Out(c))'
  <2>1. ASSUME NEW s \in ToSet(blocks[c].out_blocks)
        PROVE  INs[s] \subseteq INs'[s]
    <3>1. s \in Block
      <4>1. blocks[c].out_blocks \in Seq(Block)
        BY BlockFacts DEF Typed, MachineBlocks
      <4> QED
        BY <2>1, <4>1, ElementOfSeq DEF ToSet
    <3> QED
      BY <1>7, <3>1
  <2>2. Out(c) \subseteq Out(c)'
    BY <1>2, <2>1 DEF Out
  <2>3. Transfer(c, Out(c)) \subseteq Transfer(c, Out(c))'
    BY <1>2, <2>2 DEF Transfer
  <2>4. INs'[c] \subseteq Transfer(c, Out(c))
    BY <1>6 DEF Rising, in
  <2> QED
    BY <2>3, <2>4
<1>9. ASSUME INs' = INs
      PROVE  Len(pending_blocks') < Len(pending_blocks)
  <2>1. Requeued(b, in) = <<>>
    BY <1>6, <1>9 DEF Requeued
  <2>2. Tail(pending_blocks) \in Seq(Block) /\ Len(Tail(pending_blocks)) = Len(pending_blocks) - 1
    BY <1>2, <1>3, HeadAndTail, EmptySeq
  <2>3. Tail(pending_blocks) \o <<>> = Tail(pending_blocks)
    BY <2>2
  <2> QED
    BY <1>2, <1>3, <2>1, <2>2, <2>3
<1> QED
  BY <1>1, <1>7, <1>8, <1>9 DEF Rising

LEMMA InitRising == Init => RisingInv
BY InitFlow DEF RisingInv, Rising, Init

LEMMA NextRising == RisingInv /\ [Next]_vars => RisingInv'
<1> SUFFICES ASSUME RisingInv, [Next]_vars PROVE Rising'
  BY NextFlow DEF RisingInv
<1>1. FlowInv' /\ Block' = Block
  BY NextFlow, NextTyped DEF RisingInv, FlowInv
<1>2. CASE PendingStep
  BY <1>2, PendingStepAdds
<1>3. CASE BuildBlockGraph \/ BuildBlockDefUse \/ NumberInstruction \/ NumberInstructionReturns
  <2>1. /\ pass \in {"build_block_graph", "build_block_def_use", "number_instruction"}
        /\ INs' = INs
    BY <1>3 DEF BuildBlockGraph, BuildBlockDefUse, NumberInstruction,
       NumberInstructionReturns, dataflow
  <2>2. \A b \in Block : INs'[b] = {}
    BY <2>1 DEF RisingInv, FlowInv, WorklistOK
  <2> QED
    BY <1>1, <2>2 DEF Rising
<1>4. CASE AnalysisConverged \/ ScanInstruction \/ LeaveBlock \/ UNCHANGED vars
  <2>1. UNCHANGED <<blocks, INs>>
    BY <1>4 DEF AnalysisConverged, ScanInstruction, LeaveBlock, dataflow, vars
  <2>2. \A b \in Block : Transfer(b, Out(b))' = Transfer(b, Out(b))
    BY <2>1 DEF Transfer, Out
  <2> QED
    BY <1>1, <2>1, <2>2 DEF RisingInv, Rising
<1> QED
  BY <1>2, <1>3, <1>4 DEF Next

(* Every step of the passes gets nearer to their end.  A call of           *)
(* number_instruction finds a new block or leaves a call less; a turn of   *)
(* the worklist loop adds to an IN or leaves a block less in the queue;    *)
(* and no block is forgotten, no operand is taken out of an IN again.  As  *)
(* there are only so many blocks and operands, neither loop can go round   *)
(* for ever, whatever the block graph.                                     *)
Advances ==
  /\ visited \subseteq visited'
  /\ \A b \in Block : INs[b] \subseteq INs'[b]
  /\ pass' = pass =>
       /\ pass = "number_instruction" => visited' # visited \/ Len(calls') < Len(calls)
       /\ pass = "liveness_analysis" =>
            INs' # INs \/ Len(pending_blocks') < Len(pending_blocks)
       /\ pass = "live_ranges" =>
            \/ cursor'[1] > cursor[1]
            \/ cursor'[1] = cursor[1] /\ cursor'[2] < cursor[2]

LEMMA NextAdvances == RisingInv /\ Next => Advances
<1> SUFFICES ASSUME RisingInv, Next PROVE Advances
  OBVIOUS
<1>1. /\ calls \in Seq(Block) /\ cursor \in Block \X Nat
      /\ INs \in [Block -> SUBSET Operands]
  BY DEF RisingInv, FlowInv, Typed, TypeOK
<1>2. CASE BuildBlockGraph \/ BuildBlockDefUse \/ NumberInstructionReturns
  <2>1. pass' # pass /\ UNCHANGED <<visited, INs>>
    BY <1>2 DEF BuildBlockGraph, BuildBlockDefUse, NumberInstructionReturns,
       numbering, dataflow
  <2> QED
    BY <2>1 DEF Advances
<1>3. CASE NumberInstruction
  <2>1. pass = "number_instruction" /\ pass' = pass /\ INs' = INs /\ calls # <<>>
    BY <1>3 DEF NumberInstruction, dataflow
  <2>2. CASE Head(calls) \in visited
    <3>1. calls' = Tail(calls) /\ visited' = visited
      BY <1>3, <2>2 DEF NumberInstruction
    <3>2. Len(Tail(calls)) = Len(calls) - 1 /\ Len(calls) \in Nat
      BY <1>1, <2>1, EmptySeq
    <3> QED
      BY <2>1, <3>1, <3>2 DEF Advances
  <2>3. CASE Head(calls) \notin visited
    <3>1. visited' = visited \cup {Head(calls)}
      BY <1>3, <2>3 DEF NumberInstruction
    <3> QED
      BY <2>1, <2>3, <3>1 DEF Advances
  <2> QED
    BY <2>2, <2>3
<1>4. CASE PendingStep
  BY <1>4, PendingStepAdds DEF Advances, PendingStep, numbering
<1>5. CASE AnalysisConverged
  BY <1>5 DEF Advances, AnalysisConverged, numbering, dataflow
<1>6. CASE ScanInstruction
  <2>1. cursor' = <<cursor[1], cursor[2] - 1>>
    BY <1>6 DEF ScanInstruction
  <2> QED
    BY <1>1, <1>6, <2>1 DEF Advances, ScanInstruction, numbering, dataflow
<1>7. CASE LeaveBlock
  <2>1. pass = "live_ranges" /\ UNCHANGED <<numbering, dataflow>>
    BY <1>7 DEF LeaveBlock
  <2>2. pass' = pass => cursor'[1] = cursor[1] + 1
    BY <1>7, <2>1 DEF LeaveBlock, EnterBlock
  <2>3. cursor[1] \in Nat
    BY <1>1
  <2> QED
    BY <2>1, <2>2, <2>3 DEF Advances, numbering, dataflow
<1> QED
  BY <1>2, <1>3, <1>4, <1>5, <1>6, <1>7 DEF Next

THEOREM AnalysisAdvances == Spec => [][Advances]_vars
<1>1. RisingInv /\ [Next]_vars => [Advances]_vars
  BY NextAdvances
<1> QED
  BY <1>1, InitRising, NextRising, PTL DEF Spec

-----------------------------------------------------------------------------
(* The solution.  What is live at the start of a block is the least        *)
(* solution of the equations of the analysis: it is closed under them, and *)
(* whatever is closed under them contains it.                              *)
Succ == [b \in Block |-> ToSet(Targets(b))]

(* The path p from b shows that o is live at the start of b.               *)
Carries(p, b, o) ==
  /\ p \in Paths(Succ) /\ p[1] = b
  /\ o \in blocks[p[Len(p)]].uses
  /\ \A i \in 1..(Len(p) - 1) : o \notin blocks[p[i]].defs

LEMMA LiveIsCarried ==
  ASSUME NEW b \in Block, NEW o
  PROVE  o \in LiveAtStart[b] <=> \E p : Carries(p, b, o)
<1> DEFINE Gen(p) == {x \in blocks[p[Len(p)]].uses :
                        \A i \in 1..(Len(p) - 1) : x \notin blocks[p[i]].defs}
<1>1. LiveAtStart[b] = UNION {Gen(p) : p \in {q \in Paths(Succ) : q[1] = b}}
  BY DEF LiveAtStart, Succ
<1>2. o \in LiveAtStart[b] <=> \E p \in Paths(Succ) : p[1] = b /\ o \in Gen(p)
  BY <1>1
<1> QED
  BY <1>2 DEF Carries

LEMMA PathFacts ==
  ASSUME CodeOK, NEW p
  PROVE  p \in Paths(Succ) <=>
           /\ p \in Seq(Block) /\ Len(p) \in 1..Len(blocks) /\ IsInjective(p)
           /\ \A i \in 1..(Len(p) - 1) : p[i + 1] \in ToSet(Targets(p[i]))
<1>1. Len(blocks) \in Nat
  BY BlockFacts
<1>2. ASSUME p \in Paths(Succ)
      PROVE  /\ p \in Seq(Block) /\ Len(p) \in 1..Len(blocks) /\ IsInjective(p)
             /\ \A i \in 1..(Len(p) - 1) : p[i + 1] \in ToSet(Targets(p[i]))
  <2>1. PICK n \in 1..Len(blocks) : p \in [1..n -> Block]
    BY <1>2 DEF Paths
  <2>2. p \in Seq(Block) /\ Len(p) = n
    BY <1>1, <2>1, FunctionIsSeq
  <2>3. \A i \in 1..(Len(p) - 1) : p[i] \in Block /\ p[i + 1] \in Succ[p[i]]
    BY <1>1, <1>2, <2>1, <2>2 DEF Paths
  <2> QED
    BY <1>2, <2>2, <2>3 DEF Paths, Succ
<1>3. ASSUME p \in Seq(Block), Len(p) \in 1..Len(blocks), IsInjective(p),
             \A i \in 1..(Len(p) - 1) : p[i + 1] \in ToSet(Targets(p[i]))
      PROVE  p \in Paths(Succ)
  <2>1. p \in [1..Len(p) -> Block]
    BY <1>3, LenProperties
  <2>2. \A i \in 1..(Len(p) - 1) : p[i + 1] \in Succ[p[i]]
    BY <1>1, <1>3, <2>1 DEF Succ
  <2> QED
    BY <1>3, <2>1, <2>2 DEF Paths
<1> QED
  BY <1>2, <1>3

(* A path that visits no block twice is no longer than there are blocks.   *)
LEMMA InjectivePathsAreShort ==
  ASSUME CodeOK, NEW n \in Nat, NEW p \in [1..n -> Block], IsInjective(p)
  PROVE  n <= Len(blocks)
<1>1. Block = 1..Len(blocks) /\ Len(blocks) \in Nat \ {0}
  BY BlockFacts
<1>2. IsFiniteSet(Block) /\ Cardinality(Block) = Len(blocks)
  <2>1. \A m \in Nat \ {0} : IsFiniteSet(1..m) /\ Cardinality(1..m) = m
    BY FS_Interval
  <2> QED
    BY <1>1, <2>1
<1>3. Cardinality(1..n) = n
  BY FS_Interval
<1>4. p \in Injection(1..n, Block)
  BY DEF Injection
<1> QED
  BY <1>2, <1>3, <1>4, FS_Injection

(* A path from a successor is a path from the block itself: the block is   *)
(* put in front or, when the path comes by it, what goes before is left    *)
(* out.                                                                    *)
LEMMA PathsExtend ==
  ASSUME CodeOK, NEW b \in Block, NEW s \in ToSet(Targets(b)), NEW o, NEW p,
         Carries(p, s, o), o \notin blocks[b].defs
  PROVE  \E q : Carries(q, b, o)
<1>1. /\ p \in Seq(Block) /\ Len(p) \in 1..Len(blocks) /\ IsInjective(p)
      /\ \A i \in 1..(Len(p) - 1) : p[i + 1] \in ToSet(Targets(p[i]))
  BY PathFacts DEF Carries
<1>2. /\ p[1] = s /\ o \in blocks[p[Len(p)]].uses
      /\ \A i \in 1..(Len(p) - 1) : o \notin blocks[p[i]].defs
  BY DEF Carries
<1>3. p \in [1..Len(p) -> Block] /\ Len(p) \in Nat \ {0} /\ Len(blocks) \in Nat
  BY <1>1, BlockFacts, LenProperties
<1>4. CASE \E j \in 1..Len(p) : p[j] = b
  <2>1. PICK j \in 1..Len(p) : p[j] = b
    BY <1>4
  <2> DEFINE n == Len(p) - j + 1
             q == [i \in 1..n |-> p[i + j - 1]]
  <2>2. n \in 1..Len(p) /\ q \in [1..n -> Block]
    BY <1>3
  <2>3. q \in Seq(Block) /\ Len(q) = n
    <3> HIDE DEF q, n
    <3> QED
      BY <1>3, <2>2, FunctionIsSeq
  <2>4. IsInjective(q)
    BY <1>1, <1>3, <2>2 DEF IsInjective
  <2>5. ASSUME NEW i \in 1..(n - 1)
        PROVE  /\ i \in 1..n /\ i + 1 \in 1..n /\ i + j - 1 \in 1..(Len(p) - 1)
               /\ q[i] = p[i + j - 1] /\ q[i + 1] = p[(i + j - 1) + 1]
    BY <1>3, <2>2
  <2>6. \A i \in 1..(n - 1) : q[i + 1] \in ToSet(Targets(q[i])) /\ o \notin blocks[q[i]].defs
    BY <1>1, <1>2, <2>5
  <2>7. q[1] = b /\ q[n] = p[Len(p)]
    BY <1>3, <2>1, <2>2
  <2> HIDE DEF q, n
  <2>8. q \in Paths(Succ)
    <3>1. Len(q) \in 1..Len(blocks)
      BY <1>1, <1>3, <2>2, <2>3
    <3> QED
      BY <2>3, <2>4, <2>6, <3>1, PathFacts
  <2> QED
    BY <1>2, <2>3, <2>6, <2>7, <2>8 DEF Carries
<1>5. CASE \A j \in 1..Len(p) : p[j] # b
  <2> DEFINE n == Len(p) + 1
             q == [i \in 1..n |-> IF i = 1 THEN b ELSE p[i - 1]]
  <2>1. n \in Nat /\ q \in [1..n -> Block]
    BY <1>3
  <2>2. q \in Seq(Block) /\ Len(q) = n
    BY <2>1, FunctionIsSeq
  <2>3. IsInjective(q)
    BY <1>1, <1>3, <1>5, <2>1 DEF IsInjective
  <2>4. n <= Len(blocks)
    <3> HIDE DEF q, n
    <3> QED
      BY <2>1, <2>3, InjectivePathsAreShort
  <2>5. q[1] = b /\ q[2] = s /\ q[n] = p[Len(p)]
    BY <1>2, <1>3
  <2>6. ASSUME NEW i \in 1..(n - 1)
        PROVE  q[i + 1] \in ToSet(Targets(q[i])) /\ o \notin blocks[q[i]].defs
    <3>1. CASE i = 1
      BY <2>5, <3>1
    <3>2. CASE i # 1
      <4>1. i - 1 \in 1..(Len(p) - 1) /\ q[i] = p[i - 1] /\ q[i + 1] = p[(i - 1) + 1]
        BY <1>3, <3>2
      <4> QED
        BY <1>1, <1>2, <4>1
    <3> QED
      BY <3>1, <3>2
  <2> HIDE DEF q
  <2>7. q \in Paths(Succ)
    BY <1>3, <2>1, <2>2, <2>3, <2>4, <2>6, PathFacts
  <2> QED
    BY <1>2, <2>2, <2>5, <2>6, <2>7 DEF Carries
<1> QED
  BY <1>4, <1>5

LEMMA LiveIsClosed ==
  ASSUME CodeOK, NEW b \in Block
  PROVE  /\ blocks[b].uses \subseteq LiveAtStart[b]
         /\ \A s \in ToSet(Targets(b)) :
              LiveAtStart[s] \ blocks[b].defs \subseteq LiveAtStart[b]
<1>1. ASSUME NEW o \in blocks[b].uses
      PROVE  o \in LiveAtStart[b]
  <2> DEFINE p == [i \in 1..1 |-> b]
  <2>1. p \in [1..1 -> Block]
    OBVIOUS
  <2>2. p \in Seq(Block) /\ Len(p) = 1
    BY <2>1, FunctionIsSeq
  <2>3. IsInjective(p) /\ p[1] = b
    BY DEF IsInjective
  <2>4. Len(blocks) \in Nat \ {0}
    BY BlockFacts
  <2> HIDE DEF p
  <2>5. p \in Paths(Succ)
    <3>1. \A i \in 1..(Len(p) - 1) : p[i + 1] \in ToSet(Targets(p[i]))
      BY <2>2
    <3>2. Len(p) \in 1..Len(blocks)
      BY <2>2, <2>4
    <3> QED
      BY <2>2, <2>3, <3>1, <3>2, PathFacts
  <2>6. Carries(p, b, o)
    BY <1>1, <2>2, <2>3, <2>5 DEF Carries
  <2> QED
    BY <2>6, LiveIsCarried
<1>2. ASSUME NEW s \in ToSet(Targets(b)), NEW o \in LiveAtStart[s] \ blocks[b].defs
      PROVE  o \in LiveAtStart[b]
  <2>1. s \in Block
    BY TargetsProperties, ElementOfSeq DEF ToSet
  <2>2. PICK p : Carries(p, s, o)
    BY <2>1, LiveIsCarried
  <2> QED
    BY <2>2, PathsExtend, LiveIsCarried
<1> QED
  BY <1>1, <1>2

LEMMA LiveIsLeast ==
  ASSUME CodeOK, NEW in,
         \A b \in Block : blocks[b].uses \subseteq in[b],
         \A b \in Block : \A s \in ToSet(Targets(b)) :
           in[s] \ blocks[b].defs \subseteq in[b]
  PROVE  \A b \in Block : LiveAtStart[b] \subseteq in[b]
<1> SUFFICES ASSUME NEW b \in Block, NEW o \in LiveAtStart[b]
             PROVE  o \in in[b]
  OBVIOUS
<1>1. PICK p : Carries(p, b, o)
  BY LiveIsCarried
<1>2. /\ p \in Seq(Block) /\ Len(p) \in Nat \ {0}
      /\ \A i \in 1..(Len(p) - 1) : p[i + 1] \in ToSet(Targets(p[i]))
  BY <1>1, BlockFacts, PathFacts DEF Carries
<1>3. p \in [1..Len(p) -> Block]
  BY <1>2, LenProperties
\* The property travels along the path, from its end to its start.
<1> DEFINE S == {n \in Nat : n < Len(p) => o \in in[p[Len(p) - n]]}
<1>4. 0 \in S
  <2>1. p[Len(p)] \in Block /\ Len(p) - 0 = Len(p)
    BY <1>2, <1>3
  <2> QED
    BY <1>1, <2>1 DEF Carries
<1>5. ASSUME NEW n \in Nat, n \in S
      PROVE  n + 1 \in S
  <2> SUFFICES ASSUME n + 1 < Len(p)
               PROVE  o \in in[p[Len(p) - (n + 1)]]
    OBVIOUS
  <2> DEFINE i == Len(p) - (n + 1)
  <2>1. i \in 1..(Len(p) - 1) /\ i + 1 = Len(p) - n /\ p[i] \in Block
    BY <1>2, <1>3
  <2>2. o \in in[p[i + 1]]
    BY <1>2, <1>5, <2>1
  <2>3. p[i + 1] \in ToSet(Targets(p[i])) /\ o \notin blocks[p[i]].defs
    BY <1>1, <1>2, <2>1 DEF Carries
  <2> HIDE DEF i
  <2>4. o \in in[p[i]]
    BY <2>1, <2>2, <2>3
  <2> QED
    BY <2>4 DEF i
<1> HIDE DEF S
<1>6. \A n \in Nat : n \in S
  BY <1>4, <1>5, SetInduction
<1>7. Len(p) - 1 \in S /\ Len(p) - 1 < Len(p) /\ Len(p) - (Len(p) - 1) = 1
  BY <1>2, <1>6
<1> QED
  BY <1>1, <1>7 DEF S, Carries

(* What is live does not change once the sets it is defined by are there.  *)
LEMMA SameLiveAtStart ==
  ASSUME CodeOK, CodeOK', SameCode, SameGraph, Block' = Block
  PROVE  /\ \A b \in Block : Targets(b)' = Targets(b)
         /\ \A b \in Block : LiveAtStart'[b] = LiveAtStart[b]
<1>1. \A b \in Block : Targets(b)' = Targets(b)
  BY SameTargets
<1>2. Paths(Succ)' = Paths(Succ)
  <2>1. Succ' = Succ
    BY <1>1 DEF Succ
  <2>2. Len(blocks') = Len(blocks)
    <3>1. Block = 1..Len(blocks) /\ Len(blocks) \in Nat \ {0}
      BY BlockFacts
    <3>2. Block' = 1..Len(blocks') /\ Len(blocks') \in Nat \ {0}
      BY EmptySeq, LenProperties DEF CodeOK, Block
    <3>3. \A m, n \in Nat \ {0} : 1..m = 1..n => m = n
      OBVIOUS
    <3> QED
      BY <3>1, <3>2, <3>3
  <2> QED
    BY <2>1, <2>2 DEF Paths
<1>3. ASSUME NEW b \in Block, NEW p, NEW o
      PROVE  Carries(p, b, o)' <=> Carries(p, b, o)
  <2>1. CASE p \notin Paths(Succ)
    BY <1>2, <2>1 DEF Carries
  <2>2. CASE p \in Paths(Succ)
    <3>1. p \in [1..Len(p) -> Block] /\ Len(p) \in Nat \ {0}
      BY <2>2, BlockFacts, PathFacts, LenProperties
    <3>2. \A i \in 1..Len(p) : /\ blocks'[p[i]].uses = blocks[p[i]].uses
                               /\ blocks'[p[i]].defs = blocks[p[i]].defs
      BY <3>1 DEF SameGraph
    <3>3. Len(p) \in 1..Len(p) /\ \A i \in 1..(Len(p) - 1) : i \in 1..Len(p)
      BY <3>1
    <3> QED
      BY <1>2, <2>2, <3>2, <3>3 DEF Carries
  <2> QED
    BY <2>1, <2>2
<1>4. ASSUME NEW b \in Block PROVE LiveAtStart'[b] = LiveAtStart[b]
  <2>1. \A o : o \in LiveAtStart[b] <=> \E p : Carries(p, b, o)
    BY LiveIsCarried
  <2>2. \A o : o \in LiveAtStart'[b] <=> \E p : Carries(p, b, o)'
    BY DEF LiveAtStart, Carries, Succ
  <2> QED
    BY <1>3, <2>1, <2>2
<1> QED
  BY <1>1, <1>4

(* The worklist never calls live what is not.                              *)
NothingDeadIn == \A b \in Block : INs[b] \subseteq LiveAtStart[b]

LivenessInv == FlowInv /\ NothingDeadIn

LEMMA PendingStepIsSound ==
  ASSUME LivenessInv, PendingStep
  PROVE  NothingDeadIn'
<1> DEFINE b  == Head(pending_blocks)
           in == Transfer(b, Out(b))
<1> USE DEF LivenessInv, FlowInv
<1>1. Block' = Block /\ Typed'
  BY PendingStepTyped
<1>2. /\ pass = "liveness_analysis" /\ INs' = [INs EXCEPT ![b] = in] /\ b \in Block
      /\ UNCHANGED blocks /\ INs \in [Block -> SUBSET Operands]
  BY HeadAndTail DEF PendingStep, Typed, TypeOK
<1>3. \A c \in Block : LiveAtStart'[c] = LiveAtStart[c]
  <2>1. SameCode /\ SameGraph
    BY <1>2 DEF SameCode, SameGraph
  <2> QED
    BY <1>1, <2>1, SameLiveAtStart DEF Typed
<1> HIDE DEF b
<1>4. in \subseteq LiveAtStart[b]
  <2>1. ASSUME NEW s \in ToSet(blocks[b].out_blocks)
        PROVE  s \in ToSet(Targets(b)) /\ INs[s] \subseteq LiveAtStart[s]
    <3>1. s \in ToSet(Targets(b))
      BY <1>2, <2>1 DEF GraphOK
    <3>2. s \in Block
      BY <1>2, <3>1, TargetsProperties, ElementOfSeq DEF ToSet, Typed
    <3> QED
      BY <3>1, <3>2 DEF NothingDeadIn
  <2>2. /\ blocks[b].uses \subseteq LiveAtStart[b]
        /\ \A s \in ToSet(Targets(b)) :
             LiveAtStart[s] \ blocks[b].defs \subseteq LiveAtStart[b]
    BY <1>2, LiveIsClosed DEF Typed
  <2> QED
    BY <2>1, <2>2 DEF Transfer, Out
<1> HIDE DEF in
<1>5. ASSUME NEW c \in Block PROVE INs'[c] \subseteq LiveAtStart[c]
  <2>1. CASE c = b
    BY <1>2, <1>4, <2>1
  <2>2. CASE c # b
    BY <1>2, <2>2 DEF NothingDeadIn
  <2> QED
    BY <2>1, <2>2
<1> QED
  BY <1>1, <1>3, <1>5 DEF NothingDeadIn

LEMMA NextSound == LivenessInv /\ [Next]_vars => LivenessInv'
<1> SUFFICES ASSUME LivenessInv, [Next]_vars PROVE LivenessInv'
  OBVIOUS
<1>1. FlowInv' /\ Typed /\ Typed' /\ Block' = Block
  BY NextFlow, NextTyped DEF LivenessInv, FlowInv
<1>2. CASE PendingStep
  BY <1>1, <1>2, PendingStepIsSound DEF LivenessInv
<1>3. CASE UNCHANGED INs
  <2>1. CASE pass \in {"build_block_graph", "build_block_def_use"}
    <3>1. INs = [c \in Block |-> {}]
      BY <2>1 DEF LivenessInv, FlowInv, WorklistOK
    <3> QED
      BY <1>1, <1>3, <3>1 DEF LivenessInv, NothingDeadIn
  <2>2. CASE pass \notin {"build_block_graph", "build_block_def_use"}
    <3>1. SameCode /\ SameGraph
      BY <1>1, <2>2, NextKeepsCode
    <3>2. \A c \in Block : LiveAtStart'[c] = LiveAtStart[c]
      BY <1>1, <3>1, SameLiveAtStart DEF Typed
    <3> QED
      BY <1>1, <1>3, <3>2 DEF LivenessInv, NothingDeadIn
  <2> QED
    BY <2>1, <2>2
<1>4. ASSUME [Next]_vars, ~PendingStep PROVE UNCHANGED INs
  BY <1>4 DEF Next, vars, dataflow, BuildBlockGraph, BuildBlockDefUse, NumberInstruction,
     NumberInstructionReturns, AnalysisConverged, ScanInstruction, LeaveBlock
<1> QED
  BY <1>2, <1>3, <1>4

LEMMA InitSound == Init => LivenessInv
<1> SUFFICES ASSUME Init PROVE LivenessInv
  OBVIOUS
<1>1. FlowInv
  BY InitFlow
<1> QED
  BY <1>1 DEF Init, LivenessInv, NothingDeadIn

(* A fixed point below what is live is what is live.                       *)
LEMMA SolutionIsLiveness ==
  ASSUME LivenessInv, \A b \in Block : Solved(b), pass # "build_block_graph"
  PROVE  \A b \in Block : INs[b] = LiveAtStart[b] /\ OUTs[b] = AtEnd(LiveAtStart, b)
<1>1. CodeOK
  BY DEF LivenessInv, FlowInv, Typed
<1>2. \A b \in Block : \A s \in ToSet(Targets(b)) : s \in Block
  BY <1>1, TargetsProperties, ElementOfSeq DEF ToSet
<1>3. \A b \in Block : OUTs[b] = UNION {INs[s] : s \in ToSet(Targets(b))}
  BY DEF LivenessInv, FlowInv, GraphOK, Solved, Out
<1>4. \A b \in Block : INs[b] = blocks[b].uses \cup (OUTs[b] \ blocks[b].defs)
  BY DEF Solved, Transfer
<1>5. \A b \in Block : \A s \in ToSet(Targets(b)) : INs[s] \ blocks[b].defs \subseteq INs[b]
  BY <1>3, <1>4
<1>6. \A b \in Block : blocks[b].uses \subseteq INs[b]
  BY <1>4
<1>7. \A b \in Block : LiveAtStart[b] \subseteq INs[b]
  BY <1>1, <1>5, <1>6, LiveIsLeast
<1>8. \A b \in Block : INs[b] = LiveAtStart[b]
  BY <1>7 DEF LivenessInv, NothingDeadIn
<1>9. \A b \in Block : OUTs[b] = AtEnd(LiveAtStart, b)
  BY <1>2, <1>3, <1>8 DEF AtEnd
<1> QED
  BY <1>8, <1>9

(* When the worklist is empty the sets of the analysis are liveness: for   *)
(* any block graph, also one with loops and with blocks out of reach, an   *)
(* operand is in IN of a block exactly when some path from its start reads *)
(* it before it writes it.                                                 *)
THEOREM AnalysisComputesLiveness == Spec => []AnalysisIsLiveness
<1>1. Init => LivenessInv
  BY InitSound
<1>2. LivenessInv /\ [Next]_vars => LivenessInv'
  BY NextSound
<1>3. LivenessInv => AnalysisIsLiveness
  <2> SUFFICES ASSUME LivenessInv, Analysed PROVE AnalysisIsLiveness
    BY DEF AnalysisIsLiveness
  <2>1. pass = "allocate_hint" /\ \A b \in Block : Solved(b)
    BY DEF Analysed, LivenessInv, FlowInv, WorklistOK
  <2> QED
    BY <2>1, SolutionIsLiveness DEF AnalysisIsLiveness
<1> QED
  BY <1>1, <1>2, <1>3, PTL DEF Spec

-----------------------------------------------------------------------------
(* The sets of a block are those of its instructions, from the pass on     *)
(* that computes them.                                                     *)
ReadFirst(body, o) ==
  \E k \in 1..Len(body) : o \in Uses(body[k]) /\ \A j \in 1..(k - 1) : o \notin Defs(body[j])

Written(body, o) == \E k \in 1..Len(body) : o \in Defs(body[k])

SetsOK ==
  pass \notin {"build_block_graph", "build_block_def_use"} =>
    \A b \in Block : \A o \in Operands :
      /\ o \in blocks[b].uses <=> ReadFirst(blocks[b].body, o)
      /\ o \in blocks[b].defs <=> Written(blocks[b].body, o)

LEMMA SameSets ==
  ASSUME CodeOK, SameCode, NEW b \in Block, NEW o
  PROVE  /\ ReadFirst(blocks'[b].body, o) <=> ReadFirst(blocks[b].body, o)
         /\ Written(blocks'[b].body, o) <=> Written(blocks[b].body, o)
<1>1. Len(blocks[b].body) \in Nat /\ Len(blocks'[b].body) = Len(blocks[b].body)
  BY BlockFacts DEF SameCode
<1>2. \A k \in 1..Len(blocks[b].body) :
        /\ Defs(blocks'[b].body[k]) = Defs(blocks[b].body[k])
        /\ Uses(blocks'[b].body[k]) = Uses(blocks[b].body[k])
  BY DEF SameCode, Defs, Uses
<1>3. \A k \in 1..Len(blocks[b].body) : \A j \in 1..(k - 1) : j \in 1..Len(blocks[b].body)
  BY <1>1
<1> QED
  BY <1>1, <1>2, <1>3 DEF ReadFirst, Written

LEMMA BuildBlockDefUseSets ==
  ASSUME Typed, BuildBlockDefUse
  PROVE  SetsOK'
<1>1. Block' = Block
  BY BuildBlockDefUseTyped
<1>2. ASSUME NEW b \in Block
      PROVE  /\ blocks'[b].body = blocks[b].body
             /\ blocks'[b].uses =
                  UNION {Uses(blocks[b].body[k]) \ DefinedBefore(blocks[b].body, k)
                           : k \in 1..Len(blocks[b].body)}
             /\ blocks'[b].defs = DefinedBefore(blocks[b].body, Len(blocks[b].body) + 1)
  <2> DEFINE U == UNION {Uses(blocks[b].body[k]) \ DefinedBefore(blocks[b].body, k)
                           : k \in 1..Len(blocks[b].body)}
             D == DefinedBefore(blocks[b].body, Len(blocks[b].body) + 1)
  <2>1. blocks'[b] = [blocks[b] EXCEPT !.uses = U, !.defs = D]
    BY DEF BuildBlockDefUse
  <2>2. blocks[b] \in MachineBlocks(Block)
    BY BlockFacts DEF Typed
  <2> HIDE DEF U, D
  <2>3. blocks'[b].body = blocks[b].body /\ blocks'[b].uses = U /\ blocks'[b].defs = D
    BY <2>1, <2>2 DEF MachineBlocks
  <2> QED
    BY <2>3 DEF U, D
<1>3. ASSUME NEW b \in Block, NEW o
      PROVE  /\ o \in blocks'[b].uses <=> ReadFirst(blocks[b].body, o)
             /\ o \in blocks'[b].defs <=> Written(blocks[b].body, o)
  <2>1. Len(blocks[b].body) \in Nat /\ (Len(blocks[b].body) + 1) - 1 = Len(blocks[b].body)
    BY BlockFacts DEF Typed
  <2>2. o \in blocks'[b].uses <=>
          \E k \in 1..Len(blocks[b].body) :
            o \in Uses(blocks[b].body[k]) /\ o \notin DefinedBefore(blocks[b].body, k)
    BY <1>2
  <2>3. \A k : o \in DefinedBefore(blocks[b].body, k) <=>
                 \E j \in 1..(k - 1) : o \in Defs(blocks[b].body[j])
    BY DEF DefinedBefore
  <2>4. o \in blocks'[b].uses <=> ReadFirst(blocks[b].body, o)
    BY <2>2, <2>3 DEF ReadFirst
  <2>5. o \in blocks'[b].defs <=> Written(blocks[b].body, o)
    BY <1>2, <2>1, <2>3 DEF Written
  <2> QED
    BY <2>4, <2>5
<1> QED
  BY <1>1, <1>2, <1>3 DEF SetsOK, Operands

LEMMA InitSets == Init => SetsOK
BY DEF Init, SetsOK

LEMMA NextSets == Typed /\ SetsOK /\ [Next]_vars => SetsOK'
<1> SUFFICES ASSUME Typed, SetsOK, [Next]_vars PROVE SetsOK'
  OBVIOUS
<1>1. Block' = Block /\ SameCode /\ CodeOK
  BY NextTyped, NextKeepsCode DEF Typed
<1>2. CASE BuildBlockGraph
  BY <1>2 DEF BuildBlockGraph, SetsOK
<1>3. CASE BuildBlockDefUse
  BY <1>3, BuildBlockDefUseSets
<1>4. CASE ~BuildBlockGraph /\ ~BuildBlockDefUse
  <2>1. CASE pass \in {"build_block_graph", "build_block_def_use"}
    <3>1. pass' = pass
      BY <1>4, <2>1 DEF Next, vars, NumberInstruction, NumberInstructionReturns, PendingStep,
         AnalysisConverged, ScanInstruction, LeaveBlock
    <3> QED
      BY <2>1, <3>1 DEF SetsOK
  <2>2. CASE pass \notin {"build_block_graph", "build_block_def_use"}
    <3>1. SameGraph
      BY <2>2, NextKeepsCode
    <3>2. \A b \in Block : \A o \in Operands :
            /\ o \in blocks[b].uses <=> ReadFirst(blocks[b].body, o)
            /\ o \in blocks[b].defs <=> Written(blocks[b].body, o)
      BY <2>2 DEF SetsOK
    <3>3. \A b \in Block : \A o \in Operands :
            /\ o \in blocks'[b].uses <=> ReadFirst(blocks'[b].body, o)
            /\ o \in blocks'[b].defs <=> Written(blocks'[b].body, o)
      BY <1>1, <3>1, <3>2, SameSets DEF SameGraph
    <3> QED
      BY <1>1, <3>3 DEF SetsOK, Operands
  <2> QED
    BY <2>1, <2>2
<1> QED
  BY <1>2, <1>3, <1>4
-----------------------------------------------------------------------------
(***************************************************************************)
(* The live ranges: the numbering of the instructions, the backward scan   *)
(* of the blocks, that two operands which are needed at the same time have *)
(* ranges in conflict, and that what the passes leave is what the register *)
(* allocator takes for granted.                                            *)
(***************************************************************************)
Number(b, k) == blocks[b].body[k].number

(* A block number_instruction has been in has consecutive numbers that     *)
(* lead back to its instructions; the others keep the number -1.           *)
BlockNumbered(b) ==
  \A k \in 1..Len(blocks[b].body) :
    /\ Number(b, k) \in Nat /\ Number(b, k) = Number(b, 1) + k - 1
    /\ Number(b, k) + 1 \in 1..Len(num2instr)
    /\ num2instr[Number(b, k) + 1] = <<b, k>>

BlockUnnumbered(b) == \A k \in 1..Len(blocks[b].body) : Number(b, k) = -1

NumberingOK ==
  \A b \in Block : IF b \in visited THEN BlockNumbered(b) ELSE BlockUnnumbered(b)

LEMMA InitNumbering == Init => NumberingOK
<1> SUFFICES ASSUME Init PROVE NumberingOK
  OBVIOUS
<1>1. IsSelected(blocks) /\ visited = {}
  BY FunctionsAssumption DEF Init
<1>2. CodeOK
  BY InitTyped DEF Typed
<1>3. ASSUME NEW b \in Block PROVE BlockUnnumbered(b)
  BY <1>1, <1>2, BlockFacts DEF BlockUnnumbered, Number, IsSelected, Block
<1> QED
  BY <1>1, <1>3 DEF NumberingOK

(* A pass that keeps the numbers keeps the numbering.                      *)
LEMMA SameNumbering ==
  ASSUME NumberingOK, Block' = Block, UNCHANGED numbering,
         \A b \in Block : blocks'[b].body = blocks[b].body
  PROVE  NumberingOK'
<1>1. \A b \in Block : BlockNumbered(b)' = BlockNumbered(b)
                       /\ BlockUnnumbered(b)' = BlockUnnumbered(b)
  BY DEF BlockNumbered, BlockUnnumbered, Number, numbering
<1> QED
  BY <1>1 DEF NumberingOK, numbering

(* A block seen for the first time gets the next numbers.                  *)
LEMMA NewEntries ==
  ASSUME CodeOK, num2instr \in Seq(Block \X Nat), NEW b \in Block,
         blocks' = Numbered(b),
         num2instr' = num2instr \o [k \in 1..Len(blocks[b].body) |-> <<b, k>>]
  PROVE  LET next == Len(num2instr)
             size == Len(blocks[b].body)
         IN  /\ size \in Nat \ {0} /\ next \in Nat /\ Len(num2instr') = next + size
             /\ \A i \in 1..next : num2instr'[i] = num2instr[i]
             /\ \A k \in 1..size : num2instr'[next + k] = <<b, k>>
             /\ Block' = Block /\ \A c \in Block \ {b} : blocks'[c] = blocks[c]
             /\ Len(blocks'[b].body) = size
             /\ \A k \in 1..size : Number(b, k)' = next + k - 1
<1> DEFINE next == Len(num2instr)
           size == Len(blocks[b].body)
           entries == [k \in 1..size |-> <<b, k>>]
<1>1. size \in Nat \ {0} /\ next \in Nat /\ Block \subseteq Nat
  BY BlockFacts, LenProperties
<1>2. entries \in Seq(Block \X Nat) /\ Len(entries) = size
  <2>1. entries \in [1..size -> Block \X Nat]
    BY <1>1
  <2> HIDE DEF entries, size
  <2> QED
    BY <1>1, <2>1, FunctionIsSeq
<1>3. /\ Len(num2instr') = next + size
      /\ \A i \in 1..next : num2instr'[i] = num2instr[i]
      /\ \A k \in 1..size : num2instr'[next + k] = <<b, k>>
  <2>1. num2instr' = num2instr \o entries /\ \A k \in 1..size : entries[k] = <<b, k>>
    OBVIOUS
  <2> HIDE DEF entries
  <2>2. /\ Len(num2instr \o entries) = next + Len(entries)
        /\ \A i \in 1..(next + Len(entries)) :
             (num2instr \o entries)[i] =
               IF i <= next THEN num2instr[i] ELSE entries[i - next]
    BY <1>2, ConcatProperties
  <2> HIDE DEF next, size
  <2>3. ASSUME NEW k \in 1..size
        PROVE  num2instr'[next + k] = <<b, k>>
    <3>1. /\ next + k \in 1..(next + size) /\ ~(next + k <= next)
          /\ (next + k) - next = k
      BY <1>1
    <3>2. (num2instr \o entries)[next + k] = entries[k]
      BY <1>2, <2>2, <3>1
    <3> QED
      BY <2>1, <3>2
  <2>4. ASSUME NEW i \in 1..next
        PROVE  num2instr'[i] = num2instr[i]
    <3>1. i \in 1..(next + size) /\ i <= next
      BY <1>1
    <3> QED
      BY <1>2, <2>1, <2>2, <3>1
  <2>5. Len(num2instr') = next + size
    BY <1>2, <2>1, <2>2
  <2> QED
    BY <2>3, <2>4, <2>5
<1>4. /\ Block' = Block
      /\ \A c \in Block \ {b} : blocks'[c] = blocks[c]
      /\ Len(blocks'[b].body) = size
      /\ \A k \in 1..size : blocks'[b].body[k] =
                              [blocks[b].body[k] EXCEPT !.number = next + k - 1]
  BY NumberedBlocks
<1>5. ASSUME NEW k \in 1..size PROVE Number(b, k)' = next + k - 1
  <2>1. blocks[b].body[k] \in MachineInstrs(Block)
    BY InstrFacts
  <2> QED
    BY <1>4, <2>1 DEF Number, MachineInstrs
<1> QED
  BY <1>1, <1>3, <1>4, <1>5

LEMMA NewNumbers ==
  ASSUME CodeOK, num2instr \in Seq(Block \X Nat), NumberingOK,
         NEW b \in Block, b \notin visited,
         blocks' = Numbered(b), visited' = visited \cup {b},
         num2instr' = num2instr \o [k \in 1..Len(blocks[b].body) |-> <<b, k>>]
  PROVE  NumberingOK'
<1> DEFINE next == Len(num2instr)
           size == Len(blocks[b].body)
<1>1. /\ size \in Nat \ {0} /\ next \in Nat /\ Len(num2instr') = next + size
      /\ \A i \in 1..next : num2instr'[i] = num2instr[i]
      /\ \A k \in 1..size : num2instr'[next + k] = <<b, k>>
      /\ Block' = Block /\ \A c \in Block \ {b} : blocks'[c] = blocks[c]
      /\ Len(blocks'[b].body) = size
      /\ \A k \in 1..size : Number(b, k)' = next + k - 1
  BY NewEntries
<1>2. /\ Len(num2instr') = next + size
      /\ \A i \in 1..next : num2instr'[i] = num2instr[i]
      /\ \A k \in 1..size : num2instr'[next + k] = <<b, k>>
  BY <1>1
<1>3. /\ Block' = Block /\ \A c \in Block \ {b} : blocks'[c] = blocks[c]
      /\ Len(blocks'[b].body) = size
  BY <1>1
<1>4. ASSUME NEW k \in 1..size PROVE Number(b, k)' = next + k - 1
  BY <1>1
<1> HIDE DEF next, size
<1>5. BlockNumbered(b)'
  <2>1. 1 \in 1..size
    BY <1>1
  <2>2. ASSUME NEW k \in 1..size
        PROVE  /\ Number(b, k)' \in Nat /\ Number(b, k)' = Number(b, 1)' + k - 1
               /\ Number(b, k)' + 1 \in 1..Len(num2instr')
               /\ num2instr'[Number(b, k)' + 1] = <<b, k>>
    <3>1. Number(b, k)' = next + k - 1 /\ Number(b, 1)' = next + 1 - 1
      BY <1>4, <2>1
    <3>2. Number(b, k)' + 1 = next + k
      BY <1>1, <3>1
    <3>3. num2instr'[Number(b, k)' + 1] = <<b, k>>
      BY <1>2, <3>2
    <3>4. next + k \in 1..(next + size) /\ next + k - 1 \in Nat
      BY <1>1
    <3>5. Number(b, k)' \in Nat /\ Number(b, k)' + 1 \in 1..Len(num2instr')
      BY <1>2, <3>1, <3>2, <3>4
    <3>6. Number(b, k)' = Number(b, 1)' + k - 1
      BY <1>1, <3>1
    <3> QED
      BY <3>3, <3>5, <3>6
  <2> QED
    BY <1>3, <2>2 DEF BlockNumbered
<1>6. ASSUME NEW c \in Block, c # b
      PROVE  IF c \in visited THEN BlockNumbered(c)' ELSE BlockUnnumbered(c)'
  <2>1. blocks'[c] = blocks[c]
    BY <1>3, <1>6
  <2>2. \A k : Number(c, k)' = Number(c, k)
    BY <2>1 DEF Number
  <2>3. CASE c \in visited
    <3>1. ASSUME NEW k \in 1..Len(blocks[c].body)
          PROVE  /\ Number(c, k) \in Nat /\ Number(c, k) = Number(c, 1) + k - 1
                 /\ Number(c, k) + 1 \in 1..next
                 /\ num2instr[Number(c, k) + 1] = <<c, k>>
      BY <2>3 DEF NumberingOK, BlockNumbered, next
    <3>2. ASSUME NEW k \in 1..Len(blocks[c].body)
          PROVE  /\ Number(c, k) + 1 \in 1..Len(num2instr')
                 /\ num2instr'[Number(c, k) + 1] = <<c, k>>
      <4>1. Number(c, k) + 1 \in 1..next /\ num2instr[Number(c, k) + 1] = <<c, k>>
        BY <3>1
      <4>2. num2instr'[Number(c, k) + 1] = num2instr[Number(c, k) + 1]
        BY <1>2, <4>1
      <4>3. \A n \in 1..next : n \in 1..(next + size)
        BY <1>1
      <4> QED
        BY <1>2, <4>1, <4>2, <4>3
    <3>3. BlockNumbered(c)'
      <4>1. /\ Len(blocks'[c].body) = Len(blocks[c].body)
            /\ \A k \in 1..Len(blocks[c].body) :
                 /\ Number(c, k)' \in Nat /\ Number(c, k)' = Number(c, 1)' + k - 1
                 /\ Number(c, k)' + 1 \in 1..Len(num2instr')
                 /\ num2instr'[Number(c, k)' + 1] = <<c, k>>
        BY <2>1, <2>2, <3>1, <3>2
      <4> QED
        BY <4>1 DEF BlockNumbered
    <3> QED
      BY <2>3, <3>3
  <2>4. CASE c \notin visited
    BY <2>1, <2>2, <2>4 DEF NumberingOK, BlockUnnumbered
  <2> QED
    BY <2>3, <2>4
<1> QED
  BY <1>3, <1>5, <1>6 DEF NumberingOK

LEMMA NumberInstructionNumbers ==
  ASSUME Typed, NumberingOK, NumberInstruction
  PROVE  NumberingOK'
<1> DEFINE b == Head(calls)
<1>1. b \in Block /\ num2instr \in Seq(Block \X Nat) /\ CodeOK
  BY HeadAndTail DEF NumberInstruction, Typed, TypeOK
<1>2. CASE b \in visited
  <2>1. UNCHANGED <<blocks, visited, num2instr>>
    BY <1>2 DEF NumberInstruction
  <2> QED
    BY <2>1 DEF NumberingOK, BlockNumbered, BlockUnnumbered, Number, Block
<1>3. CASE b \notin visited
  <2>1. /\ blocks' = Numbered(b) /\ visited' = visited \cup {b}
        /\ num2instr' = num2instr \o [k \in 1..Len(blocks[b].body) |-> <<b, k>>]
    BY <1>3 DEF NumberInstruction, Numbered
  <2> HIDE DEF b
  <2> QED
    BY <1>1, <1>3, <2>1, NewNumbers
<1> QED
  BY <1>2, <1>3

LEMMA NextNumbering == Typed /\ NumberingOK /\ [Next]_vars => NumberingOK'
<1> SUFFICES ASSUME Typed, NumberingOK, [Next]_vars PROVE NumberingOK'
  OBVIOUS
<1>1. Block' = Block
  BY NextTyped
<1>2. CASE BuildBlockGraph \/ BuildBlockDefUse
  <2>1. \A b \in Block : blocks'[b].body = blocks[b].body
    BY <1>2, BlockFacts DEF BuildBlockGraph, BuildBlockDefUse, Typed, MachineBlocks
  <2>2. UNCHANGED numbering
    BY <1>2 DEF BuildBlockGraph, BuildBlockDefUse
  <2> QED
    BY <1>1, <2>1, <2>2, SameNumbering
<1>3. CASE NumberInstruction
  BY <1>3, NumberInstructionNumbers
<1>4. ASSUME UNCHANGED <<blocks, visited, num2instr>> PROVE NumberingOK'
  BY <1>4 DEF NumberingOK, BlockNumbered, BlockUnnumbered, Number, Block
<1> QED
  BY <1>2, <1>3, <1>4 DEF Next, vars, numbering, NumberInstructionReturns, PendingStep,
     AnalysisConverged, ScanInstruction, LeaveBlock

(* Numbers ascend in a block, and those of two blocks do not mix.          *)
LEMMA NumbersAscend ==
  ASSUME Typed, NumberingOK, NEW b \in Block
  PROVE  /\ FrontNum(b) = Number(b, 1) /\ BackNum(b) = Number(b, Len(blocks[b].body))
         /\ \A j, k \in 1..Len(blocks[b].body) :
              /\ Number(b, j) \in Int
              /\ j <= k => Number(b, j) <= Number(b, k)
              /\ j < k /\ b \in visited => Number(b, j) < Number(b, k)
         /\ \A k \in 1..Len(blocks[b].body) :
              FrontNum(b) <= Number(b, k) /\ Number(b, k) <= BackNum(b)
<1>1. Len(blocks[b].body) \in Nat \ {0}
  BY BlockFacts DEF Typed
<1>2. FrontNum(b) = Number(b, 1) /\ BackNum(b) = Number(b, Len(blocks[b].body))
  BY NumbersAreIntegers DEF Typed, FrontNum, Number
<1> DEFINE size == Len(blocks[b].body)
<1>3. CASE b \in visited
  <2>1. \A k \in 1..size : Number(b, k) \in Nat /\ Number(b, k) = Number(b, 1) + k - 1
    BY <1>3 DEF NumberingOK, BlockNumbered
  <2> HIDE DEF size
  <2>2. 1 \in 1..size /\ size \in 1..size
    BY <1>1 DEF size
  <2>3. Number(b, 1) \in Nat /\ Number(b, size) = Number(b, 1) + size - 1
    BY <2>1, <2>2
  <2>4. \A j, k \in 1..size :
          /\ Number(b, j) \in Int
          /\ j <= k => Number(b, j) <= Number(b, k)
          /\ j < k => Number(b, j) < Number(b, k)
    BY <2>1, <2>3
  <2>5. \A k \in 1..size : Number(b, 1) <= Number(b, k) /\ Number(b, k) <= Number(b, size)
    BY <2>2, <2>4
  <2> QED
    BY <1>2, <2>4, <2>5 DEF size
<1>4. CASE b \notin visited
  <2>1. \A k \in 1..size : Number(b, k) = -1
    BY <1>4 DEF NumberingOK, BlockUnnumbered
  <2> HIDE DEF size
  <2>2. 1 \in 1..size /\ size \in 1..size
    BY <1>1 DEF size
  <2> QED
    BY <1>2, <1>4, <2>1, <2>2 DEF size
<1> QED
  BY <1>3, <1>4

LEMMA BlocksApart ==
  ASSUME Typed, NumberingOK, NEW b \in Block, NEW c \in Block, b # c
  PROVE  BackNum(b) <= FrontNum(c) \/ BackNum(c) <= FrontNum(b)
<1> DEFINE m == Len(blocks[b].body)
           n == Len(blocks[c].body)
<1>1. m \in Nat \ {0} /\ n \in Nat \ {0}
  BY BlockFacts DEF Typed
<1>2. /\ FrontNum(b) = Number(b, 1) /\ BackNum(b) = Number(b, m)
      /\ FrontNum(c) = Number(c, 1) /\ BackNum(c) = Number(c, n)
  BY NumbersAscend
<1>3. /\ b \in visited => BlockNumbered(b)
      /\ b \notin visited => BlockUnnumbered(b)
      /\ c \in visited => BlockNumbered(c)
      /\ c \notin visited => BlockUnnumbered(c)
  BY DEF NumberingOK
<1> HIDE DEF m, n
<1>4. CASE b \notin visited \/ c \notin visited
  <2>1. 1 \in 1..m /\ m \in 1..m /\ 1 \in 1..n /\ n \in 1..n
    BY <1>1
  <2>2. IF b \in visited THEN Number(b, 1) \in Nat /\ Number(b, m) \in Nat
                         ELSE Number(b, 1) = -1 /\ Number(b, m) = -1
    BY <1>3, <2>1 DEF BlockNumbered, BlockUnnumbered, m
  <2>3. IF c \in visited THEN Number(c, 1) \in Nat /\ Number(c, n) \in Nat
                         ELSE Number(c, 1) = -1 /\ Number(c, n) = -1
    BY <1>3, <2>1 DEF BlockNumbered, BlockUnnumbered, n
  <2> QED
    BY <1>2, <1>4, <2>2, <2>3
<1>5. CASE b \in visited /\ c \in visited
  <2>1. SUFFICES ASSUME ~(BackNum(b) <= FrontNum(c)), ~(BackNum(c) <= FrontNum(b))
                 PROVE  FALSE
    OBVIOUS
  <2>2. /\ Number(b, 1) \in Nat /\ Number(b, m) = Number(b, 1) + m - 1
        /\ Number(c, 1) \in Nat /\ Number(c, n) = Number(c, 1) + n - 1
        /\ num2instr[Number(b, 1) + 1] = <<b, 1>> /\ num2instr[Number(c, 1) + 1] = <<c, 1>>
    <3>1. 1 \in 1..m /\ m \in 1..m /\ 1 \in 1..n /\ n \in 1..n
      BY <1>1
    <3>2. /\ Number(b, 1) \in Nat /\ Number(b, m) = Number(b, 1) + m - 1
          /\ num2instr[Number(b, 1) + 1] = <<b, 1>>
      BY <1>3, <1>5, <3>1 DEF BlockNumbered, m
    <3>3. /\ Number(c, 1) \in Nat /\ Number(c, n) = Number(c, 1) + n - 1
          /\ num2instr[Number(c, 1) + 1] = <<c, 1>>
      BY <1>3, <1>5, <3>1 DEF BlockNumbered, n
    <3> QED
      BY <3>2, <3>3
  <2>3. CASE Number(b, 1) <= Number(c, 1)
    <3> DEFINE k == Number(c, 1) - Number(b, 1) + 1
    <3>1. k \in 1..m
      BY <1>1, <1>2, <2>1, <2>2, <2>3
    <3>2. Number(b, k) = Number(b, 1) + k - 1 /\ num2instr[Number(b, k) + 1] = <<b, k>>
      BY <1>3, <1>5, <3>1 DEF BlockNumbered, m
    <3>3. Number(b, k) = Number(c, 1)
      BY <2>2, <3>2
    <3> QED
      BY <2>2, <3>2, <3>3
  <2>4. CASE ~(Number(b, 1) <= Number(c, 1))
    <3> DEFINE k == Number(b, 1) - Number(c, 1) + 1
    <3>1. k \in 1..n
      BY <1>1, <1>2, <2>1, <2>2, <2>4
    <3>2. Number(c, k) = Number(c, 1) + k - 1 /\ num2instr[Number(c, k) + 1] = <<c, k>>
      BY <1>3, <1>5, <3>1 DEF BlockNumbered, n
    <3>3. Number(c, k) = Number(b, 1)
      BY <2>2, <3>2
    <3> QED
      BY <2>2, <3>2, <3>3
  <2> QED
    BY <2>3, <2>4
<1> QED
  BY <1>4, <1>5

-----------------------------------------------------------------------------
(* Where the ranges lie.  Above and Below are the numbers of the           *)
(* instructions around the point after the j-th instruction of a block.    *)
Above(b, j) == Number(b, IF j = 0 THEN 1 ELSE j)
Below(b, j) == Number(b, IF j < Len(blocks[b].body) THEN j + 1 ELSE Len(blocks[b].body))

InBlock(r) ==
  /\ r.block \in Block /\ FrontNum(r.block) <= r.fromNum
  /\ r.fromNum <= r.toNum /\ r.toNum <= BackNum(r.block)

Apart(a, r) == a = r \/ a.toNum <= r.fromNum \/ r.toNum <= a.fromNum

(* Every range lies in its block, and the ranges of one operand do not     *)
(* overlap.                                                                *)
RangesPlaced ==
  \A o \in Operands :
    /\ \A r \in live_ranges[o] : InBlock(r)
    /\ \A a, r \in live_ranges[o] : Apart(a, r)

(* In the block being scanned the ranges that are finished lie below the   *)
(* point reached; one that still grows reaches from the front of the block *)
(* to below that point, and ends before the finished ones of its operand.  *)
FinishedBelow(b, k, r) ==
  /\ r.block <= b
  /\ r.block = b => k < Len(blocks[b].body) /\ Below(b, k) <= r.fromNum

OpenAt(b, k, o, r) ==
  /\ r.block = b /\ r.fromNum = FrontNum(b)
  /\ Below(b, k) <= r.toNum /\ r.toNum <= BackNum(b)
  /\ \A a \in live_ranges[o] : a.block = b => r.toNum <= a.fromNum

BufferPlaced ==
  pass = "live_ranges" =>
    \A o \in Operands :
      /\ \A r \in live_ranges[o] : FinishedBelow(cursor[1], cursor[2], r)
      /\ o \in DOMAIN range_buffer => OpenAt(cursor[1], cursor[2], o, range_buffer[o])

NoneYet ==
  pass \notin {"live_ranges", "allocate_hint"} => \A o \in Operands : live_ranges[o] = {}

PlacedInv == Typed /\ NumberingOK /\ NoneYet /\ RangesPlaced /\ BufferPlaced

(* The numbers around a point of a block.                                  *)
LEMMA PointsAscend ==
  ASSUME Typed, NumberingOK, NEW b \in Block
  PROVE  \A j, k \in 0..Len(blocks[b].body) :
           /\ Above(b, j) \in Int /\ Below(b, j) \in Int
           /\ FrontNum(b) <= Above(b, j) /\ Above(b, j) <= Below(b, j)
           /\ Below(b, j) <= BackNum(b)
           /\ j <= k => Above(b, j) <= Above(b, k) /\ Below(b, j) <= Below(b, k)
           /\ j < k => Below(b, j) <= Above(b, k)
<1> DEFINE size == Len(blocks[b].body)
<1>1. size \in Nat \ {0}
  BY BlockFacts DEF Typed
<1>2. /\ FrontNum(b) = Number(b, 1) /\ BackNum(b) = Number(b, size)
      /\ \A j, k \in 1..size : /\ Number(b, j) \in Int
                               /\ j <= k => Number(b, j) <= Number(b, k)
  BY NumbersAscend
<1>3. \A j : /\ Above(b, j) = Number(b, IF j = 0 THEN 1 ELSE j)
             /\ Below(b, j) = Number(b, IF j < size THEN j + 1 ELSE size)
  BY DEF Above, Below
<1> HIDE DEF size
<1>4. ASSUME NEW j \in 0..size, NEW k \in 0..size
      PROVE  /\ Above(b, j) \in Int /\ Below(b, j) \in Int
             /\ FrontNum(b) <= Above(b, j) /\ Above(b, j) <= Below(b, j)
             /\ Below(b, j) <= BackNum(b)
             /\ j <= k => Above(b, j) <= Above(b, k) /\ Below(b, j) <= Below(b, k)
             /\ j < k => Below(b, j) <= Above(b, k)
  <2> DEFINE up(i) == IF i = 0 THEN 1 ELSE i
             down(i) == IF i < size THEN i + 1 ELSE size
  <2>1. /\ 1 \in 1..size /\ size \in 1..size /\ up(j) \in 1..size /\ up(k) \in 1..size
        /\ down(j) \in 1..size /\ down(k) \in 1..size
        /\ 1 <= up(j) /\ up(j) <= down(j) /\ down(j) <= size
        /\ j <= k => up(j) <= up(k) /\ down(j) <= down(k)
        /\ j < k => down(j) <= up(k)
    BY <1>1
  <2>2. /\ Above(b, j) = Number(b, up(j)) /\ Above(b, k) = Number(b, up(k))
        /\ Below(b, j) = Number(b, down(j)) /\ Below(b, k) = Number(b, down(k))
    BY <1>3
  <2> HIDE DEF up, down
  <2> QED
    BY <1>2, <2>1, <2>2
<1> QED
  BY <1>4 DEF size

(* What scanning the k-th instruction of block b does.                     *)
LEMMA ScanFacts ==
  ASSUME Typed, ScanInstruction, NEW b \in Block, NEW k \in Nat, cursor = <<b, k>>
  PROVE  LET instr == blocks[b].body[k]
         IN  /\ b \in Block /\ k \in 1..Len(blocks[b].body) /\ Len(blocks[b].body) \in Nat \ {0}
             /\ pass = "live_ranges" /\ instr.number = Number(b, k)
             /\ cursor'[1] = b /\ cursor'[2] = k - 1
             /\ UNCHANGED <<pass, blocks, numbering, dataflow>>
             /\ \A o \in Operands :
                  live_ranges'[o] = IF o \in Defs(instr)
                                      THEN live_ranges[o] \cup {ClosedRange(o, instr.number, b)}
                                      ELSE live_ranges[o]
             /\ DOMAIN range_buffer' = (DOMAIN range_buffer \ Defs(instr)) \cup Uses(instr)
             /\ \A o \in DOMAIN range_buffer' :
                  range_buffer'[o] = IF o \in Uses(instr) THEN OpenRange(o, instr, b)
                                                          ELSE range_buffer[o]
<1>1. b \in Block /\ k \in 1..Len(blocks[b].body) /\ Len(blocks[b].body) \in Nat \ {0}
  <2>1. b \in Block /\ k \in Nat /\ k > 0 /\ k <= Len(blocks[b].body)
    BY DEF Typed, TypeOK, CursorOK, ScanInstruction
  <2> QED
    BY <2>1, BlockFacts DEF Typed
<1> QED
  BY <1>1 DEF ScanInstruction, Number

LEMMA SameNumbers ==
  ASSUME UNCHANGED <<blocks, numbering>>
  PROVE  /\ Block' = Block
         /\ \A b, k : /\ Number(b, k)' = Number(b, k)
                      /\ Above(b, k)' = Above(b, k) /\ Below(b, k)' = Below(b, k)
         /\ \A b : FrontNum(b)' = FrontNum(b) /\ BackNum(b)' = BackNum(b)
         /\ \A r : InBlock(r)' = InBlock(r)
         /\ \A b, k, r : FinishedBelow(b, k, r)' = FinishedBelow(b, k, r)
         /\ NumberingOK' = NumberingOK
BY DEF Block, Number, Above, Below, FrontNum, BackNum, InBlock, FinishedBelow, NumberingOK,
   BlockNumbered, BlockUnnumbered, numbering

(* The two kinds of range the scan makes for an operand at the k-th        *)
(* instruction of b, and how they lie to the ranges already finished.      *)
LEMMA ScanPlaces ==
  ASSUME PlacedInv, ScanInstruction, NEW b \in Block, NEW k \in Nat, cursor = <<b, k>>,
         NEW o \in Operands
  PROVE  LET instr  == blocks[b].body[k]
             closed == ClosedRange(o, instr.number, b)
             open   == OpenRange(o, instr, b)
         IN  /\ closed.block = b /\ closed.fromNum = Number(b, k)
             /\ Number(b, k) <= closed.toNum /\ closed.toNum <= BackNum(b)
             /\ closed.toNum \in Int /\ open.toNum \in Int
             /\ \A a \in live_ranges[o] : a.block = b => closed.toNum <= a.fromNum
             /\ open.block = b /\ open.fromNum = FrontNum(b)
             /\ Number(b, k) <= open.toNum /\ open.toNum <= BackNum(b)
             /\ IF o \in DOMAIN range_buffer \ Defs(instr)
                  THEN \A a \in live_ranges[o] : a.block = b => open.toNum <= a.fromNum
                  ELSE open.toNum = Number(b, k)
<1> DEFINE instr  == blocks[b].body[k]
           closed == ClosedRange(o, instr.number, b)
           open   == OpenRange(o, instr, b)
<1>1. /\ b \in Block /\ k \in 1..Len(blocks[b].body) /\ Len(blocks[b].body) \in Nat \ {0}
      /\ pass = "live_ranges" /\ instr.number = Number(b, k)
  <2>1. Typed
    BY DEF PlacedInv
  <2> HIDE DEF instr
  <2> QED
    BY <2>1, ScanFacts DEF instr
<1>2. /\ closed \in LiveRanges /\ open \in LiveRanges /\ closed.fromNum = instr.number
      /\ closed.toNum = IF o \in DOMAIN range_buffer
                          THEN range_buffer[o].toNum ELSE instr.number
      /\ closed.block = IF o \in DOMAIN range_buffer THEN range_buffer[o].block ELSE b
      /\ IF o \in DOMAIN range_buffer \ Defs(instr)
           THEN /\ open.fromNum = range_buffer[o].fromNum
                /\ open.toNum = range_buffer[o].toNum
                /\ open.block = range_buffer[o].block
           ELSE open.fromNum = FrontNum(b) /\ open.toNum = instr.number /\ open.block = b
  BY <1>1, RangesProperties DEF PlacedInv
<1>3. closed.toNum \in Int /\ open.toNum \in Int
  BY <1>2 DEF LiveRanges
<1>4. /\ \A a \in live_ranges[o] : FinishedBelow(b, k, a)
      /\ o \in DOMAIN range_buffer => OpenAt(b, k, o, range_buffer[o])
  BY <1>1 DEF PlacedInv, BufferPlaced
<1>5. /\ Number(b, k) \in Int /\ Below(b, k) \in Int /\ BackNum(b) \in Int
      /\ Number(b, k) <= Below(b, k) /\ Number(b, k) <= BackNum(b)
  <2>1. k \in 0..Len(blocks[b].body) /\ Above(b, k) = Number(b, k)
    BY <1>1 DEF Above
  <2>2. BackNum(b) \in Int
    BY <1>1, NumbersAreIntegers DEF PlacedInv, Typed
  <2> QED
    BY <1>1, <2>1, <2>2, PointsAscend DEF PlacedInv
<1>6. \A a \in live_ranges[o] : a.fromNum \in Int
  BY DEF PlacedInv, Typed, TypeOK, LiveRanges
<1>7. \A a \in live_ranges[o] : a.block = b => Number(b, k) <= a.fromNum
  BY <1>4, <1>5, <1>6 DEF FinishedBelow
<1> HIDE DEF closed, open
<1>8. CASE o \in DOMAIN range_buffer
  <2>1. /\ range_buffer[o].block = b /\ range_buffer[o].fromNum = FrontNum(b)
        /\ Below(b, k) <= range_buffer[o].toNum /\ range_buffer[o].toNum <= BackNum(b)
        /\ \A a \in live_ranges[o] : a.block = b => range_buffer[o].toNum <= a.fromNum
    BY <1>4, <1>8 DEF OpenAt
  <2>2. range_buffer[o].toNum \in Int
    BY <1>8 DEF PlacedInv, Typed, TypeOK, LiveRanges
  <2>3. Number(b, k) <= range_buffer[o].toNum
    BY <1>5, <2>1, <2>2
  <2> QED
    BY <1>1, <1>2, <1>3, <1>5, <1>8, <2>1, <2>3 DEF closed, open
<1>9. CASE o \notin DOMAIN range_buffer
  BY <1>1, <1>2, <1>3, <1>5, <1>7, <1>9 DEF closed, open
<1> QED
  BY <1>8, <1>9

LEMMA ScanInstructionPlaced ==
  ASSUME PlacedInv, ScanInstruction
  PROVE  PlacedInv'
<1>1. PICK b \in Block, k \in Nat : cursor = <<b, k>>
  BY DEF PlacedInv, Typed, TypeOK
<1> DEFINE instr == blocks[b].body[k]
           closed(o) == ClosedRange(o, instr.number, b)
           open(o) == OpenRange(o, instr, b)
<1>2. Typed /\ NumberingOK /\ RangesPlaced /\ BufferPlaced
  BY DEF PlacedInv
<1>3. /\ k \in 1..Len(blocks[b].body) /\ Len(blocks[b].body) \in Nat \ {0}
      /\ pass = "live_ranges" /\ cursor'[1] = b /\ cursor'[2] = k - 1
      /\ UNCHANGED <<pass, blocks, numbering, dataflow>>
      /\ \A o \in Operands :
           live_ranges'[o] = IF o \in Defs(instr)
                               THEN live_ranges[o] \cup {closed(o)} ELSE live_ranges[o]
      /\ DOMAIN range_buffer' = (DOMAIN range_buffer \ Defs(instr)) \cup Uses(instr)
      /\ \A o \in DOMAIN range_buffer' :
           range_buffer'[o] = IF o \in Uses(instr) THEN open(o) ELSE range_buffer[o]
  BY <1>1, <1>2, ScanFacts
<1>4. /\ NumberingOK' /\ Typed'
      /\ \A r : InBlock(r)' = InBlock(r)
      /\ \A j, r : FinishedBelow(b, j, r)' = FinishedBelow(b, j, r)
      /\ \A j : Below(b, j)' = Below(b, j)
      /\ FrontNum(b)' = FrontNum(b) /\ BackNum(b)' = BackNum(b)
  BY <1>2, <1>3, SameNumbers, ScanInstructionTyped
<1>5. /\ k \in 0..Len(blocks[b].body) /\ k - 1 \in 0..Len(blocks[b].body)
      /\ k - 1 < Len(blocks[b].body) /\ (k - 1) + 1 = k
  BY <1>3
<1>6. /\ Below(b, k - 1) = Number(b, k) /\ Number(b, k) \in Int /\ FrontNum(b) \in Int
      /\ FrontNum(b) <= Number(b, k) /\ Number(b, k) <= Below(b, k)
      /\ Number(b, k) <= BackNum(b) /\ Below(b, k) \in Int /\ BackNum(b) \in Int
  <2>1. Below(b, k - 1) = Number(b, k)
    BY <1>5 DEF Below
  <2>2. FrontNum(b) \in Int /\ BackNum(b) \in Int
    BY <1>2, NumbersAreIntegers DEF Typed
  <2>3. Below(b, k - 1) \in Int /\ Below(b, k) \in Int
        /\ Below(b, k - 1) <= Below(b, k)
    BY <1>2, <1>5, PointsAscend
  <2>4. FrontNum(b) <= Number(b, k) /\ Number(b, k) <= BackNum(b)
    BY <1>2, <1>3, NumbersAscend
  <2> QED
    BY <2>1, <2>2, <2>3, <2>4
<1>7. ASSUME NEW o \in Operands
      PROVE  /\ closed(o).block = b /\ closed(o).fromNum = Number(b, k)
             /\ Number(b, k) <= closed(o).toNum /\ closed(o).toNum <= BackNum(b)
             /\ closed(o).toNum \in Int /\ open(o).toNum \in Int
             /\ \A a \in live_ranges[o] : a.block = b => closed(o).toNum <= a.fromNum
             /\ open(o).block = b /\ open(o).fromNum = FrontNum(b)
             /\ Number(b, k) <= open(o).toNum /\ open(o).toNum <= BackNum(b)
             /\ IF o \in DOMAIN range_buffer \ Defs(instr)
                  THEN \A a \in live_ranges[o] : a.block = b => open(o).toNum <= a.fromNum
                  ELSE open(o).toNum = Number(b, k)
  BY <1>1, ScanPlaces
<1> HIDE DEF instr, closed, open
<1>8. ASSUME NEW o \in Operands
      PROVE  /\ \A r \in live_ranges[o] : r \in LiveRanges /\ InBlock(r) /\ FinishedBelow(b, k, r)
             /\ o \in DOMAIN range_buffer =>
                  OpenAt(b, k, o, range_buffer[o]) /\ range_buffer[o] \in LiveRanges
  BY <1>1, <1>2, <1>3 DEF RangesPlaced, BufferPlaced, Typed, TypeOK
<1>9. ASSUME NEW o \in Operands, NEW r \in live_ranges'[o]
      PROVE  InBlock(r) /\ FinishedBelow(b, k - 1, r)
  <2>1. CASE r \in live_ranges[o]
    <3>1. r \in LiveRanges /\ InBlock(r) /\ FinishedBelow(b, k, r)
      BY <1>8, <2>1
    <3> QED
      BY <1>5, <1>6, <3>1 DEF FinishedBelow, LiveRanges
  <2>2. CASE r = closed(o)
    <3>1. InBlock(r)
      BY <1>6, <1>7, <2>2 DEF InBlock
    <3>2. b \in Nat
      BY <1>2, BlockFacts DEF Typed
    <3> QED
      BY <1>5, <1>6, <1>7, <2>2, <3>1, <3>2 DEF FinishedBelow
  <2> QED
    BY <1>3, <2>1, <2>2
\* A range just closed lies apart from the finished ones of its operand.
<1>10. ASSUME NEW o \in Operands, NEW a \in live_ranges[o]
       PROVE  Apart(a, closed(o)) /\ Apart(closed(o), a)
  <2>1. CASE a.block = b
    BY <1>7, <2>1 DEF Apart
  <2>2. CASE a.block # b
    <3> DEFINE c == closed(o)
    <3>1. /\ a.block \in Block /\ FrontNum(a.block) <= a.fromNum
          /\ a.fromNum \in Int /\ a.toNum \in Int /\ a.toNum <= BackNum(a.block)
      BY <1>8 DEF InBlock, LiveRanges
    <3>2. BackNum(a.block) <= FrontNum(b) \/ BackNum(b) <= FrontNum(a.block)
      BY <1>2, <2>2, <3>1, BlocksApart
    <3>3. FrontNum(a.block) \in Int /\ BackNum(a.block) \in Int
      BY <1>2, <3>1, NumbersAreIntegers DEF Typed
    <3>4. /\ FrontNum(b) <= c.fromNum /\ c.toNum <= BackNum(b)
          /\ c.fromNum \in Int /\ c.toNum \in Int
      BY <1>6, <1>7
    <3> HIDE DEF c
    <3>5. Apart(a, c) /\ Apart(c, a)
      BY <1>6, <3>1, <3>2, <3>3, <3>4 DEF Apart
    <3> QED
      BY <3>5 DEF c
  <2> QED
    BY <2>1, <2>2
<1>11. RangesPlaced'
  <2>1. ASSUME NEW o \in Operands, NEW a \in live_ranges'[o], NEW r \in live_ranges'[o]
        PROVE  Apart(a, r)
    <3>1. CASE a \in live_ranges[o] /\ r \in live_ranges[o]
      BY <1>2, <3>1 DEF RangesPlaced
    <3>2. CASE a = r
      BY <3>2 DEF Apart
    <3>3. CASE a \in live_ranges[o] /\ r = closed(o)
      BY <1>10, <3>3
    <3>4. CASE a = closed(o) /\ r \in live_ranges[o]
      BY <1>10, <3>4
    <3>5. /\ a \in live_ranges[o] \/ a = closed(o)
          /\ r \in live_ranges[o] \/ r = closed(o)
      BY <1>3
    <3> QED
      BY <3>1, <3>2, <3>3, <3>4, <3>5
  <2> QED
    BY <1>4, <1>9, <2>1 DEF RangesPlaced, Apart
<1>12. ASSUME NEW o \in Operands, o \in DOMAIN range_buffer'
       PROVE  LET r == range_buffer'[o]
              IN  /\ r.block = b /\ r.fromNum = FrontNum(b)
                  /\ Number(b, k) <= r.toNum /\ r.toNum <= BackNum(b)
                  /\ \A a \in live_ranges'[o] : a.block = b => r.toNum <= a.fromNum
  <2>1. CASE o \in Uses(instr)
    <3>1. range_buffer'[o] = open(o)
      BY <1>3, <1>12, <2>1
    <3>2. ASSUME NEW a \in live_ranges'[o], a.block = b
          PROVE  open(o).toNum <= a.fromNum
      <4>1. CASE o \in Defs(instr) /\ a = closed(o)
        BY <1>6, <1>7, <4>1
      <4>2. CASE a \in live_ranges[o]
        <5>1. a \in LiveRanges /\ FinishedBelow(b, k, a)
          BY <1>8, <4>2
        <5>2. Number(b, k) <= a.fromNum
          BY <1>6, <3>2, <5>1 DEF FinishedBelow, LiveRanges
        <5> QED
          BY <1>7, <3>2, <4>2, <5>2
      <4> QED
        BY <1>3, <4>1, <4>2
    <3> QED
      BY <1>7, <3>1, <3>2
  <2>2. CASE o \notin Uses(instr)
    <3>1. /\ range_buffer'[o] = range_buffer[o] /\ o \in DOMAIN range_buffer
          /\ o \notin Defs(instr) /\ live_ranges'[o] = live_ranges[o]
      BY <1>3, <1>12, <2>2
    <3>2. /\ OpenAt(b, k, o, range_buffer[o]) /\ range_buffer[o] \in LiveRanges
      BY <1>8, <3>1
    <3>3. Number(b, k) <= range_buffer[o].toNum
      BY <1>6, <3>2 DEF OpenAt, LiveRanges
    <3> QED
      BY <3>1, <3>2, <3>3 DEF OpenAt
  <2> QED
    BY <2>1, <2>2
<1>13. BufferPlaced'
  <2>1. ASSUME NEW o \in Operands, o \in DOMAIN range_buffer'
        PROVE  OpenAt(b, k - 1, o, range_buffer[o])'
    BY <1>4, <1>6, <1>12, <2>1 DEF OpenAt
  <2> QED
    BY <1>3, <1>4, <1>9, <2>1 DEF BufferPlaced
<1> QED
  BY <1>3, <1>4, <1>11, <1>13 DEF PlacedInv, NoneYet

(* A block is entered with the ranges of what is live at its end, and no   *)
(* finished range of its own.                                              *)
LEMMA EnterBlockPlaced ==
  ASSUME Typed, NumberingOK, NEW b \in Block, EnterBlock(b),
         UNCHANGED <<blocks, numbering>>,
         live_ranges' \in [Operands -> SUBSET LiveRanges],
         \A o \in Operands : \A r \in live_ranges'[o] : r.block < b
  PROVE  BufferPlaced'
<1> DEFINE size == Len(blocks[b].body)
<1>1. /\ cursor'[1] = b /\ cursor'[2] = size
      /\ DOMAIN range_buffer' = OUTs[b]
      /\ \A o \in OUTs[b] :
           range_buffer'[o] = [fromNum |-> FrontNum(b), toNum |-> BackNum(b),
                               instr_cnt |-> 0, block |-> b, start |-> 0]
  BY EnterBlockTyped DEF Typed
<1>2. size \in Nat \ {0} /\ b \in Nat
  BY BlockFacts DEF Typed
<1>3. Below(b, size) = BackNum(b) /\ BackNum(b) \in Int
  BY <1>2, NumbersAscend, NumbersAreIntegers DEF Below, Typed
<1>4. /\ \A j : Below(b, j)' = Below(b, j)
      /\ FrontNum(b)' = FrontNum(b) /\ BackNum(b)' = BackNum(b) /\ size' = size
  BY SameNumbers
<1> HIDE DEF size
<1>5. ASSUME NEW o \in Operands, NEW r \in live_ranges'[o]
      PROVE  r.block < b /\ r.block \in Nat
  BY DEF LiveRanges
<1>6. ASSUME NEW o \in Operands, NEW r \in live_ranges'[o]
      PROVE  FinishedBelow(b, size, r)'
  BY <1>2, <1>5 DEF FinishedBelow
<1>7. ASSUME NEW o \in Operands, o \in DOMAIN range_buffer'
      PROVE  OpenAt(b, size, o, range_buffer[o])'
  <2>1. \A a \in live_ranges'[o] : a.block # b
    BY <1>2, <1>5
  <2> QED
    BY <1>1, <1>3, <1>4, <1>7, <2>1 DEF OpenAt
<1> QED
  BY <1>1, <1>4, <1>6, <1>7 DEF BufferPlaced

LEMMA AnalysisConvergedPlaced ==
  ASSUME PlacedInv, AnalysisConverged
  PROVE  PlacedInv'
<1>1. Typed /\ NumberingOK /\ Typed' /\ NumberingOK'
  BY AnalysisConvergedTyped, NextNumbering DEF PlacedInv, Next
<1>2. /\ EnterBlock(1) /\ pass' = "live_ranges" /\ pass = "liveness_analysis"
      /\ UNCHANGED <<blocks, numbering, live_ranges>>
  BY DEF AnalysisConverged
<1>3. \A o \in Operands : live_ranges'[o] = {}
  BY <1>2 DEF PlacedInv, NoneYet
<1>4. RangesPlaced'
  BY <1>3 DEF RangesPlaced
<1>5. BufferPlaced'
  <2>1. 1 \in Block
    BY <1>1, BlockFacts DEF Typed
  <2>2. live_ranges' \in [Operands -> SUBSET LiveRanges]
    BY <1>1 DEF Typed, TypeOK
  <2> QED
    BY <1>1, <1>2, <1>3, <2>1, <2>2, EnterBlockPlaced
<1> QED
  BY <1>1, <1>2, <1>4, <1>5 DEF PlacedInv, NoneYet

LEMMA LeaveBlockPlaced ==
  ASSUME PlacedInv, LeaveBlock
  PROVE  PlacedInv'
<1>1. PICK b \in Block, k \in Nat : cursor = <<b, k>>
  BY DEF PlacedInv, Typed, TypeOK
<1>2. Typed /\ NumberingOK /\ RangesPlaced /\ BufferPlaced
  BY DEF PlacedInv
<1>3. /\ pass = "live_ranges" /\ k = 0 /\ UNCHANGED <<blocks, numbering, dataflow>>
      /\ \A o \in Operands :
           live_ranges'[o] = IF o \in DOMAIN range_buffer
                               THEN live_ranges[o] \cup {range_buffer[o]} ELSE live_ranges[o]
      /\ IF b < Len(blocks)
           THEN EnterBlock(b + 1) /\ UNCHANGED pass
           ELSE pass' = "allocate_hint" /\ UNCHANGED <<cursor, range_buffer>>
  BY <1>1 DEF LeaveBlock
<1>4. Typed' /\ NumberingOK' /\ \A r : InBlock(r)' = InBlock(r)
  BY <1>2, <1>3, SameNumbers, LeaveBlockTyped
<1>5. /\ FrontNum(b) \in Int /\ BackNum(b) \in Int /\ b \in Nat
      /\ Below(b, k) \in Int /\ FrontNum(b) <= Below(b, k)
  <2>1. k \in 0..Len(blocks[b].body)
    BY <1>2, <1>3, BlockFacts DEF Typed
  <2>2. FrontNum(b) \in Int /\ BackNum(b) \in Int /\ b \in Nat
    BY <1>2, NumbersAreIntegers, BlockFacts DEF Typed
  <2>3. Above(b, k) \in Int /\ Below(b, k) \in Int
        /\ FrontNum(b) <= Above(b, k) /\ Above(b, k) <= Below(b, k)
    BY <1>2, <2>1, PointsAscend
  <2> QED
    BY <2>2, <2>3
<1>6. ASSUME NEW o \in Operands
      PROVE  \A r \in live_ranges[o] : r \in LiveRanges /\ InBlock(r) /\ FinishedBelow(b, k, r)
  BY <1>1, <1>2, <1>3 DEF RangesPlaced, BufferPlaced, Typed, TypeOK
<1>7. ASSUME NEW o \in Operands, o \in DOMAIN range_buffer
      PROVE  LET r == range_buffer[o]
             IN  /\ r.fromNum \in Int /\ r.toNum \in Int
                 /\ r.block = b /\ r.fromNum = FrontNum(b)
                 /\ r.fromNum <= r.toNum /\ r.toNum <= BackNum(b)
                 /\ \A a \in live_ranges[o] : a.block = b => r.toNum <= a.fromNum
  <2>1. range_buffer[o] \in LiveRanges /\ OpenAt(b, k, o, range_buffer[o])
    BY <1>1, <1>2, <1>3, <1>7 DEF BufferPlaced, Typed, TypeOK
  <2> QED
    BY <1>5, <2>1 DEF OpenAt, LiveRanges
<1>8. ASSUME NEW o \in Operands, NEW r \in live_ranges'[o]
      PROVE  InBlock(r) /\ r.block <= b
  <2>1. CASE r \in live_ranges[o]
    BY <1>6, <2>1 DEF FinishedBelow
  <2>2. CASE o \in DOMAIN range_buffer /\ r = range_buffer[o]
    BY <1>5, <1>7, <2>2 DEF InBlock
  <2> QED
    BY <1>3, <2>1, <2>2
<1>9. ASSUME NEW o \in Operands, o \in DOMAIN range_buffer, NEW a \in live_ranges[o]
      PROVE  Apart(a, range_buffer[o]) /\ Apart(range_buffer[o], a)
  <2>1. CASE a.block = b
    BY <1>7, <1>9, <2>1 DEF Apart
  <2>2. CASE a.block # b
    <3> DEFINE c == range_buffer[o]
    <3>1. /\ a.block \in Block /\ FrontNum(a.block) <= a.fromNum
          /\ a.fromNum \in Int /\ a.toNum \in Int /\ a.toNum <= BackNum(a.block)
      BY <1>6 DEF InBlock, LiveRanges
    <3>2. BackNum(a.block) <= FrontNum(b) \/ BackNum(b) <= FrontNum(a.block)
      BY <1>2, <2>2, <3>1, BlocksApart
    <3>3. FrontNum(a.block) \in Int /\ BackNum(a.block) \in Int
      BY <1>2, <3>1, NumbersAreIntegers DEF Typed
    <3>4. /\ FrontNum(b) = c.fromNum /\ c.toNum <= BackNum(b)
          /\ c.fromNum \in Int /\ c.toNum \in Int
      BY <1>7, <1>9
    <3> HIDE DEF c
    <3>5. Apart(a, c) /\ Apart(c, a)
      BY <1>5, <3>1, <3>2, <3>3, <3>4 DEF Apart
    <3> QED
      BY <3>5 DEF c
  <2> QED
    BY <2>1, <2>2
<1>10. RangesPlaced'
  <2>1. ASSUME NEW o \in Operands, NEW a \in live_ranges'[o], NEW r \in live_ranges'[o]
        PROVE  Apart(a, r)
    <3>1. CASE a \in live_ranges[o] /\ r \in live_ranges[o]
      BY <1>2, <3>1 DEF RangesPlaced
    <3>2. CASE a = r
      BY <3>2 DEF Apart
    <3>3. CASE a \notin live_ranges[o] \/ r \notin live_ranges[o]
      <4>1. /\ o \in DOMAIN range_buffer
            /\ a \in live_ranges[o] \/ a = range_buffer[o]
            /\ r \in live_ranges[o] \/ r = range_buffer[o]
        BY <1>3, <3>3
      <4> QED
        BY <1>9, <3>1, <3>2, <4>1
    <3> QED
      BY <3>1, <3>3
  <2> QED
    BY <1>4, <1>8, <2>1 DEF RangesPlaced, Apart
<1>11. CASE b < Len(blocks)
  <2>1. b + 1 \in Block /\ EnterBlock(b + 1) /\ pass' = "live_ranges"
    BY <1>2, <1>3, <1>5, <1>11, BlockFacts DEF Typed
  <2>2. ASSUME NEW o \in Operands, NEW r \in live_ranges'[o] PROVE r.block < b + 1
    <3>1. r.block \in Nat /\ r.block <= b
      BY <1>2, <1>8, BlockFacts DEF InBlock, Typed
    <3> QED
      BY <1>5, <3>1
  <2>3. live_ranges' \in [Operands -> SUBSET LiveRanges]
    BY <1>4 DEF Typed, TypeOK
  <2>4. BufferPlaced'
    BY <1>2, <1>3, <2>1, <2>2, <2>3, EnterBlockPlaced
  <2> QED
    BY <1>4, <1>10, <2>1, <2>4 DEF PlacedInv, NoneYet
<1>12. CASE ~(b < Len(blocks))
  BY <1>3, <1>4, <1>10, <1>12 DEF PlacedInv, NoneYet, BufferPlaced
<1> QED
  BY <1>11, <1>12

LEMMA InitPlaced == Init => PlacedInv
<1> SUFFICES ASSUME Init PROVE PlacedInv
  OBVIOUS
<1>1. Typed /\ NumberingOK
  BY InitTyped, InitNumbering
<1> QED
  BY <1>1 DEF Init, PlacedInv, NoneYet, RangesPlaced, BufferPlaced

LEMMA NextPlaced == PlacedInv /\ [Next]_vars => PlacedInv'
<1> SUFFICES ASSUME PlacedInv, [Next]_vars PROVE PlacedInv'
  OBVIOUS
<1>1. Typed' /\ NumberingOK'
  BY NextTyped, NextNumbering DEF PlacedInv
<1>2. ASSUME pass \notin {"live_ranges", "allocate_hint"},
             pass' \notin {"live_ranges", "allocate_hint"}, UNCHANGED live_ranges
      PROVE  PlacedInv'
  BY <1>1, <1>2 DEF PlacedInv, NoneYet, RangesPlaced, BufferPlaced
<1>3. CASE BuildBlockGraph \/ BuildBlockDefUse \/ NumberInstruction
           \/ NumberInstructionReturns \/ PendingStep
  BY <1>2, <1>3 DEF BuildBlockGraph, BuildBlockDefUse, NumberInstruction,
     NumberInstructionReturns, PendingStep, scan
<1>4. CASE UNCHANGED vars
  <2>1. UNCHANGED <<pass, blocks, numbering, cursor, range_buffer, live_ranges>>
    BY <1>4 DEF vars, scan
  <2>2. /\ \A r : InBlock(r)' = InBlock(r)
        /\ \A b, j, r : FinishedBelow(b, j, r)' = FinishedBelow(b, j, r)
        /\ \A b, j : Below(b, j)' = Below(b, j)
        /\ \A b : FrontNum(b)' = FrontNum(b) /\ BackNum(b)' = BackNum(b)
    BY <2>1, SameNumbers
  <2>3. RangesPlaced' /\ NoneYet'
    BY <2>1, <2>2 DEF PlacedInv, RangesPlaced, Apart, NoneYet
  <2>4. BufferPlaced'
    BY <2>1, <2>2 DEF PlacedInv, BufferPlaced, OpenAt
  <2> QED
    BY <1>1, <2>3, <2>4 DEF PlacedInv
<1> QED
  BY <1>3, <1>4, AnalysisConvergedPlaced, ScanInstructionPlaced, LeaveBlockPlaced DEF Next

(* Ranges that do not overlap follow one another in the order they are     *)
(* kept in.                                                                *)
LEMMA ApartInOrder ==
  ASSUME NEW S \in SUBSET LiveRanges, \A r \in S : r.fromNum <= r.toNum,
         \A a, r \in S : Apart(a, r)
  PROVE  InOrder(S)
BY DEF InOrder, IsRange, Apart, Less, LiveRanges

LEMMA PlacedInOrder == PlacedInv => \A o \in Operands : InOrder(live_ranges[o])
<1> SUFFICES ASSUME PlacedInv, NEW o \in Operands PROVE InOrder(live_ranges[o])
  OBVIOUS
<1>1. live_ranges[o] \in SUBSET LiveRanges
  BY DEF PlacedInv, Typed, TypeOK
<1>2. /\ \A r \in live_ranges[o] : r.fromNum <= r.toNum
      /\ \A a, r \in live_ranges[o] : Apart(a, r)
  BY DEF PlacedInv, RangesPlaced, InBlock
<1> QED
  BY <1>1, <1>2, ApartInOrder

(* The live ranges of every operand follow one another, the assumption on  *)
(* which try_allocate looks only at part of a register's ranges.           *)
THEOREM RangesInOrder == Spec => []OwnRangesInOrder
<1>1. Init => PlacedInv
  BY InitPlaced
<1>2. PlacedInv /\ [Next]_vars => PlacedInv'
  BY NextPlaced
<1>3. PlacedInv => OwnRangesInOrder
  BY PlacedInOrder DEF OwnRangesInOrder
<1> QED
  BY <1>1, <1>2, <1>3, PTL DEF Spec

-----------------------------------------------------------------------------
(* What is needed after an instruction, from the end of a block upwards.   *)
LEMMA LiveAfterIs ==
  ASSUME NEW body, NEW k, NEW atEnd, NEW o
  PROVE  o \in LiveAfter(body, k, atEnd) <=>
           \/ /\ o \in atEnd
              /\ \A i \in (k + 1)..((Len(body) + 1) - 1) : o \notin Defs(body[i])
           \/ \E j \in (k + 1)..Len(body) :
                o \in Uses(body[j]) /\ \A i \in (k + 1)..(j - 1) : o \notin Defs(body[i])
BY DEF LiveAfter

LEMMA LiveAfterLast ==
  ASSUME NEW body, Len(body) \in Nat, NEW atEnd
  PROVE  LiveAfter(body, Len(body), atEnd) = atEnd
<1>1. /\ \A i : i \notin (Len(body) + 1)..Len(body)
      /\ \A i : i \notin (Len(body) + 1)..((Len(body) + 1) - 1)
  OBVIOUS
<1>2. \A o : o \in LiveAfter(body, Len(body), atEnd) <=> o \in atEnd
  BY <1>1, LiveAfterIs
<1> QED
  BY <1>2

LEMMA LiveBefore ==
  ASSUME NEW body, Len(body) \in Nat, NEW atEnd, NEW k \in 1..Len(body)
  PROVE  LiveAfter(body, k - 1, atEnd)
           = (LiveAfter(body, k, atEnd) \ Defs(body[k])) \cup Uses(body[k])
<1> DEFINE Kept(o, j, n) == \A i \in j..(n - 1) : o \notin Defs(body[i])
<1>1. /\ (k - 1) + 1 = k /\ k \in Nat
      /\ \A j : j \in k..Len(body) <=> j = k \/ j \in (k + 1)..Len(body)
  OBVIOUS
<1>2. ASSUME NEW o
      PROVE  /\ Kept(o, k, k)
             /\ \A n \in (k + 1)..(Len(body) + 1) :
                  Kept(o, k, n) <=> o \notin Defs(body[k]) /\ Kept(o, k + 1, n)
  <2>1. \A i : i \notin k..(k - 1)
    BY <1>1
  <2>2. ASSUME NEW n \in (k + 1)..(Len(body) + 1)
        PROVE  \A i : i \in k..(n - 1) <=> i = k \/ i \in (k + 1)..(n - 1)
    BY <1>1
  <2> QED
    BY <2>1, <2>2
<1>3. Len(body) + 1 \in (k + 1)..(Len(body) + 1)
      /\ \A j \in (k + 1)..Len(body) : j \in (k + 1)..(Len(body) + 1)
  BY <1>1
<1>4. ASSUME NEW o
      PROVE  o \in LiveAfter(body, k - 1, atEnd) <=>
               \/ o \in atEnd /\ Kept(o, k, Len(body) + 1)
               \/ \E j \in k..Len(body) : o \in Uses(body[j]) /\ Kept(o, k, j)
  BY <1>1, LiveAfterIs
<1>5. ASSUME NEW o
      PROVE  o \in LiveAfter(body, k, atEnd) <=>
               \/ o \in atEnd /\ Kept(o, k + 1, Len(body) + 1)
               \/ \E j \in (k + 1)..Len(body) : o \in Uses(body[j]) /\ Kept(o, k + 1, j)
  BY <1>1, LiveAfterIs
<1> HIDE DEF Kept
<1>6. ASSUME NEW o
      PROVE  o \in LiveAfter(body, k - 1, atEnd) <=>
               o \in (LiveAfter(body, k, atEnd) \ Defs(body[k])) \cup Uses(body[k])
  BY <1>1, <1>2, <1>3, <1>4, <1>5
<1> QED
  BY <1>6

LEMMA LiveAfterTyped ==
  ASSUME Typed, NEW b \in Block, NEW j \in 0..Len(blocks[b].body)
  PROVE  LiveAfter(blocks[b].body, j, OUTs[b]) \subseteq Operands
<1>1. OUTs[b] \subseteq Operands
  BY DEF Typed, TypeOK
<1>2. \A i \in 1..Len(blocks[b].body) : Uses(blocks[b].body[i]) \subseteq Operands
  BY InstrFacts DEF Typed
<1>3. Len(blocks[b].body) \in Nat
  BY BlockFacts DEF Typed
<1>4. \A i \in (j + 1)..Len(blocks[b].body) : i \in 1..Len(blocks[b].body)
  BY <1>3
<1> QED
  BY <1>1, <1>2, <1>4, LiveAfterIs

-----------------------------------------------------------------------------
(* What the ranges cover.  Point j of a block is the one after its j-th    *)
(* instruction; R has the ranges of each operand.                          *)
Covers(r, b, j) == r.block = b /\ r.fromNum <= Above(b, j) /\ Below(b, j) <= r.toNum

PointsCovered(b, k, R) ==
  \A j \in k..Len(blocks[b].body) : \A o \in LiveAfter(blocks[b].body, j, OUTs[b]) :
    \E r \in R[o] : Covers(r, b, j)

DefsCovered(b, k, R) ==
  \A j \in (k + 1)..Len(blocks[b].body) : \A o \in Defs(blocks[b].body[j]) :
    \E r \in R[o] : r.block = b /\ r.fromNum = Number(b, j)

BlockCovered(b, R) == PointsCovered(b, 0, R) /\ DefsCovered(b, 0, R)

(* The ranges with those that still grow.                                  *)
Known ==
  [o \in Operands |->
     live_ranges[o] \cup IF o \in DOMAIN range_buffer THEN {range_buffer[o]} ELSE {}]

(* The blocks before the cursor are done.  In its own block the points     *)
(* from the one reached on are covered, and range_buffer has just what is  *)
(* live there.                                                             *)
CoverInv ==
  /\ pass = "live_ranges" =>
       /\ \A b \in Block : b < cursor[1] => BlockCovered(b, live_ranges)
       /\ PointsCovered(cursor[1], cursor[2], Known)
       /\ DefsCovered(cursor[1], cursor[2], live_ranges)
       /\ DOMAIN range_buffer =
            LiveAfter(blocks[cursor[1]].body, cursor[2], OUTs[cursor[1]])
  /\ pass = "allocate_hint" => \A b \in Block : BlockCovered(b, live_ranges)

LEMMA SameCovers ==
  ASSUME UNCHANGED <<blocks, numbering>>
  PROVE  /\ \A r, b, j : Covers(r, b, j)' = Covers(r, b, j)
         /\ \A b, j : Number(b, j)' = Number(b, j)
BY SameNumbers DEF Covers

(* Nothing is uncovered as ranges are added.                               *)
LEMMA BlockStaysCovered ==
  ASSUME UNCHANGED <<blocks, numbering, dataflow>>, NEW b \in Block, Typed,
         BlockCovered(b, live_ranges),
         \A o \in Operands : live_ranges[o] \subseteq live_ranges'[o]
  PROVE  BlockCovered(b, live_ranges)'
<1>1. /\ \A r, j : Covers(r, b, j)' = Covers(r, b, j)
      /\ \A j : Number(b, j)' = Number(b, j)
  BY SameCovers
<1>2. \A j \in 0..Len(blocks[b].body) :
        LiveAfter(blocks[b].body, j, OUTs[b]) \subseteq Operands
  BY LiveAfterTyped
<1>3. PointsCovered(b, 0, live_ranges)'
  BY <1>1, <1>2 DEF BlockCovered, PointsCovered, dataflow
<1>4. DefsCovered(b, 0, live_ranges)'
  <2>1. ASSUME NEW j \in (0 + 1)..Len(blocks[b].body)
        PROVE  Defs(blocks[b].body[j]) \subseteq Operands
    BY InstrFacts DEF Typed
  <2> QED
    BY <1>1, <2>1 DEF BlockCovered, DefsCovered
<1> QED
  BY <1>3, <1>4 DEF BlockCovered

(* Entering a block: its last point is covered by what is live at its end. *)
LEMMA EnterBlockCovered ==
  ASSUME Typed, Typed', NumberingOK, NEW b \in Block, EnterBlock(b),
         UNCHANGED <<blocks, numbering, dataflow>>,
         \A c \in Block : c < b => BlockCovered(c, live_ranges)',
         pass' = "live_ranges"
  PROVE  CoverInv'
<1> DEFINE size == Len(blocks[b].body)
<1>1. /\ cursor'[1] = b /\ cursor'[2] = size
      /\ DOMAIN range_buffer' = OUTs[b]
      /\ \A o \in OUTs[b] :
           range_buffer'[o] = [fromNum |-> FrontNum(b), toNum |-> BackNum(b),
                               instr_cnt |-> 0, block |-> b, start |-> 0]
  BY EnterBlockTyped DEF Typed
<1>2. size \in Nat \ {0} /\ OUTs[b] \subseteq Operands
  BY BlockFacts DEF Typed, TypeOK
<1>3. FrontNum(b) <= Above(b, size) /\ Below(b, size) <= BackNum(b)
  <2>1. size \in 0..size
    BY <1>2
  <2> QED
    BY <2>1, PointsAscend
<1>4. \A r, j : Covers(r, b, j)' = Covers(r, b, j)
  BY SameCovers
<1>5. LiveAfter(blocks[b].body, size, OUTs[b]) = OUTs[b]
  BY <1>2, LiveAfterLast
<1>6. UNCHANGED <<blocks, OUTs>> /\ Block' = Block /\ size' = size
  BY DEF dataflow, Block
<1> HIDE DEF size
<1>7. ASSUME NEW o \in OUTs[b]
      PROVE  \E r \in Known'[o] : Covers(r, b, size)
  <2>1. range_buffer'[o] \in Known'[o]
    BY <1>1, <1>2 DEF Known
  <2>2. Covers(range_buffer'[o], b, size)
    BY <1>1, <1>3 DEF Covers
  <2> QED
    BY <2>1, <2>2
<1>8. PointsCovered(b, size, Known)'
  <2>1. ASSUME NEW j \in size..Len(blocks[b].body),
               NEW o \in LiveAfter(blocks[b].body, j, OUTs[b])
        PROVE  \E r \in Known'[o] : Covers(r, b, j)
    <3>1. j = size
      BY <1>2 DEF size
    <3> QED
      BY <1>5, <1>7, <3>1
  <2> QED
    BY <1>4, <1>6, <2>1 DEF PointsCovered
<1>9. DefsCovered(b, size, live_ranges)'
  <2>1. \A j : j \notin (size + 1)..Len(blocks[b].body)
    BY <1>2 DEF size
  <2> QED
    BY <1>6, <2>1 DEF DefsCovered
<1> QED
  BY <1>1, <1>5, <1>6, <1>8, <1>9 DEF CoverInv

LEMMA LiveRangesGrow ==
  ASSUME Typed, AnalysisConverged \/ ScanInstruction \/ LeaveBlock
  PROVE  \A o \in Operands : live_ranges[o] \subseteq live_ranges'[o]
BY DEF AnalysisConverged, ScanInstruction, LeaveBlock

(* Every range that was known has a successor that covers at least as much *)
(* of the points from the one reached on.                                  *)
LEMMA ScanKeepsRanges ==
  ASSUME PlacedInv, ScanInstruction, NEW b \in Block, NEW k \in Nat, cursor = <<b, k>>,
         NEW o \in Operands, NEW r \in Known[o]
  PROVE  \E s \in Known'[o] :
           /\ s.block = r.block /\ s.toNum = r.toNum
           /\ s.fromNum = r.fromNum \/ s.fromNum = Number(b, k)
<1> DEFINE instr  == blocks[b].body[k]
           closed == ClosedRange(o, instr.number, b)
           open   == OpenRange(o, instr, b)
<1>1. Typed /\ BufferPlaced
  BY DEF PlacedInv
<1>2. /\ k \in 1..Len(blocks[b].body) /\ instr.number = Number(b, k)
      /\ \A p \in Operands :
           live_ranges'[p] = IF p \in Defs(instr)
                               THEN live_ranges[p] \cup {ClosedRange(p, instr.number, b)}
                               ELSE live_ranges[p]
      /\ DOMAIN range_buffer' = (DOMAIN range_buffer \ Defs(instr)) \cup Uses(instr)
      /\ \A p \in DOMAIN range_buffer' :
           range_buffer'[p] = IF p \in Uses(instr) THEN OpenRange(p, instr, b)
                                                   ELSE range_buffer[p]
  BY <1>1, ScanFacts
<1>3. /\ closed.fromNum = instr.number
      /\ closed.toNum = IF o \in DOMAIN range_buffer
                          THEN range_buffer[o].toNum ELSE instr.number
      /\ closed.block = IF o \in DOMAIN range_buffer THEN range_buffer[o].block ELSE b
      /\ IF o \in DOMAIN range_buffer \ Defs(instr)
           THEN /\ open.fromNum = range_buffer[o].fromNum
                /\ open.toNum = range_buffer[o].toNum
                /\ open.block = range_buffer[o].block
           ELSE open.fromNum = FrontNum(b) /\ open.toNum = instr.number /\ open.block = b
  BY <1>1, <1>2, RangesProperties
<1> HIDE DEF instr
<1>4. Known'[o] = live_ranges'[o] \cup
                    IF o \in DOMAIN range_buffer' THEN {range_buffer'[o]} ELSE {}
  BY DEF Known
<1>5. r \in live_ranges[o] \/ (o \in DOMAIN range_buffer /\ r = range_buffer[o])
  BY DEF Known
<1>6. CASE r \in live_ranges[o]
  BY <1>2, <1>4, <1>6
<1>7. CASE o \in DOMAIN range_buffer /\ r = range_buffer[o]
  <2>1. CASE o \in Defs(instr)
    BY <1>2, <1>3, <1>4, <1>7, <2>1
  <2>2. CASE o \notin Defs(instr)
    BY <1>2, <1>3, <1>4, <1>7, <2>2
  <2> QED
    BY <2>1, <2>2
<1> QED
  BY <1>5, <1>6, <1>7

LEMMA ScanInstructionCovered ==
  ASSUME PlacedInv, CoverInv, ScanInstruction
  PROVE  CoverInv'
<1>1. PICK b \in Block, k \in Nat : cursor = <<b, k>>
  BY DEF PlacedInv, Typed, TypeOK
<1> DEFINE instr == blocks[b].body[k]
           size  == Len(blocks[b].body)
<1>2. Typed /\ Typed' /\ NumberingOK /\ PlacedInv'
  BY ScanInstructionPlaced DEF PlacedInv
<1>3. /\ k \in 1..size /\ size \in Nat \ {0} /\ pass = "live_ranges"
      /\ instr.number = Number(b, k) /\ cursor'[1] = b /\ cursor'[2] = k - 1
      /\ UNCHANGED <<pass, blocks, numbering, dataflow>>
      /\ \A o \in Operands :
           live_ranges'[o] = IF o \in Defs(instr)
                               THEN live_ranges[o] \cup {ClosedRange(o, instr.number, b)}
                               ELSE live_ranges[o]
      /\ DOMAIN range_buffer' = (DOMAIN range_buffer \ Defs(instr)) \cup Uses(instr)
  BY <1>1, <1>2, ScanFacts
<1>4. /\ \A r, j : Covers(r, b, j)' = Covers(r, b, j)
      /\ \A j : Number(b, j)' = Number(b, j)
      /\ UNCHANGED <<blocks, OUTs>> /\ Block' = Block
      /\ \A j : Above(b, j)' = Above(b, j) /\ Below(b, j)' = Below(b, j)
      /\ FrontNum(b)' = FrontNum(b)
  BY <1>3, SameCovers, SameNumbers DEF dataflow
<1>5. /\ PointsCovered(b, k, Known) /\ DefsCovered(b, k, live_ranges)
      /\ DOMAIN range_buffer = LiveAfter(blocks[b].body, k, OUTs[b])
      /\ \A c \in Block : c < b => BlockCovered(c, live_ranges)
  BY <1>1, <1>3 DEF CoverInv
<1>6. DOMAIN range_buffer' = LiveAfter(blocks[b].body, k - 1, OUTs[b])
  BY <1>3, <1>5, LiveBefore
<1>7. \A o \in Operands : \A r \in Known[o] :
        \E s \in Known'[o] : /\ s.block = r.block /\ s.toNum = r.toNum
                             /\ s.fromNum = r.fromNum \/ s.fromNum = Number(b, k)
  BY <1>1, ScanKeepsRanges
<1>8. \A j \in 0..size : LiveAfter(blocks[b].body, j, OUTs[b]) \subseteq Operands
  BY <1>2, LiveAfterTyped
<1>9. ASSUME NEW j \in k..size PROVE Number(b, k) <= Above(b, j)
  <2>1. Above(b, k) = Number(b, k) /\ k \in 0..size /\ j \in 0..size /\ k <= j
    BY <1>3 DEF Above
  <2> QED
    BY <1>2, <2>1, PointsAscend
<1> HIDE DEF instr, size
<1>10. ASSUME NEW j \in (k - 1)..size, NEW o \in LiveAfter(blocks[b].body, j, OUTs[b])
       PROVE  \E s \in Known'[o] : Covers(s, b, j)
  <2>1. j \in 0..size /\ o \in Operands
    BY <1>3, <1>8
  <2>2. CASE j \in k..size
    <3>1. PICK r \in Known[o] : Covers(r, b, j)
      BY <1>5, <2>2 DEF PointsCovered, size
    <3>2. PICK s \in Known'[o] :
            /\ s.block = r.block /\ s.toNum = r.toNum
            /\ s.fromNum = r.fromNum \/ s.fromNum = Number(b, k)
      BY <1>7, <2>1
    <3> QED
      BY <1>9, <2>2, <3>1, <3>2 DEF Covers
  <2>3. CASE j = k - 1
    <3>1. o \in DOMAIN range_buffer'
      BY <1>6, <2>3
    <3>2. OpenAt(cursor[1], cursor[2], o, range_buffer[o])'
      BY <1>2, <1>3, <2>1, <3>1 DEF PlacedInv, BufferPlaced
    <3>3. /\ range_buffer'[o].block = b /\ range_buffer'[o].fromNum = FrontNum(b)
          /\ Below(b, k - 1) <= range_buffer'[o].toNum
      BY <1>3, <1>4, <3>2 DEF OpenAt
    <3>4. FrontNum(b) <= Above(b, j)
      BY <1>2, <2>1, PointsAscend DEF size
    <3>5. Covers(range_buffer'[o], b, j)
      BY <2>3, <3>3, <3>4 DEF Covers
    <3>6. range_buffer'[o] \in Known'[o]
      BY <2>1, <3>1 DEF Known
    <3> QED
      BY <3>5, <3>6
  <2>4. j = k - 1 \/ j \in k..size
    BY <1>3
  <2> QED
    BY <2>2, <2>3, <2>4
<1>11. PointsCovered(b, k - 1, Known)'
  BY <1>4, <1>10 DEF PointsCovered, size
<1>12. ASSUME NEW j \in ((k - 1) + 1)..size, NEW o \in Defs(blocks[b].body[j])
       PROVE  \E r \in live_ranges'[o] : r.block = b /\ r.fromNum = Number(b, j)
  <2>1. o \in Operands
    <3>1. j \in 1..Len(blocks[b].body)
      BY <1>3 DEF size
    <3> QED
      BY <1>2, <3>1, InstrFacts DEF Typed
  <2>2. live_ranges[o] \subseteq live_ranges'[o]
    BY <1>3, <2>1
  <2>3. CASE j \in (k + 1)..size
    BY <1>5, <2>2, <2>3 DEF DefsCovered, size
  <2>4. CASE j = k
    <3>1. ClosedRange(o, instr.number, b) \in live_ranges'[o]
      BY <1>3, <2>1, <2>4 DEF instr
    <3>2. /\ ClosedRange(o, instr.number, b).block = b
          /\ ClosedRange(o, instr.number, b).fromNum = Number(b, k)
      BY <1>1, <2>1, ScanPlaces DEF instr
    <3> QED
      BY <2>4, <3>1, <3>2
  <2>5. j = k \/ j \in (k + 1)..size
    BY <1>3
  <2> QED
    BY <2>3, <2>4, <2>5
<1>13. DefsCovered(b, k - 1, live_ranges)'
  BY <1>4, <1>12 DEF DefsCovered, size
<1>14. \A c \in Block : c < b => BlockCovered(c, live_ranges)'
  BY <1>2, <1>3, <1>5, BlockStaysCovered, LiveRangesGrow
<1> QED
  BY <1>3, <1>4, <1>6, <1>11, <1>13, <1>14 DEF CoverInv

LEMMA AnalysisConvergedCovered ==
  ASSUME PlacedInv, AnalysisConverged
  PROVE  CoverInv'
<1>1. Typed /\ Typed' /\ NumberingOK /\ 1 \in Block
  BY AnalysisConvergedTyped, BlockFacts DEF PlacedInv, Typed
<1>2. /\ EnterBlock(1) /\ pass' = "live_ranges"
      /\ UNCHANGED <<blocks, numbering, dataflow>>
  BY DEF AnalysisConverged
<1>3. \A c \in Block : ~(c < 1)
  BY BlockFacts DEF PlacedInv, Typed
<1> QED
  BY <1>1, <1>2, <1>3, EnterBlockCovered

LEMMA LeaveBlockCovered ==
  ASSUME PlacedInv, CoverInv, LeaveBlock
  PROVE  CoverInv'
<1>1. PICK b \in Block, k \in Nat : cursor = <<b, k>>
  BY DEF PlacedInv, Typed, TypeOK
<1>2. Typed /\ Typed' /\ NumberingOK
  BY LeaveBlockTyped DEF PlacedInv
<1>3. /\ pass = "live_ranges" /\ k = 0 /\ UNCHANGED <<blocks, numbering, dataflow>>
      /\ \A o \in Operands :
           live_ranges'[o] = IF o \in DOMAIN range_buffer
                               THEN live_ranges[o] \cup {range_buffer[o]} ELSE live_ranges[o]
      /\ IF b < Len(blocks)
           THEN EnterBlock(b + 1) /\ UNCHANGED pass
           ELSE pass' = "allocate_hint" /\ UNCHANGED <<cursor, range_buffer>>
  BY <1>1 DEF LeaveBlock
<1>4. /\ PointsCovered(b, 0, Known) /\ DefsCovered(b, 0, live_ranges)
      /\ \A c \in Block : c < b => BlockCovered(c, live_ranges)
  BY <1>1, <1>3 DEF CoverInv
<1>5. /\ \A r, j : Covers(r, b, j)' = Covers(r, b, j)
      /\ \A j : Number(b, j)' = Number(b, j)
      /\ UNCHANGED <<blocks, OUTs>> /\ Block' = Block
  BY <1>3, SameCovers, SameNumbers DEF dataflow
<1>6. \A o \in Operands : live_ranges[o] \subseteq live_ranges'[o] /\ Known[o] = live_ranges'[o]
  BY <1>3 DEF Known
<1>7. PointsCovered(b, 0, live_ranges)'
  <2>1. ASSUME NEW j \in 0..Len(blocks[b].body),
               NEW o \in LiveAfter(blocks[b].body, j, OUTs[b])
        PROVE  \E r \in live_ranges'[o] : Covers(r, b, j)
    <3>1. o \in Operands
      BY <1>2, LiveAfterTyped
    <3> QED
      BY <1>4, <1>6, <3>1 DEF PointsCovered
  <2> QED
    BY <1>5, <2>1 DEF PointsCovered
<1>8. DefsCovered(b, 0, live_ranges)'
  <2>1. ASSUME NEW j \in (0 + 1)..Len(blocks[b].body), NEW o \in Defs(blocks[b].body[j])
        PROVE  \E r \in live_ranges'[o] : r.block = b /\ r.fromNum = Number(b, j)
    <3>1. o \in Operands
      BY <1>2, InstrFacts DEF Typed
    <3> QED
      BY <1>4, <1>6, <3>1 DEF DefsCovered
  <2> QED
    BY <1>5, <2>1 DEF DefsCovered
<1>9. \A c \in Block : c < b => BlockCovered(c, live_ranges)'
  BY <1>2, <1>3, <1>4, <1>6, BlockStaysCovered
<1>10. \A c \in Block : c < b + 1 => BlockCovered(c, live_ranges)'
  <2>1. \A c \in Block : c < b + 1 => c < b \/ c = b
    BY <1>2, BlockFacts DEF Typed
  <2> QED
    BY <1>7, <1>8, <1>9, <2>1 DEF BlockCovered
<1>11. CASE b < Len(blocks)
  <2>1. b + 1 \in Block /\ EnterBlock(b + 1) /\ pass' = "live_ranges"
    BY <1>2, <1>3, <1>11, BlockFacts DEF Typed
  <2> QED
    BY <1>2, <1>3, <1>10, <2>1, EnterBlockCovered
<1>12. CASE ~(b < Len(blocks))
  <2>1. \A c \in Block : c < b + 1
    BY <1>2, <1>12, BlockFacts DEF Typed
  <2> QED
    BY <1>3, <1>5, <1>10, <1>12, <2>1 DEF CoverInv
<1> QED
  BY <1>11, <1>12

LEMMA NextCovered == PlacedInv /\ CoverInv /\ [Next]_vars => CoverInv'
<1> SUFFICES ASSUME PlacedInv, CoverInv, [Next]_vars PROVE CoverInv'
  OBVIOUS
<1>1. CASE BuildBlockGraph \/ BuildBlockDefUse \/ NumberInstruction
           \/ NumberInstructionReturns \/ PendingStep
  BY <1>1 DEF CoverInv, BuildBlockGraph, BuildBlockDefUse, NumberInstruction,
     NumberInstructionReturns, PendingStep
<1>2. CASE UNCHANGED vars
  <2>1. UNCHANGED <<pass, blocks, numbering, dataflow, OUTs, cursor, range_buffer, live_ranges>>
    BY <1>2 DEF vars, dataflow, scan
  <2>2. /\ \A r, b, j : Covers(r, b, j)' = Covers(r, b, j)
        /\ \A b, j : Number(b, j)' = Number(b, j)
        /\ Block' = Block /\ Known' = Known
    BY <2>1, SameCovers DEF Block, Known
  <2> QED
    BY <2>1, <2>2 DEF CoverInv, BlockCovered, PointsCovered, DefsCovered
<1> QED
  BY <1>1, <1>2, AnalysisConvergedCovered, ScanInstructionCovered, LeaveBlockCovered DEF Next

(* Everything known of the analysis.                                       *)
AnalysisInv == LivenessInv /\ PlacedInv /\ CoverInv

LEMMA InitAnalysis == Init => AnalysisInv
BY InitSound, InitPlaced DEF AnalysisInv, CoverInv, Init

LEMMA NextAnalysis == AnalysisInv /\ [Next]_vars => AnalysisInv'
BY NextSound, NextPlaced, NextCovered DEF AnalysisInv

(* Every instruction that mentions an operand lies in one of its ranges.   *)
LEMMA MentionsCovered ==
  ASSUME AnalysisInv, Analysed, NEW b \in Block, NEW k \in 1..Len(blocks[b].body),
         NEW o \in Defs(blocks[b].body[k]) \cup Uses(blocks[b].body[k])
  PROVE  \E r \in live_ranges[o] : r.fromNum <= Number(b, k) /\ Number(b, k) <= r.toNum
<1>1. /\ Typed /\ NumberingOK /\ RangesPlaced
      /\ PointsCovered(b, 0, live_ranges) /\ DefsCovered(b, 0, live_ranges)
  BY DEF AnalysisInv, PlacedInv, CoverInv, Analysed, BlockCovered
<1>2. /\ o \in Operands /\ Len(blocks[b].body) \in Nat
      /\ k \in 0..Len(blocks[b].body) /\ k - 1 \in 0..Len(blocks[b].body)
      /\ k \in (0 + 1)..Len(blocks[b].body) /\ k - 1 < k
      /\ k - 1 < Len(blocks[b].body) /\ (k - 1) + 1 = k /\ k # 0
  BY <1>1, InstrFacts, BlockFacts DEF Typed
<1>3. \A r \in live_ranges[o] : r.fromNum \in Int /\ r.toNum \in Int /\ r.fromNum <= r.toNum
  BY <1>1, <1>2 DEF RangesPlaced, InBlock, Typed, TypeOK, LiveRanges
<1>4. CASE o \in Defs(blocks[b].body[k])
  <2>1. PICK r \in live_ranges[o] : r.fromNum = Number(b, k)
    BY <1>1, <1>2, <1>4 DEF DefsCovered
  <2> QED
    BY <1>3, <2>1
<1>5. CASE o \in Uses(blocks[b].body[k])
  <2>1. o \in LiveAfter(blocks[b].body, k - 1, OUTs[b])
    BY <1>2, <1>5, LiveBefore
  <2>2. PICK r \in live_ranges[o] : Covers(r, b, k - 1)
    BY <1>1, <1>2, <2>1 DEF PointsCovered
  <2>3. /\ Below(b, k - 1) = Number(b, k) /\ Above(b, k) = Number(b, k)
        /\ Above(b, k - 1) \in Int /\ Above(b, k) \in Int /\ Above(b, k - 1) <= Above(b, k)
    BY <1>1, <1>2, PointsAscend DEF Above, Below
  <2> QED
    BY <1>3, <2>2, <2>3 DEF Covers
<1> QED
  BY <1>4, <1>5

(* spill and rewrite_operands find every mention of an operand by going    *)
(* through the numbers inside its ranges.                                  *)
THEOREM MentionsInRanges == Spec => []RangesCoverMentions
<1>1. Init => AnalysisInv
  BY InitAnalysis
<1>2. AnalysisInv /\ [Next]_vars => AnalysisInv'
  BY NextAnalysis
<1>3. AnalysisInv => RangesCoverMentions
  <2> SUFFICES ASSUME AnalysisInv, Analysed, NEW b \in visited,
                      NEW k \in DOMAIN blocks[b].body
               PROVE  LET instr == blocks[b].body[k]
                      IN  /\ num2instr[instr.number + 1] = <<b, k>>
                          /\ \A o \in Defs(instr) \cup Uses(instr) :
                               \E r \in live_ranges[o] :
                                 r.fromNum <= instr.number /\ instr.number <= r.toNum
    BY DEF RangesCoverMentions
  <2>1. Typed /\ NumberingOK
    BY DEF AnalysisInv, PlacedInv
  <2>2. b \in Block /\ k \in 1..Len(blocks[b].body)
    BY <2>1, BlockFacts DEF Typed, TypeOK
  <2>3. num2instr[Number(b, k) + 1] = <<b, k>>
    BY <2>1, <2>2 DEF NumberingOK, BlockNumbered
  <2>4. \A o \in Defs(blocks[b].body[k]) \cup Uses(blocks[b].body[k]) :
          \E r \in live_ranges[o] : r.fromNum <= Number(b, k) /\ Number(b, k) <= r.toNum
    BY <2>2, MentionsCovered
  <2> QED
    BY <2>3, <2>4 DEF Number
<1> QED
  BY <1>1, <1>2, <1>3, PTL DEF Spec

(* A range that begins with a definition conflicts with every range that   *)
(* reaches over the point behind it.                                       *)
LEMMA DefinitionConflicts ==
  ASSUME PlacedInv, NEW b \in visited, NEW k \in 1..Len(blocks[b].body),
         NEW a \in LiveRanges, InBlock(a), a.block = b, a.fromNum = Number(b, k),
         NEW r \in LiveRanges, InBlock(r), Covers(r, b, k)
  PROVE  conflict(a, r)
<1>1. Typed /\ NumberingOK /\ b \in Block
  BY DEF PlacedInv, Typed, TypeOK
<1>2. /\ Len(blocks[b].body) \in Nat /\ k \in 0..Len(blocks[b].body) /\ k # 0
      /\ Len(blocks[b].body) \in 1..Len(blocks[b].body)
  BY <1>1, BlockFacts DEF Typed
<1>3. /\ Above(b, k) = Number(b, k) /\ Number(b, k) \in Int
      /\ BackNum(b) = Number(b, Len(blocks[b].body)) /\ BackNum(b) \in Int
  BY <1>1, <1>2, NumbersAscend, NumbersAreIntegers DEF Above, Typed
<1>4. /\ a.fromNum = Number(b, k) /\ a.toNum <= BackNum(b) /\ a.fromNum <= a.toNum
      /\ r.fromNum <= Number(b, k) /\ Below(b, k) <= r.toNum /\ r.toNum <= BackNum(b)
      /\ a.toNum \in Int /\ r.fromNum \in Int /\ r.toNum \in Int
  BY <1>3 DEF InBlock, Covers, LiveRanges
<1>5. CASE k < Len(blocks[b].body)
  <2>1. Below(b, k) = Number(b, k + 1) /\ k + 1 \in 1..Len(blocks[b].body) /\ k < k + 1
    BY <1>2, <1>5 DEF Below
  <2>2. Number(b, k) < Number(b, k + 1) /\ Number(b, k + 1) \in Int
    BY <1>1, <2>1, NumbersAscend
  <2> QED
    BY <1>3, <1>4, <2>1, <2>2 DEF conflict
<1>6. CASE k = Len(blocks[b].body)
  <2>1. Below(b, k) = BackNum(b) /\ Number(b, k) = BackNum(b)
    BY <1>2, <1>3, <1>6 DEF Below
  <2> QED
    BY <1>3, <1>4, <2>1 DEF conflict
<1> QED
  BY <1>2, <1>5, <1>6

(* What is needed after an instruction conflicts with what it writes.      *)
LEMMA LiveConflicts ==
  ASSUME AnalysisInv, Analysed, NEW b \in visited, NEW k \in 1..Len(blocks[b].body),
         NEW x \in Defs(blocks[b].body[k]),
         NEW y \in LiveAfter(blocks[b].body, k, OUTs[b]) \ {x}
  PROVE  AnyConflict(live_ranges[x], live_ranges[y])
<1>1. PlacedInv /\ Typed /\ RangesPlaced
  BY DEF AnalysisInv, PlacedInv
<1>2. b \in Block /\ Len(blocks[b].body) \in Nat
  BY <1>1, BlockFacts DEF Typed, TypeOK
<1>3. k \in 0..Len(blocks[b].body) /\ k \in (0 + 1)..Len(blocks[b].body)
  BY <1>2
<1>4. PointsCovered(b, 0, live_ranges) /\ DefsCovered(b, 0, live_ranges)
  BY <1>2 DEF AnalysisInv, CoverInv, Analysed, BlockCovered
<1>5. PICK r \in live_ranges[y] : Covers(r, b, k)
  BY <1>3, <1>4 DEF PointsCovered
<1>6. PICK a \in live_ranges[x] : a.block = b /\ a.fromNum = Number(b, k)
  BY <1>3, <1>4 DEF DefsCovered
<1>7. x \in Operands /\ y \in Operands
  BY <1>1, <1>2, <1>3, InstrFacts, LiveAfterTyped DEF Typed
<1>8. a \in LiveRanges /\ r \in LiveRanges /\ InBlock(a) /\ InBlock(r)
  BY <1>1, <1>5, <1>6, <1>7 DEF RangesPlaced, Typed, TypeOK
<1>9. conflict(a, r)
  BY <1>1, <1>2, <1>5, <1>6, <1>8, DefinitionConflicts
<1> QED
  BY <1>5, <1>6, <1>9 DEF AnyConflict

(* A register is never given to both: for every function, with the         *)
(* liveness that paths through its graph define.                           *)
THEOREM InterferenceIsFound == Spec => []InterferenceCovered
<1>1. Init => AnalysisInv
  BY InitAnalysis
<1>2. AnalysisInv /\ [Next]_vars => AnalysisInv'
  BY NextAnalysis
<1>3. AnalysisInv => InterferenceCovered
  <2> SUFFICES ASSUME AnalysisInv, Analysed, NEW b \in visited,
                      NEW k \in DOMAIN blocks[b].body,
                      NEW x \in Defs(blocks[b].body[k]),
                      NEW y \in LiveAfter(blocks[b].body, k, AtEnd(LiveAtStart, b)) \ {x}
               PROVE  AnyConflict(live_ranges[x], live_ranges[y])
    BY DEF InterferenceCovered
  <2>1. Typed /\ LivenessInv
    BY DEF AnalysisInv, PlacedInv
  <2>2. b \in Block /\ k \in 1..Len(blocks[b].body)
    BY <2>1, BlockFacts DEF Typed, TypeOK
  <2>3. OUTs[b] = AtEnd(LiveAtStart, b)
    <3>1. pass = "allocate_hint" /\ \A c \in Block : Solved(c)
      BY <2>1 DEF Analysed, LivenessInv, FlowInv, WorklistOK
    <3> QED
      BY <2>1, <2>2, <3>1, SolutionIsLiveness
  <2> QED
    BY <2>2, <2>3, LiveConflicts
<1> QED
  BY <1>1, <1>2, <1>3, PTL DEF Spec

-----------------------------------------------------------------------------
(* Every number leads to an instruction that has it.                       *)
NumbersBack ==
  \A i \in 1..Len(num2instr) :
    \E b \in visited : \E k \in 1..Len(blocks[b].body) :
      num2instr[i] = <<b, k>> /\ Number(b, k) = i - 1

LEMMA NewNumbersBack ==
  ASSUME CodeOK, num2instr \in Seq(Block \X Nat), visited \subseteq Block, NumbersBack,
         NEW b \in Block, b \notin visited,
         blocks' = Numbered(b), visited' = visited \cup {b},
         num2instr' = num2instr \o [k \in 1..Len(blocks[b].body) |-> <<b, k>>]
  PROVE  NumbersBack'
<1> DEFINE next == Len(num2instr)
           size == Len(blocks[b].body)
<1>1. /\ size \in Nat \ {0} /\ next \in Nat /\ Len(num2instr') = next + size
      /\ \A i \in 1..next : num2instr'[i] = num2instr[i]
      /\ \A k \in 1..size : num2instr'[next + k] = <<b, k>>
      /\ \A c \in Block \ {b} : blocks'[c] = blocks[c]
      /\ Len(blocks'[b].body) = size
      /\ \A k \in 1..size : Number(b, k)' = next + k - 1
  BY NewEntries
<1> HIDE DEF next, size
<1>2. ASSUME NEW i \in 1..Len(num2instr')
      PROVE  \E c \in visited' : \E k \in 1..Len(blocks'[c].body) :
               num2instr'[i] = <<c, k>> /\ Number(c, k)' = i - 1
  <2>1. CASE i \in 1..next
    <3>1. PICK c \in visited : \E k \in 1..Len(blocks[c].body) :
            num2instr[i] = <<c, k>> /\ Number(c, k) = i - 1
      BY <2>1 DEF NumbersBack, next
    <3>2. PICK k \in 1..Len(blocks[c].body) :
            num2instr[i] = <<c, k>> /\ Number(c, k) = i - 1
      BY <3>1
    <3>3. blocks'[c] = blocks[c] /\ c \in visited' /\ num2instr'[i] = <<c, k>>
      BY <1>1, <2>1, <3>2
    <3>4. Number(c, k)' = i - 1
      BY <3>2, <3>3 DEF Number
    <3> QED
      BY <3>2, <3>3, <3>4
  <2>2. CASE i \notin 1..next
    <3>1. PICK k \in 1..size : next + k = i
      <4>1. i - next \in 1..size /\ next + (i - next) = i
        BY <1>1, <2>2
      <4> QED
        BY <4>1
    <3>2. num2instr'[i] = <<b, k>> /\ Number(b, k)' = next + k - 1
      BY <1>1, <3>1
    <3>3. Number(b, k)' = i - 1 /\ k \in 1..Len(blocks'[b].body) /\ b \in visited'
      BY <1>1, <3>1, <3>2
    <3> QED
      BY <3>2, <3>3
  <2> QED
    BY <2>1, <2>2
<1> QED
  BY <1>2 DEF NumbersBack

LEMMA NextNumbersBack == Typed /\ NumbersBack /\ [Next]_vars => NumbersBack'
<1> SUFFICES ASSUME Typed, NumbersBack, [Next]_vars PROVE NumbersBack'
  OBVIOUS
<1>1. ASSUME UNCHANGED <<visited, num2instr>>,
             \A b \in Block : blocks'[b].body = blocks[b].body
      PROVE  NumbersBack'
  <2>1. visited \subseteq Block
    BY DEF Typed, TypeOK
  <2> QED
    BY <1>1, <2>1 DEF NumbersBack, Number
<1>2. CASE BuildBlockGraph \/ BuildBlockDefUse
  <2>1. \A b \in Block : blocks'[b].body = blocks[b].body
    BY <1>2, BlockFacts DEF BuildBlockGraph, BuildBlockDefUse, Typed, MachineBlocks
  <2> QED
    BY <1>1, <1>2, <2>1 DEF BuildBlockGraph, BuildBlockDefUse, numbering
<1>3. CASE NumberInstruction
  <2> DEFINE b == Head(calls)
  <2>1. b \in Block /\ num2instr \in Seq(Block \X Nat) /\ CodeOK /\ visited \subseteq Block
    BY <1>3, HeadAndTail DEF NumberInstruction, Typed, TypeOK
  <2>2. CASE b \in visited
    BY <1>1, <1>3, <2>2 DEF NumberInstruction
  <2>3. CASE b \notin visited
    <3>1. /\ blocks' = Numbered(b) /\ visited' = visited \cup {b}
          /\ num2instr' = num2instr \o [k \in 1..Len(blocks[b].body) |-> <<b, k>>]
      BY <1>3, <2>3 DEF NumberInstruction, Numbered
    <3> HIDE DEF b
    <3> QED
      BY <2>1, <2>3, <3>1, NewNumbersBack
  <2> QED
    BY <2>2, <2>3
<1>4. CASE UNCHANGED <<blocks, visited, num2instr>>
  BY <1>1, <1>4
<1> QED
  BY <1>2, <1>3, <1>4 DEF Next, vars, numbering, NumberInstructionReturns, PendingStep,
     AnalysisConverged, ScanInstruction, LeaveBlock

-----------------------------------------------------------------------------
(* Where the ranges of an operand begin.  Those the scan of a block closes *)
(* begin at the definitions of the operand, each at another one; one more  *)
(* may be left at the front of the block.                                  *)
StartsAt(S, b, k, o) ==
  /\ \A r \in S : r.block = b =>
       \E j \in (k + 1)..Len(blocks[b].body) :
         o \in Defs(blocks[b].body[j]) /\ r.fromNum = Number(b, j)
  /\ \A a, r \in S : a.block = b /\ r.block = b /\ a.fromNum = r.fromNum => a = r

StartsAbove(b, o) ==
  \E x : /\ StartsAt(live_ranges[o] \ {x}, b, 0, o)
         /\ x \in live_ranges[o] /\ x.block = b => x.fromNum = FrontNum(b)

StartsInv ==
  pass \in {"live_ranges", "allocate_hint"} =>
    \A o \in Operands :
      /\ IsFiniteSet(live_ranges[o])
      /\ \A b \in visited :
           IF pass = "live_ranges" /\ b = cursor[1]
             THEN StartsAt(live_ranges[o], b, cursor[2], o) ELSE StartsAbove(b, o)

(* No range of a block, no start.                                          *)
LEMMA ScanInstructionStarts ==
  ASSUME PlacedInv, StartsInv, ScanInstruction
  PROVE  StartsInv'
<1>1. PICK b \in Block, k \in Nat : cursor = <<b, k>>
  BY DEF PlacedInv, Typed, TypeOK
<1> DEFINE instr == blocks[b].body[k]
           closed(o) == ClosedRange(o, instr.number, b)
<1>2. Typed /\ NumberingOK
  BY DEF PlacedInv
<1>3. /\ k \in 1..Len(blocks[b].body) /\ Len(blocks[b].body) \in Nat
      /\ pass = "live_ranges" /\ pass' = pass /\ cursor'[1] = b /\ cursor'[2] = k - 1
      /\ UNCHANGED <<blocks, numbering>> /\ (k - 1) + 1 = k
      /\ \A o \in Operands :
           live_ranges'[o] = IF o \in Defs(instr)
                               THEN live_ranges[o] \cup {closed(o)} ELSE live_ranges[o]
  <2>1. /\ k \in 1..Len(blocks[b].body) /\ Len(blocks[b].body) \in Nat \ {0}
        /\ pass = "live_ranges" /\ cursor'[1] = b /\ cursor'[2] = k - 1
        /\ UNCHANGED <<pass, blocks, numbering, dataflow>>
        /\ \A o \in Operands :
             live_ranges'[o] = IF o \in Defs(instr)
                                 THEN live_ranges[o] \cup {closed(o)} ELSE live_ranges[o]
    BY <1>1, <1>2, ScanFacts
  <2>2. pass' = pass /\ UNCHANGED <<blocks, numbering>> /\ (k - 1) + 1 = k
    BY <2>1
  <2> HIDE DEF instr, closed
  <2> QED
    BY <2>1, <2>2
<1>4. \A o \in Operands : closed(o).block = b /\ closed(o).fromNum = Number(b, k)
  BY <1>1, ScanPlaces
<1>5. /\ visited' = visited /\ \A c, j : Number(c, j)' = Number(c, j)
      /\ \A c : FrontNum(c)' = FrontNum(c)
  BY <1>3, SameNumbers DEF numbering
<1> HIDE DEF instr, closed
<1>6. ASSUME NEW o \in Operands PROVE IsFiniteSet(live_ranges'[o])
  <2>1. IsFiniteSet(live_ranges[o])
    BY <1>3 DEF StartsInv
  <2>2. IsFiniteSet(live_ranges[o] \cup {closed(o)})
    BY <2>1, FS_AddElement
  <2> QED
    BY <1>3, <2>1, <2>2
<1>7. ASSUME NEW o \in Operands, b \in visited
      PROVE  StartsAt(live_ranges[o], b, k - 1, o)'
  <2>1. StartsAt(live_ranges[o], b, k, o)
    BY <1>1, <1>3, <1>7 DEF StartsInv
  <2>2. /\ \A r \in live_ranges[o] : r.block = b =>
             \E j \in (k + 1)..Len(blocks[b].body) :
               o \in Defs(blocks[b].body[j]) /\ r.fromNum = Number(b, j)
        /\ \A a, r \in live_ranges[o] : a.block = b /\ r.block = b /\ a.fromNum = r.fromNum => a = r
    BY <2>1 DEF StartsAt
  <2>3. \A j \in (k + 1)..Len(blocks[b].body) :
          j \in k..Len(blocks[b].body) /\ j \in 1..Len(blocks[b].body) /\ k < j
    BY <1>3
  <2>4. \A j \in (k + 1)..Len(blocks[b].body) : Number(b, j) # Number(b, k)
    BY <1>2, <1>3, <1>7, <2>3, NumbersAscend
  <2>5. ASSUME NEW r \in live_ranges'[o], r.block = b
        PROVE  \E j \in k..Len(blocks[b].body) :
                 o \in Defs(blocks[b].body[j]) /\ r.fromNum = Number(b, j)
    <3>1. CASE r \in live_ranges[o]
      BY <2>2, <2>3, <2>5, <3>1
    <3>2. CASE o \in Defs(instr) /\ r = closed(o)
      BY <1>3, <1>4, <3>2 DEF instr
    <3> QED
      BY <1>3, <3>1, <3>2
  <2>6. ASSUME NEW a \in live_ranges'[o], NEW r \in live_ranges'[o],
               a.block = b, r.block = b, a.fromNum = r.fromNum
        PROVE  a = r
    <3>1. \A q \in live_ranges[o] : q.block = b => q.fromNum # closed(o).fromNum
      BY <1>4, <2>2, <2>4
    <3>2. /\ a \in live_ranges[o] \/ a = closed(o)
          /\ r \in live_ranges[o] \/ r = closed(o)
      BY <1>3
    <3>3. CASE a \in live_ranges[o] /\ r \in live_ranges[o]
      BY <2>2, <2>6, <3>3
    <3> QED
      BY <2>6, <3>1, <3>2, <3>3
  <2> QED
    BY <1>3, <1>5, <2>5, <2>6 DEF StartsAt
<1>8. ASSUME NEW o \in Operands, NEW c \in visited, c # b
      PROVE  StartsAbove(c, o)'
  <2>1. PICK x : /\ StartsAt(live_ranges[o] \ {x}, c, 0, o)
                 /\ x \in live_ranges[o] /\ x.block = c => x.fromNum = FrontNum(c)
    BY <1>1, <1>3, <1>8 DEF StartsInv, StartsAbove
  <2>2. \A r : r \in live_ranges'[o] /\ r.block = c => r \in live_ranges[o]
    BY <1>3, <1>4, <1>8
  <2>3. StartsAt(live_ranges[o] \ {x}, c, 0, o)'
    BY <1>3, <1>5, <2>1, <2>2 DEF StartsAt
  <2> QED
    BY <1>5, <2>1, <2>2, <2>3 DEF StartsAbove
<1> QED
  BY <1>3, <1>5, <1>6, <1>7, <1>8 DEF StartsInv

(* What was left in range_buffer begins at the front of the block.         *)
LEMMA LeaveBlockStarts ==
  ASSUME PlacedInv, StartsInv, LeaveBlock
  PROVE  StartsInv'
<1>1. PICK b \in Block, k \in Nat : cursor = <<b, k>>
  BY DEF PlacedInv, Typed, TypeOK
<1>2. /\ pass = "live_ranges" /\ k = 0 /\ UNCHANGED <<blocks, numbering>>
      /\ \A o \in Operands :
           live_ranges'[o] = IF o \in DOMAIN range_buffer
                               THEN live_ranges[o] \cup {range_buffer[o]} ELSE live_ranges[o]
      /\ \/ pass' = "live_ranges" /\ cursor'[1] = b + 1
         \/ pass' = "allocate_hint"
  BY <1>1 DEF LeaveBlock, EnterBlock
<1>3. /\ visited' = visited /\ \A c, j : Number(c, j)' = Number(c, j)
      /\ \A c : FrontNum(c)' = FrontNum(c)
  BY <1>2, SameNumbers DEF numbering
<1>4. ASSUME NEW o \in Operands
      PROVE  /\ \A r \in live_ranges[o] : r.block \in Nat /\ r.block <= b
             /\ o \in DOMAIN range_buffer =>
                  range_buffer[o].block = b /\ range_buffer[o].fromNum = FrontNum(b)
  BY <1>1, <1>2 DEF PlacedInv, BufferPlaced, FinishedBelow, OpenAt, Typed, TypeOK, LiveRanges
<1>5. b \in Nat
  BY BlockFacts DEF PlacedInv, Typed
<1>6. ASSUME NEW o \in Operands PROVE IsFiniteSet(live_ranges'[o])
  <2>1. IsFiniteSet(live_ranges[o])
    BY <1>2 DEF StartsInv
  <2>2. IsFiniteSet(live_ranges[o] \cup {range_buffer[o]})
    BY <2>1, FS_AddElement
  <2> QED
    BY <1>2, <2>1, <2>2
<1>7. ASSUME NEW o \in Operands, b \in visited
      PROVE  StartsAbove(b, o)'
  <2>1. StartsAt(live_ranges[o], b, 0, o)
    BY <1>1, <1>2, <1>7 DEF StartsInv
  <2>2. PICK x : /\ live_ranges'[o] \ {x} \subseteq live_ranges[o]
                 /\ x \in live_ranges'[o] /\ x.block = b => x.fromNum = FrontNum(b)
    <3>1. CASE o \in DOMAIN range_buffer
      BY <1>2, <1>4, <3>1
    <3>2. CASE o \notin DOMAIN range_buffer
      <4> DEFINE x == [block |-> b + 1]
      <4>1. x.block # b
        BY <1>5
      <4> QED
        BY <1>2, <3>2, <4>1
    <3> QED
      BY <3>1, <3>2
  <2>3. StartsAt(live_ranges[o] \ {x}, b, 0, o)'
    BY <1>2, <1>3, <2>1, <2>2 DEF StartsAt
  <2> QED
    BY <1>3, <2>2, <2>3 DEF StartsAbove
<1>8. ASSUME NEW o \in Operands, NEW c \in visited, c # b
      PROVE  StartsAbove(c, o)'
  <2>1. PICK x : /\ StartsAt(live_ranges[o] \ {x}, c, 0, o)
                 /\ x \in live_ranges[o] /\ x.block = c => x.fromNum = FrontNum(c)
    BY <1>1, <1>2, <1>8 DEF StartsInv, StartsAbove
  <2>2. \A r : r \in live_ranges'[o] /\ r.block = c => r \in live_ranges[o]
    BY <1>2, <1>4, <1>8
  <2>3. StartsAt(live_ranges[o] \ {x}, c, 0, o)'
    BY <1>2, <1>3, <2>1, <2>2 DEF StartsAt
  <2> QED
    BY <1>3, <2>1, <2>2, <2>3 DEF StartsAbove
<1>9. ASSUME NEW o \in Operands PROVE StartsAt(live_ranges[o], b + 1, cursor[2], o)'
  <2>1. \A r \in live_ranges'[o] : r.block # b + 1
    <3>1. \A r \in live_ranges[o] : r.block # b + 1
      BY <1>4, <1>5
    <3>2. o \in DOMAIN range_buffer => range_buffer[o].block # b + 1
      BY <1>4, <1>5
    <3> QED
      BY <1>2, <3>1, <3>2
  <2> QED
    BY <2>1 DEF StartsAt
<1>10. b # b + 1
  BY <1>5
<1> QED
  BY <1>2, <1>3, <1>6, <1>7, <1>8, <1>9, <1>10 DEF StartsInv

LEMMA NextStarts == PlacedInv /\ StartsInv /\ [Next]_vars => StartsInv'
<1> SUFFICES ASSUME PlacedInv, StartsInv, [Next]_vars PROVE StartsInv'
  OBVIOUS
<1>1. CASE BuildBlockGraph \/ BuildBlockDefUse \/ NumberInstruction
           \/ NumberInstructionReturns \/ PendingStep
  BY <1>1 DEF BuildBlockGraph, BuildBlockDefUse, NumberInstruction,
     NumberInstructionReturns, PendingStep, StartsInv
<1>2. CASE AnalysisConverged
  <2>1. \A o \in Operands : live_ranges'[o] = {}
    BY <1>2 DEF AnalysisConverged, PlacedInv, NoneYet
  <2> QED
    BY <2>1, FS_EmptySet DEF StartsInv, StartsAbove, StartsAt
<1>3. CASE UNCHANGED vars
  BY <1>3 DEF vars, scan, numbering, StartsInv, StartsAbove, StartsAt, Number, FrontNum
<1> QED
  BY <1>1, <1>2, <1>3, ScanInstructionStarts, LeaveBlockStarts DEF Next

-----------------------------------------------------------------------------
(* The ranges an instruction lies in.                                      *)
LEMMA InItsBlock ==
  ASSUME PlacedInv, NEW b \in visited, NEW k \in 1..Len(blocks[b].body),
         NEW r \in LiveRanges, InBlock(r), r.fromNum <= Number(b, k), Number(b, k) <= r.toNum
  PROVE  r.block = b
<1> DEFINE c == r.block
           m == Len(blocks[c].body)
<1>1. Typed /\ NumberingOK /\ b \in Block /\ c \in Block
  BY DEF PlacedInv, Typed, TypeOK, InBlock
<1> HIDE DEF c
<1>2. m \in Nat \ {0}
  BY <1>1, BlockFacts DEF Typed
<1>3. /\ FrontNum(c) = Number(c, 1) /\ BackNum(c) = Number(c, m)
      /\ Number(c, 1) \in Int /\ Number(c, m) \in Int
  <2>1. /\ FrontNum(c) = Number(c, 1) /\ BackNum(c) = Number(c, m)
        /\ \A j \in 1..m : Number(c, j) \in Int
    BY <1>1, NumbersAscend
  <2>2. 1 \in 1..m /\ m \in 1..m
    BY <1>2
  <2> QED
    BY <2>1, <2>2
<1>4. Number(b, k) \in Nat /\ num2instr[Number(b, k) + 1] = <<b, k>>
  BY <1>1 DEF NumberingOK, BlockNumbered
<1>5. Number(c, 1) <= Number(b, k) /\ Number(b, k) <= Number(c, m)
  BY <1>3, <1>4 DEF InBlock, LiveRanges, c
<1>6. CASE c \notin visited
  <2>1. m \in 1..m
    BY <1>2
  <2>2. Number(c, m) = -1
    BY <1>1, <1>6, <2>1 DEF NumberingOK, BlockUnnumbered
  <2> QED
    BY <1>4, <1>5, <2>2
<1>7. CASE c \in visited
  <2> DEFINE j == Number(b, k) - Number(c, 1) + 1
  <2>1. \A i \in 1..m : /\ Number(c, i) = Number(c, 1) + i - 1
                        /\ num2instr[Number(c, i) + 1] = <<c, i>>
    BY <1>1, <1>7 DEF NumberingOK, BlockNumbered
  <2>2. m \in 1..m
    BY <1>2
  <2>3. Number(c, m) = Number(c, 1) + m - 1
    BY <2>1, <2>2
  <2> HIDE DEF m
  <2>4. j \in 1..m /\ Number(c, 1) + j - 1 = Number(b, k)
    BY <1>2, <1>3, <1>4, <1>5, <2>3
  <2> HIDE DEF j
  <2>5. <<c, j>> = <<b, k>>
    BY <1>4, <2>1, <2>4
  <2> QED
    BY <2>5 DEF c
<1> QED
  BY <1>6, <1>7

(* Two of them meet there; the operand is written where they do.           *)
LEMMA CoveringMeet ==
  ASSUME PlacedInv, NEW o \in Operands, NEW n \in Nat,
         NEW a \in Covering(live_ranges[o], n), NEW r \in Covering(live_ranges[o], n), a # r
  PROVE  \/ a.toNum = n /\ r.fromNum = n
         \/ r.toNum = n /\ a.fromNum = n
<1>1. a \in LiveRanges /\ r \in LiveRanges /\ Apart(a, r)
  BY DEF PlacedInv, RangesPlaced, Covering, Typed, TypeOK
<1> QED
  BY <1>1 DEF Apart, Covering, LiveRanges

LEMMA MeetingIsWrite ==
  ASSUME PlacedInv, NEW o \in Operands, NEW b \in visited, NEW k \in 1..Len(blocks[b].body),
         NEW a \in live_ranges[o], NEW r \in live_ranges[o], a # r,
         a.block = b, r.block = b, a.toNum = Number(b, k), r.fromNum = Number(b, k),
         StartsAbove(b, o)
  PROVE  o \in Defs(blocks[b].body[k])
<1>1. Typed /\ NumberingOK /\ b \in Block
  BY DEF PlacedInv, Typed, TypeOK
<1>2. a \in LiveRanges /\ InBlock(a)
  BY DEF PlacedInv, RangesPlaced, Typed, TypeOK
<1>3. \A j \in 1..Len(blocks[b].body) : Number(b, j) = Number(b, k) => j = k
  <2>1. Len(blocks[b].body) \in Nat
    BY <1>1, BlockFacts DEF Typed
  <2>2. \A j \in 1..Len(blocks[b].body) :
          /\ j < k => Number(b, j) < Number(b, k)
          /\ k < j => Number(b, k) < Number(b, j)
          /\ Number(b, j) \in Int
    BY <1>1, NumbersAscend
  <2> QED
    BY <2>1, <2>2
<1>4. PICK x : /\ StartsAt(live_ranges[o] \ {x}, b, 0, o)
               /\ x \in live_ranges[o] /\ x.block = b => x.fromNum = FrontNum(b)
  BY DEF StartsAbove
<1>5. \A q \in live_ranges[o] : q # x /\ q.block = b =>
        \E j \in 1..Len(blocks[b].body) :
          o \in Defs(blocks[b].body[j]) /\ q.fromNum = Number(b, j)
  BY <1>4 DEF StartsAt
<1>6. CASE r # x
  BY <1>3, <1>5, <1>6
<1>7. CASE r = x
  <2>1. FrontNum(b) = Number(b, k) /\ Number(b, k) \in Int
    BY <1>1, <1>4, <1>7, NumbersAscend
  <2>2. a.fromNum = Number(b, k)
    BY <1>2, <2>1 DEF InBlock, LiveRanges
  <2> QED
    BY <1>3, <1>5, <1>7, <2>2
<1> QED
  BY <1>6, <1>7

(* No three.                                                               *)
LEMMA NoThreeCover ==
  ASSUME PlacedInv, NEW o \in Operands, NEW b \in visited, NEW k \in 1..Len(blocks[b].body),
         StartsAbove(b, o),
         NEW a \in Covering(live_ranges[o], Number(b, k)),
         NEW r \in Covering(live_ranges[o], Number(b, k)),
         NEW s \in Covering(live_ranges[o], Number(b, k))
  PROVE  a = r \/ a = s \/ r = s
<1> DEFINE n == Number(b, k)
<1>1. Typed /\ NumberingOK /\ n \in Nat /\ b \in Block
  BY DEF PlacedInv, NumberingOK, BlockNumbered, Typed, TypeOK
<1>2. ASSUME NEW q \in Covering(live_ranges[o], n)
      PROVE  /\ q.block = b /\ q.fromNum \in Int /\ q \in live_ranges[o]
             /\ FrontNum(b) <= q.fromNum /\ q.fromNum <= n
  <2>1. q \in LiveRanges /\ InBlock(q) /\ q.fromNum <= n /\ n <= q.toNum /\ q \in live_ranges[o]
    BY <1>1 DEF PlacedInv, RangesPlaced, Typed, TypeOK, Covering
  <2>2. q.block = b
    BY <2>1, InItsBlock
  <2> QED
    BY <2>1, <2>2 DEF InBlock, LiveRanges
<1>3. FrontNum(b) \in Int
  BY <1>1, NumbersAreIntegers DEF Typed
<1>4. PICK x : /\ StartsAt(live_ranges[o] \ {x}, b, 0, o)
               /\ x \in live_ranges[o] /\ x.block = b => x.fromNum = FrontNum(b)
  BY DEF StartsAbove
<1> HIDE DEF n
<1>5. ASSUME NEW p \in Covering(live_ranges[o], n), NEW q \in Covering(live_ranges[o], n)
      PROVE  /\ p # x /\ q # x /\ p.fromNum = q.fromNum => p = q
             /\ p # q => p.fromNum = n \/ q.fromNum = n
             /\ p = x /\ p.fromNum = n => q.fromNum = n
  <2>1. p # x /\ q # x /\ p.fromNum = q.fromNum => p = q
    BY <1>2, <1>4 DEF StartsAt
  <2>2. p # q => p.fromNum = n \/ q.fromNum = n
    BY <1>1, CoveringMeet
  <2>3. p = x /\ p.fromNum = n => q.fromNum = n
    <3>1. /\ p.block = b /\ p \in live_ranges[o] /\ FrontNum(b) <= q.fromNum /\ q.fromNum <= n
          /\ q.fromNum \in Int
      BY <1>2
    <3> QED
      BY <1>1, <1>3, <1>4, <3>1
  <2> QED
    BY <2>1, <2>2, <2>3
<1>6. /\ a \in Covering(live_ranges[o], n) /\ r \in Covering(live_ranges[o], n)
      /\ s \in Covering(live_ranges[o], n)
  BY DEF n
<1> QED
  BY <1>5, <1>6

LEMMA UpToOne ==
  ASSUME NEW S, \A a, r \in S : a = r
  PROVE  Cardinality(S) <= 1
<1>1. CASE S = {}
  BY <1>1, FS_EmptySet
<1>2. CASE S # {}
  <2>1. PICK a : S = {a}
    BY <1>2
  <2> QED
    BY <2>1, FS_Singleton
<1> QED
  BY <1>1, <1>2

LEMMA UpToTwo ==
  ASSUME NEW S, \A a, r, s \in S : a = r \/ a = s \/ r = s
  PROVE  Cardinality(S) <= 2
<1>1. CASE S = {}
  BY <1>1, FS_EmptySet
<1>2. CASE S # {}
  <2>1. PICK a \in S : TRUE
    BY <1>2
  <2> DEFINE T == S \ {a}
  <2>2. \A r, s \in T : r = s
    BY <2>1
  <2>3. IsFiniteSet(T) /\ Cardinality(T) <= 1
    <3> HIDE DEF T
    <3>1. CASE T = {}
      BY <3>1, FS_EmptySet
    <3>2. CASE T # {}
      <4>1. PICK r : T = {r}
        BY <2>2, <3>2
      <4>2. IsFiniteSet({r}) /\ Cardinality({r}) = 1
        BY FS_Singleton
      <4> QED
        BY <4>1, <4>2
    <3> QED
      BY <3>1, <3>2
  <2>4. a \notin T /\ S = T \cup {a}
    BY <2>1
  <2> HIDE DEF T
  <2>5. Cardinality(S) = Cardinality(T) + 1 /\ Cardinality(T) \in Nat
    BY <2>3, <2>4, FS_AddElement, FS_CardinalityType
  <2> QED
    BY <2>3, <2>5
<1> QED
  BY <1>1, <1>2

-----------------------------------------------------------------------------
(* A range of an operand lies in a block that has to do with it: the block *)
(* mentions the operand, or jumps to where it is live.                     *)
Concerned(b, o) ==
  \E k \in 1..Len(blocks[b].body) :
    LET instr == blocks[b].body[k]
    IN  instr.label # NoLabel \/ o \in Defs(instr) \cup Uses(instr)

RangesConcern ==
  \A o \in Operands :
    /\ \A r \in live_ranges[o] : Concerned(r.block, o)
    /\ pass = "live_ranges" /\ o \in DOMAIN range_buffer => Concerned(cursor[1], o)

LEMMA LiveOutJumps ==
  ASSUME CodeOK, GraphOK, pass # "build_block_graph", NEW b \in Block, Solved(b),
         NEW o \in OUTs[b]
  PROVE  Concerned(b, o)
<1>1. PICK s \in ToSet(blocks[b].out_blocks) : o \in INs[s]
  BY DEF Solved, Out
<1>2. s \in ToSet(Targets(b))
  BY <1>1 DEF GraphOK
<1> QED
  BY <1>2, TargetsProperties DEF Concerned

LEMMA EnterBlockConcern ==
  ASSUME FlowInv, pass # "build_block_graph", NEW b \in Block, Solved(b), EnterBlock(b),
         UNCHANGED blocks, NEW o \in DOMAIN range_buffer'
  PROVE  Concerned(cursor[1], o)'
<1>1. cursor'[1] = b /\ o \in OUTs[b]
  BY EnterBlockTyped DEF FlowInv, Typed
<1>2. Concerned(b, o)
  BY <1>1, LiveOutJumps DEF FlowInv, Typed
<1> QED
  BY <1>1, <1>2 DEF Concerned

LEMMA ScanInstructionConcern ==
  ASSUME PlacedInv, RangesConcern, ScanInstruction
  PROVE  RangesConcern'
<1>1. PICK b \in Block, k \in Nat : cursor = <<b, k>>
  BY DEF PlacedInv, Typed, TypeOK
<1> DEFINE instr == blocks[b].body[k]
<1>2. /\ k \in 1..Len(blocks[b].body) /\ pass = "live_ranges" /\ cursor'[1] = b
      /\ UNCHANGED <<pass, blocks>>
      /\ \A o \in Operands :
           live_ranges'[o] = IF o \in Defs(instr)
                               THEN live_ranges[o] \cup {ClosedRange(o, instr.number, b)}
                               ELSE live_ranges[o]
      /\ DOMAIN range_buffer' = (DOMAIN range_buffer \ Defs(instr)) \cup Uses(instr)
  BY <1>1, ScanFacts DEF PlacedInv
<1>3. \A c, o : Concerned(c, o)' = Concerned(c, o)
  BY <1>2 DEF Concerned
<1>4. ASSUME NEW o \in Operands, o \in Defs(instr) \cup Uses(instr)
      PROVE  Concerned(b, o)
  BY <1>2, <1>4 DEF Concerned
<1>5. \A o \in Operands : ClosedRange(o, instr.number, b).block = b
  BY <1>1, ScanPlaces
<1> HIDE DEF instr
<1>6. ASSUME NEW o \in Operands, NEW r \in live_ranges'[o]
      PROVE  Concerned(r.block, o)
  BY <1>2, <1>4, <1>5 DEF RangesConcern
<1>7. ASSUME NEW o \in Operands, o \in DOMAIN range_buffer'
      PROVE  Concerned(b, o)
  BY <1>1, <1>2, <1>4, <1>7 DEF RangesConcern
<1> QED
  BY <1>2, <1>3, <1>6, <1>7 DEF RangesConcern

LEMMA LeaveBlockConcern ==
  ASSUME FlowInv, PlacedInv, RangesConcern, LeaveBlock
  PROVE  RangesConcern'
<1>1. PICK b \in Block, k \in Nat : cursor = <<b, k>>
  BY DEF PlacedInv, Typed, TypeOK
<1>2. /\ pass = "live_ranges" /\ k = 0 /\ UNCHANGED <<blocks, numbering, dataflow>>
      /\ \A o \in Operands :
           live_ranges'[o] = IF o \in DOMAIN range_buffer
                               THEN live_ranges[o] \cup {range_buffer[o]} ELSE live_ranges[o]
      /\ IF b < Len(blocks)
           THEN EnterBlock(b + 1) /\ UNCHANGED pass
           ELSE pass' = "allocate_hint" /\ UNCHANGED <<cursor, range_buffer>>
  BY <1>1 DEF LeaveBlock
<1>3. \A c, o : Concerned(c, o)' = Concerned(c, o)
  BY <1>2 DEF Concerned
<1>4. ASSUME NEW o \in Operands, o \in DOMAIN range_buffer
      PROVE  range_buffer[o].block = b /\ Concerned(b, o)
  BY <1>1, <1>2, <1>4 DEF PlacedInv, BufferPlaced, OpenAt, RangesConcern
<1>5. ASSUME NEW o \in Operands, NEW r \in live_ranges'[o]
      PROVE  Concerned(r.block, o)
  BY <1>2, <1>4 DEF RangesConcern
<1>6. ASSUME pass' = "live_ranges", NEW o \in DOMAIN range_buffer'
      PROVE  Concerned(cursor[1], o)'
  <2>1. b < Len(blocks) /\ EnterBlock(b + 1)
    BY <1>2, <1>6
  <2>2. b + 1 \in Block
    BY <2>1, BlockFacts DEF PlacedInv, Typed
  <2>3. Solved(b + 1) /\ pass # "build_block_graph"
    BY <1>2, <2>2 DEF FlowInv, WorklistOK
  <2> QED
    BY <1>2, <2>1, <2>2, <2>3, EnterBlockConcern
<1> QED
  BY <1>3, <1>5, <1>6 DEF RangesConcern

LEMMA NextConcern == FlowInv /\ PlacedInv /\ RangesConcern /\ [Next]_vars => RangesConcern'
<1> SUFFICES ASSUME FlowInv, PlacedInv, RangesConcern, [Next]_vars PROVE RangesConcern'
  OBVIOUS
<1>1. ASSUME pass \notin {"live_ranges", "allocate_hint"},
             pass' \notin {"live_ranges", "allocate_hint"}, UNCHANGED live_ranges
      PROVE  RangesConcern'
  <2>1. \A o \in Operands : live_ranges'[o] = {}
    BY <1>1 DEF PlacedInv, NoneYet
  <2> QED
    BY <1>1, <2>1 DEF RangesConcern
<1>2. CASE BuildBlockGraph \/ BuildBlockDefUse \/ NumberInstruction
           \/ NumberInstructionReturns \/ PendingStep
  BY <1>1, <1>2 DEF BuildBlockGraph, BuildBlockDefUse, NumberInstruction,
     NumberInstructionReturns, PendingStep, scan
<1>3. CASE AnalysisConverged
  <2>1. \A o \in Operands : live_ranges'[o] = {}
    BY <1>3 DEF AnalysisConverged, PlacedInv, NoneYet
  <2>2. /\ 1 \in Block /\ EnterBlock(1) /\ UNCHANGED blocks
        /\ pass = "liveness_analysis" /\ pending_blocks = <<>>
    BY <1>3, BlockFacts DEF AnalysisConverged, PlacedInv, Typed
  <2>3. Solved(1)
    BY <2>2 DEF FlowInv, WorklistOK, PendingCoversChanges, Solved, ToSet
  <2>4. \A o \in DOMAIN range_buffer' : Concerned(cursor[1], o)'
    BY <2>2, <2>3, EnterBlockConcern
  <2> QED
    BY <2>1, <2>4 DEF RangesConcern
<1>4. CASE UNCHANGED vars
  BY <1>4 DEF vars, scan, RangesConcern, Concerned
<1> QED
  BY <1>2, <1>3, <1>4, ScanInstructionConcern, LeaveBlockConcern DEF Next

(* The numbers in a range lead to instructions, or its block is one no     *)
(* jump leads to that has to do with the operand.                          *)
LEMMA RangesNumbered ==
  ASSUME PlacedInv, RangesConcern, NEW o \in Operands, NEW r \in live_ranges[o]
  PROVE  /\ r.block \in Block
         /\ \/ r.block \in visited /\ IsNumbered(num2instr, r)
            \/ r.block \notin visited /\ IsLeftOut(blocks[r.block], o)
<1> DEFINE b == r.block
           size == Len(blocks[b].body)
<1>1. /\ r \in LiveRanges /\ InBlock(r) /\ b \in Block /\ Concerned(b, o)
      /\ num2instr \in Seq(Block \X Nat)
  BY DEF PlacedInv, RangesPlaced, RangesConcern, InBlock, Typed, TypeOK
<1>2. /\ size \in Nat \ {0} /\ DOMAIN blocks[b].body = 1..size
      /\ 1 \in 1..size /\ size \in 1..size
      /\ FrontNum(b) = Number(b, 1) /\ BackNum(b) = Number(b, size)
  BY <1>1, BlockFacts, NumbersAreIntegers DEF PlacedInv, Typed, FrontNum, Number
<1> HIDE DEF size
<1>3. CASE b \in visited
  <2>1. BlockNumbered(b)
    BY <1>1, <1>3 DEF PlacedInv, NumberingOK
  <2>2. Number(b, 1) \in Nat /\ Number(b, size) \in Nat /\ Number(b, size) + 1 \in 1..Len(num2instr)
    BY <1>2, <2>1 DEF BlockNumbered, size
  <2>3. r.fromNum \in Int /\ r.toNum \in Int /\ Len(num2instr) \in Nat
    BY <1>1, LenProperties DEF LiveRanges
  <2>4. 0 <= r.fromNum
    <3>1. Number(b, 1) <= r.fromNum
      BY <1>1, <1>2 DEF InBlock
    <3> DEFINE first == Number(b, 1)
    <3> HIDE DEF first
    <3> QED
      BY <2>2, <2>3, <3>1 DEF first
  <2>5. r.toNum < Len(num2instr)
    <3>1. r.toNum <= Number(b, size)
      BY <1>1, <1>2 DEF InBlock
    <3> DEFINE last == Number(b, size)
    <3> HIDE DEF last
    <3> QED
      BY <2>2, <2>3, <3>1 DEF last
  <2> QED
    BY <1>1, <1>3, <2>4, <2>5 DEF IsNumbered
<1>4. CASE b \notin visited
  <2>1. BlockUnnumbered(b)
    BY <1>1, <1>4 DEF PlacedInv, NumberingOK
  <2>2. blocks[b].body[1].number = -1
    BY <1>2, <2>1 DEF BlockUnnumbered, Number, size
  <2> QED
    BY <1>1, <1>2, <1>4, <2>2 DEF Concerned, IsLeftOut, size
<1> QED
  BY <1>1, <1>3, <1>4

-----------------------------------------------------------------------------
HandoverInv == AnalysisInv /\ NumbersBack /\ StartsInv /\ RangesConcern

LEMMA HandoverIsAnalysed ==
  ASSUME HandoverInv, Analysed
  PROVE  IsAnalysed(blocks, num2instr, live_ranges)
<1>1. PlacedInv /\ Typed /\ NumberingOK /\ pass = "allocate_hint"
  BY DEF HandoverInv, AnalysisInv, PlacedInv, Analysed
<1>2. /\ blocks \in Seq(MachineBlocks(DOMAIN blocks))
      /\ num2instr \in Seq((DOMAIN blocks) \X Nat)
  BY <1>1 DEF Typed, TypeOK, Block
<1>3. \A o \in Operands :
        /\ IsFiniteSet(live_ranges[o]) /\ InOrder(live_ranges[o])
        /\ \A r \in live_ranges[o] :
             IsNumbered(num2instr, r) \/ IsLeftOut(blocks[r.block], o)
  BY <1>1, PlacedInOrder, RangesNumbered DEF HandoverInv, StartsInv
<1>4. ASSUME NEW n \in 0..(Len(num2instr) - 1)
      PROVE  LET instr == InstrNumbered(blocks, num2instr, n)
             IN  /\ num2instr[n + 1][2] \in DOMAIN blocks[num2instr[n + 1][1]].body
                 /\ instr.number = n
                 /\ \A o \in Operands :
                      /\ o \in Defs(instr) \cup Uses(instr) => Covering(live_ranges[o], n) # {}
                      /\ Cardinality(Covering(live_ranges[o], n)) <=
                           IF o \in Defs(instr) THEN 2 ELSE 1
  <2>1. Len(num2instr) \in Nat /\ n + 1 \in 1..Len(num2instr) /\ (n + 1) - 1 = n /\ n \in Nat
    BY <1>2, LenProperties
  <2>2. PICK b \in visited : \E k \in 1..Len(blocks[b].body) :
          num2instr[n + 1] = <<b, k>> /\ Number(b, k) = n
    BY <2>1 DEF HandoverInv, NumbersBack
  <2>3. PICK k \in 1..Len(blocks[b].body) : num2instr[n + 1] = <<b, k>> /\ Number(b, k) = n
    BY <2>2
  <2> DEFINE instr == blocks[b].body[k]
  <2>4. /\ InstrNumbered(blocks, num2instr, n) = instr /\ instr.number = n
        /\ num2instr[n + 1][1] = b /\ num2instr[n + 1][2] = k
    BY <2>3 DEF InstrNumbered, Number
  <2>5. b \in Block /\ DOMAIN blocks[b].body = 1..Len(blocks[b].body)
    BY <1>1, BlockFacts DEF Typed, TypeOK
  <2>6. ASSUME NEW o \in Operands
        PROVE  /\ o \in Defs(instr) \cup Uses(instr) => Covering(live_ranges[o], n) # {}
               /\ Cardinality(Covering(live_ranges[o], n)) <= IF o \in Defs(instr) THEN 2 ELSE 1
    <3> DEFINE S == Covering(live_ranges[o], n)
    <3>1. o \in Defs(instr) \cup Uses(instr) => S # {}
      BY <2>3, <2>5, MentionsCovered DEF HandoverInv, Covering
    <3>2. StartsAbove(b, o)
      BY <1>1 DEF HandoverInv, StartsInv
    <3>3. \A a, r, s \in S : a = r \/ a = s \/ r = s
      <4> SUFFICES ASSUME NEW a \in S, NEW r \in S, NEW s \in S
                   PROVE  a = r \/ a = s \/ r = s
        OBVIOUS
      <4>1. S = Covering(live_ranges[o], Number(b, k))
        BY <2>3
      <4> HIDE DEF S
      <4> QED
        BY <1>1, <3>2, <4>1, NoThreeCover
    <3>4. ASSUME o \notin Defs(instr), NEW a \in S, NEW r \in S, a # r PROVE FALSE
      <4>1. \/ a.toNum = n /\ r.fromNum = n
            \/ r.toNum = n /\ a.fromNum = n
        BY <1>1, <2>1, <3>4, CoveringMeet
      <4>2. \A q \in S : /\ q \in LiveRanges /\ q \in live_ranges[o] /\ InBlock(q)
                         /\ q.fromNum <= n /\ n <= q.toNum
        BY <1>1 DEF PlacedInv, RangesPlaced, Typed, TypeOK, Covering
      <4>3. \A q \in S : q.block = b /\ q \in live_ranges[o]
        BY <1>1, <2>3, <4>2, InItsBlock
      <4> QED
        BY <1>1, <2>3, <3>2, <3>4, <4>1, <4>3, MeetingIsWrite
    <3> HIDE DEF S
    <3>5. Cardinality(S) <= 2
      BY <3>3, UpToTwo
    <3>6. o \notin Defs(instr) => Cardinality(S) <= 1
      BY <3>4, UpToOne
    <3> QED
      BY <3>1, <3>5, <3>6 DEF S
  <2> QED
    BY <2>4, <2>5, <2>6
<1> QED
  BY <1>2, <1>3, <1>4 DEF IsAnalysed

LEMMA InitHandover == Init => HandoverInv
<1> SUFFICES ASSUME Init PROVE HandoverInv
  OBVIOUS
<1>1. AnalysisInv
  BY InitAnalysis
<1>2. NumbersBack /\ StartsInv
  BY DEF Init, NumbersBack, StartsInv
<1>3. RangesConcern
  BY DEF Init, RangesConcern
<1> QED
  BY <1>1, <1>2, <1>3 DEF HandoverInv

LEMMA NextHandover == HandoverInv /\ [Next]_vars => HandoverInv'
BY NextAnalysis, NextNumbersBack, NextStarts, NextConcern
   DEF HandoverInv, AnalysisInv, PlacedInv, LivenessInv

(* What the register allocator is given satisfies what it relies on, for   *)
(* every function: the assumption about RegAlloc's inputs is what the      *)
(* passes before it leave.                                                 *)
THEOREM AllocatorIsFed == Spec => []ReadyForAllocation
<1>1. HandoverInv => ReadyForAllocation
  BY HandoverIsAnalysed DEF ReadyForAllocation
<1> QED
  BY <1>1, InitHandover, NextHandover, PTL DEF Spec

-----------------------------------------------------------------------------
(* number_instruction gets everywhere a jump leads: the function begins in *)
(* a block that is numbered or will be, and so do the blocks that the      *)
(* numbered ones jump to.                                                  *)
Called == visited \cup ToSet(calls)

ReachInv ==
  /\ 1 \in Called
  /\ \A b \in visited : ToSet(Targets(b)) \subseteq Called
  /\ pass \in {"liveness_analysis", "live_ranges", "allocate_hint"} => calls = <<>>

LEMMA InitReach == Init => ReachInv
<1> SUFFICES ASSUME Init PROVE ReachInv
  OBVIOUS
<1>1. calls = <<1>> /\ visited = {} /\ pass = "build_block_graph"
  BY DEF Init
<1>2. 1 \in ToSet(<<1>>)
  BY DEF ToSet
<1> QED
  BY <1>1, <1>2 DEF ReachInv, Called

LEMMA NumberInstructionReaches ==
  ASSUME Typed, GraphOK, ReachInv, NumberInstruction
  PROVE  ReachInv'
<1> DEFINE b == Head(calls)
<1>1. /\ b \in Block /\ CodeOK /\ calls \in Seq(Block) /\ calls # <<>>
      /\ visited \subseteq Block /\ pass = "number_instruction" /\ pass' = pass
  BY HeadAndTail DEF NumberInstruction, Typed, TypeOK
<1>2. Tail(calls) \in Seq(Block) /\ ToSet(calls) = {b} \cup ToSet(Tail(calls))
  BY <1>1, HeadAndTail
<1>3. \A c \in Block : Targets(c)' = Targets(c)
  BY NumberInstructionKeepsCode, SameTargets
<1>4. CASE b \in visited
  <2>1. visited' = visited /\ calls' = Tail(calls)
    BY <1>4 DEF NumberInstruction
  <2>2. Called' = Called
    BY <1>2, <1>4, <2>1 DEF Called
  <2> QED
    BY <1>1, <1>3, <2>1, <2>2 DEF ReachInv
<1>5. CASE b \notin visited
  <2>1. visited' = visited \cup {b} /\ calls' = blocks[b].out_blocks \o Tail(calls)
    BY <1>5 DEF NumberInstruction
  <2> HIDE DEF b
  <2>2. blocks[b].out_blocks \in Seq(Block)
    BY <1>1, BlockFacts DEF MachineBlocks
  <2>3. ToSet(calls') = ToSet(blocks[b].out_blocks) \cup ToSet(Tail(calls))
    <3> DEFINE out == blocks[b].out_blocks
               tail == Tail(calls)
    <3> HIDE DEF out, tail
    <3>1. out \in Seq(Block) /\ tail \in Seq(Block) /\ calls' = out \o tail
      BY <1>2, <2>1, <2>2 DEF out, tail
    <3>2. ToSet(out \o tail) = ToSet(out) \cup ToSet(tail)
      BY <3>1, ConcatElements
    <3> QED
      BY <3>1, <3>2 DEF out, tail
  <2>4. ToSet(blocks[b].out_blocks) = ToSet(Targets(b))
    BY <1>1 DEF GraphOK
  <2>5. Called' = Called \cup ToSet(Targets(b))
    BY <1>2, <2>1, <2>3, <2>4 DEF Called
  <2> QED
    BY <1>1, <1>3, <2>1, <2>5 DEF ReachInv
<1> QED
  BY <1>4, <1>5

LEMMA NextReach == Typed /\ GraphOK /\ ReachInv /\ [Next]_vars => ReachInv'
<1> SUFFICES ASSUME Typed, GraphOK, ReachInv, [Next]_vars PROVE ReachInv'
  OBVIOUS
<1>1. CASE NumberInstruction
  BY <1>1, NumberInstructionReaches
<1>2. CASE ~NumberInstruction
  <2>1. /\ UNCHANGED numbering /\ visited \subseteq Block
        /\ pass' \in {"liveness_analysis", "live_ranges", "allocate_hint"} =>
             calls = <<>>
    BY <1>2 DEF Next, vars, BuildBlockGraph, BuildBlockDefUse, NumberInstructionReturns,
       PendingStep, AnalysisConverged, ScanInstruction, LeaveBlock, ReachInv, Typed, TypeOK
  <2>2. \A b \in Block : Targets(b)' = Targets(b)
    BY NextKeepsCode, SameTargets
  <2> QED
    BY <2>1, <2>2 DEF ReachInv, Called, numbering
<1> QED
  BY <1>1, <1>2

(* A jump from a numbered block leads to a numbered block.                 *)
LEMMA JumpsStayNumbered ==
  ASSUME Typed, ReachInv, pass \in {"liveness_analysis", "live_ranges", "allocate_hint"}
  PROVE  /\ 1 \in visited
         /\ \A b \in visited : \A k \in 1..Len(blocks[b].body) :
              blocks[b].body[k].label \in {NoLabel} \cup visited
<1>1. Called = visited
  BY DEF ReachInv, Called, ToSet
<1>2. ASSUME NEW b \in visited, NEW k \in 1..Len(blocks[b].body),
             blocks[b].body[k].label # NoLabel
      PROVE  blocks[b].body[k].label \in visited
  BY <1>1, <1>2, TargetsProperties DEF ReachInv, Typed, TypeOK
<1> QED
  BY <1>1, <1>2 DEF ReachInv

-----------------------------------------------------------------------------
(* What the sets mean for the values of the operands, as the code runs.    *)
SolvedInv == AnalysisInv /\ SetsOK

LEMMA LiveAtFront ==
  ASSUME SolvedInv, Analysed, NEW b \in Block
  PROVE  LiveAfter(blocks[b].body, 0, OUTs[b]) = INs[b]
<1> DEFINE body == blocks[b].body
<1>1. Typed /\ Len(body) \in Nat
  BY BlockFacts DEF SolvedInv, AnalysisInv, PlacedInv, Typed
<1>2. Solved(b)
  BY DEF SolvedInv, AnalysisInv, LivenessInv, FlowInv, WorklistOK, Analysed
<1>3. INs[b] = blocks[b].uses \cup (OUTs[b] \ blocks[b].defs) /\ INs[b] \subseteq Operands
  BY <1>1, <1>2 DEF Solved, Transfer, Typed, TypeOK
<1>4. LiveAfter(body, 0, OUTs[b]) \subseteq Operands
  BY <1>1, LiveAfterTyped
<1>5. ASSUME NEW o \in Operands
      PROVE  o \in LiveAfter(body, 0, OUTs[b]) <=> o \in INs[b]
  <2>1. /\ o \in blocks[b].uses <=> ReadFirst(body, o)
        /\ o \in blocks[b].defs <=> Written(body, o)
    BY DEF SolvedInv, SetsOK, Analysed
  <2>2. 0 + 1 = 1 /\ (Len(body) + 1) - 1 = Len(body)
    BY <1>1
  <2> HIDE DEF body
  <2>3. o \in LiveAfter(body, 0, OUTs[b]) <=>
          \/ o \in OUTs[b] /\ \A i \in 1..Len(body) : o \notin Defs(body[i])
          \/ \E j \in 1..Len(body) :
               o \in Uses(body[j]) /\ \A i \in 1..(j - 1) : o \notin Defs(body[i])
    BY <2>2, LiveAfterIs
  <2> QED
    BY <1>3, <2>1, <2>3 DEF ReadFirst, Written
<1> QED
  BY <1>3, <1>4, <1>5

(* What is live where a jump leads is live at the end of the block.        *)
LEMMA LiveAcrossJump ==
  ASSUME SolvedInv, Analysed, NEW b \in Block, NEW k \in 1..Len(blocks[b].body),
         blocks[b].body[k].label # NoLabel
  PROVE  LET l == blocks[b].body[k].label
         IN  l \in Block /\ LiveAfter(blocks[l].body, 0, OUTs[l]) \subseteq OUTs[b]
<1> DEFINE l == blocks[b].body[k].label
<1>1. CodeOK /\ GraphOK /\ Solved(b)
  BY DEF SolvedInv, AnalysisInv, LivenessInv, FlowInv, WorklistOK, Analysed, Typed
<1>2. l \in Block /\ l \in ToSet(Targets(b))
  BY <1>1, InstrFacts, TargetsProperties
<1>3. l \in ToSet(blocks[b].out_blocks)
  BY <1>1, <1>2 DEF GraphOK, Analysed
<1> HIDE DEF l
<1>4. INs[l] \subseteq OUTs[b]
  BY <1>1, <1>3 DEF Solved, Out
<1> QED
  BY <1>2, <1>4, LiveAtFront DEF l

(* What is live is read somewhere, and has a range.                        *)
LEMMA LiveIsRead ==
  ASSUME SolvedInv, Analysed, NEW b \in Block, NEW j \in 0..Len(blocks[b].body),
         NEW o \in LiveAfter(blocks[b].body, j, OUTs[b])
  PROVE  /\ o \in Operands /\ live_ranges[o] # {}
         /\ \E c \in Block : \E k \in 1..Len(blocks[c].body) : o \in Uses(blocks[c].body[k])
<1>1. Typed /\ CodeOK /\ LivenessInv
  BY DEF SolvedInv, AnalysisInv, PlacedInv, Typed
<1>2. o \in Operands
  BY <1>1, LiveAfterTyped
<1>3. live_ranges[o] # {}
  BY DEF SolvedInv, AnalysisInv, CoverInv, Analysed, BlockCovered, PointsCovered
<1>4. ASSUME NEW c \in Block, o \in LiveAtStart[c]
      PROVE  \E d \in Block : \E k \in 1..Len(blocks[d].body) : o \in Uses(blocks[d].body[k])
  <2>1. PICK p : Carries(p, c, o)
    BY <1>4, LiveIsCarried
  <2>2. p \in Seq(Block) /\ Len(p) \in 1..Len(blocks)
    BY <1>1, <2>1, PathFacts DEF Carries
  <2>3. p[Len(p)] \in Block
    BY <2>2, ElementOfSeq, LenProperties
  <2>4. o \in blocks[p[Len(p)]].uses
    BY <2>1 DEF Carries
  <2>5. ReadFirst(blocks[p[Len(p)]].body, o)
    BY <1>2, <2>3, <2>4 DEF SolvedInv, SetsOK, Analysed
  <2> QED
    BY <2>3, <2>5 DEF ReadFirst
<1>5. OUTs[b] = UNION {LiveAtStart[s] : s \in ToSet(Targets(b))}
      /\ \A s \in ToSet(Targets(b)) : s \in Block
  <2>1. \A c \in Block : Solved(c)
    BY <1>1 DEF LivenessInv, FlowInv, WorklistOK, Analysed
  <2>2. OUTs[b] = AtEnd(LiveAtStart, b)
    BY <1>1, <2>1, SolutionIsLiveness DEF Analysed
  <2>3. \A s \in ToSet(Targets(b)) : s \in Block
    BY <1>1, TargetsProperties, ElementOfSeq DEF ToSet
  <2> QED
    BY <2>2, <2>3 DEF AtEnd
<1>6. CASE o \in OUTs[b]
  BY <1>2, <1>3, <1>4, <1>5, <1>6
<1>7. CASE \E k \in (j + 1)..Len(blocks[b].body) : o \in Uses(blocks[b].body[k])
  <2>1. Len(blocks[b].body) \in Nat
    BY <1>1, BlockFacts
  <2> QED
    BY <1>2, <1>3, <1>7, <2>1
<1>8. o \in OUTs[b] \/ \E k \in (j + 1)..Len(blocks[b].body) : o \in Uses(blocks[b].body[k])
  BY LiveAfterIs
<1> QED
  BY <1>2, <1>3, <1>6, <1>7, <1>8

(* What is live on entry is read on some way through the blocks before it  *)
(* is written.                                                             *)
LEMMA LiveOnEntry ==
  ASSUME SolvedInv, Analysed, NEW o \in LiveAfter(blocks[1].body, 0, OUTs[1])
  PROVE  \E p \in Seq(Block) :
           /\ Len(p) \in 1..Len(blocks) /\ p[1] = 1
           /\ \A i \in 1..(Len(p) - 1) :
                /\ \E k \in 1..Len(blocks[p[i]].body) : blocks[p[i]].body[k].label = p[i + 1]
                /\ ~Written(blocks[p[i]].body, o)
           /\ ReadFirst(blocks[p[Len(p)]].body, o)
<1>1. Typed /\ CodeOK /\ LivenessInv
  BY DEF SolvedInv, AnalysisInv, PlacedInv, Typed
<1>2. 1 \in Block /\ \A c \in Block : Solved(c)
  BY <1>1, BlockFacts DEF LivenessInv, FlowInv, WorklistOK, Analysed
<1>3. o \in LiveAtStart[1] /\ o \in Operands
  <2>1. o \in INs[1]
    BY <1>2, LiveAtFront
  <2> QED
    BY <1>1, <1>2, <2>1, SolutionIsLiveness DEF Analysed, Typed, TypeOK
<1>4. PICK p : Carries(p, 1, o)
  BY <1>2, <1>3, LiveIsCarried
<1>5. /\ p \in Seq(Block) /\ Len(p) \in 1..Len(blocks) /\ p[1] = 1
      /\ \A i \in 1..(Len(p) - 1) : p[i + 1] \in ToSet(Targets(p[i]))
  BY <1>1, <1>4, PathFacts DEF Carries
<1>6. \A i \in 1..Len(p) : p[i] \in Block
  BY <1>5, ElementOfSeq
<1>7. Len(p) \in 1..Len(p) /\ \A i \in 1..(Len(p) - 1) : i \in 1..Len(p)
  <2>1. Len(blocks) \in Nat
    BY <1>1, BlockFacts
  <2> QED
    BY <1>5, <2>1
<1>8. ReadFirst(blocks[p[Len(p)]].body, o)
  <2>1. p[Len(p)] \in Block
    BY <1>6, <1>7
  <2>2. o \in blocks[p[Len(p)]].uses
    BY <1>4 DEF Carries
  <2> QED
    BY <1>3, <2>1, <2>2 DEF SolvedInv, SetsOK, Analysed
<1>9. ASSUME NEW i \in 1..(Len(p) - 1)
      PROVE  /\ \E k \in 1..Len(blocks[p[i]].body) : blocks[p[i]].body[k].label = p[i + 1]
             /\ ~Written(blocks[p[i]].body, o)
  <2>1. p[i] \in Block
    BY <1>6, <1>7
  <2>2. p[i + 1] \in ToSet(Targets(p[i])) /\ o \notin blocks[p[i]].defs
    BY <1>4, <1>5 DEF Carries
  <2>3. ~Written(blocks[p[i]].body, o)
    BY <1>3, <2>1, <2>2 DEF SolvedInv, SetsOK, Analysed
  <2> QED
    BY <1>1, <2>1, <2>2, <2>3, TargetsProperties
<1> QED
  BY <1>5, <1>8, <1>9
=============================================================================
