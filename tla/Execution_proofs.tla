-------------------------- MODULE Execution_proofs --------------------------
(***************************************************************************)
(* The frame a function works with while it runs: what the allocated code  *)
(* does not write.                                                         *)
(***************************************************************************)
EXTENDS Execution, Func_proofs

(* The code the allocator leaves is program, instruction by instruction.   *)
LEMMA ProgramFacts ==
  ASSUME NEW f \in Functions
  PROVE  /\ f \in Seq(MachineBlocks(DOMAIN f))
         /\ Len(f) \in Nat \ {0} /\ DOMAIN f = 1..Len(f)
         /\ \A b \in DOMAIN f :
              /\ "body" \in DOMAIN f[b] /\ f[b].body \in Seq(MachineInstrs(DOMAIN f))
              /\ Len(f[b].body) \in Nat \ {0} /\ DOMAIN f[b].body = 1..Len(f[b].body)
<1>1. /\ f \in Seq(MachineBlocks(DOMAIN f)) /\ f # <<>>
      /\ \A b \in DOMAIN f : f[b].body # <<>>
  BY FunctionsAssumption DEF IsSelected
<1>2. Len(f) \in Nat \ {0} /\ DOMAIN f = 1..Len(f)
  BY <1>1, EmptySeq, LenProperties
<1>3. ASSUME NEW b \in DOMAIN f
      PROVE  /\ "body" \in DOMAIN f[b] /\ f[b].body \in Seq(MachineInstrs(DOMAIN f))
             /\ Len(f[b].body) \in Nat \ {0} /\ DOMAIN f[b].body = 1..Len(f[b].body)
  <2>1. f[b] \in MachineBlocks(DOMAIN f)
    BY <1>1, <1>2, ElementOfSeq
  <2>2. "body" \in DOMAIN f[b] /\ f[b].body \in Seq(MachineInstrs(DOMAIN f))
    BY <2>1 DEF MachineBlocks
  <2> QED
    BY <1>1, <2>2, EmptySeq, LenProperties
<1> QED
  BY <1>1, <1>2, <1>3

LEMMA ProgramInstrs ==
  ASSUME NEW f \in Functions, NEW b \in DOMAIN f, NEW k \in DOMAIN f[b].body
  PROVE  /\ f[b].body[k] \in AllocatorProofs!CodeInstrs /\ f[b].body[k].after = <<>>
         /\ f[b].body[k].use \in Seq(Operands) /\ f[b].body[k].def \in Seq(Operands)
<1> DEFINE P == f[b].body[k]
<1>1. P \in MachineInstrs(DOMAIN f) /\ DOMAIN f \subseteq Nat
  BY ProgramFacts, ElementOfSeq
<1> HIDE DEF P
<1>2. <<>> \in Seq(AllocatorProofs!Accesses) /\ AllocatorProofs!Operands = Operands
  BY DEF AllocatorProofs!Operands, Operands
<1>3. /\ P.def \in Seq(Operands) /\ P.use \in Seq(Operands) /\ P.label \in Nat
      /\ P.mv \in BOOLEAN /\ P.number \in Int /\ P.before = <<>> /\ P.after = <<>>
      /\ P = [def |-> P.def, use |-> P.use, label |-> P.label, mv |-> P.mv,
              number |-> P.number, before |-> P.before, after |-> P.after]
  BY <1>1 DEF MachineInstrs, NoLabel
<1>4. P \in AllocatorProofs!CodeInstrs
  BY <1>2, <1>3 DEF AllocatorProofs!CodeInstrs
<1> QED
  BY <1>3, <1>4 DEF P

(* The blocks keep their shape ...                                         *)
SameShape ==
  /\ program \in Functions
  /\ AllocatorProofs!IsMap(blocks) /\ DOMAIN blocks = DOMAIN program
  /\ \A b \in DOMAIN program :
       /\ "body" \in DOMAIN blocks[b] /\ AllocatorProofs!IsMap(blocks[b].body)
       /\ DOMAIN blocks[b].body = DOMAIN program[b].body

(* ... and their instructions, until the allocator replaces operands.      *)
SameInstrs ==
  \A b \in DOMAIN program : \A k \in DOMAIN program[b].body :
    /\ blocks[b].body[k].def = program[b].body[k].def
    /\ blocks[b].body[k].use = program[b].body[k].use
    /\ blocks[b].body[k].label = program[b].body[k].label
    /\ blocks[b].body[k].mv = program[b].body[k].mv

Compiled(b, k) == AllocatorProofs!CompiledTo(program[b].body[k], blocks[b].body[k])

CompiledInstrs ==
  \A b \in visited : \A k \in DOMAIN program[b].body :
    Compiled(b, k) /\ program[b].body[k].label \in {NoLabel} \cup visited

ProgramInv == SameShape /\ IF pass \in Analysing THEN SameInstrs ELSE CompiledInstrs

LEMMA ShapeFacts ==
  ASSUME SameShape
  PROVE  /\ Len(blocks) = Len(program)
         /\ \A b \in DOMAIN program : Len(blocks[b].body) = Len(program[b].body)
<1>1. Len(blocks) = Len(program)
  <2>1. program \in Functions /\ blocks = [b \in DOMAIN program |-> blocks[b]]
    BY DEF SameShape, AllocatorProofs!IsMap
  <2>2. Len(program) \in Nat /\ DOMAIN program = 1..Len(program)
    BY <2>1, ProgramFacts
  <2>3. blocks \in [1..Len(program) -> {blocks[b] : b \in DOMAIN program}]
    BY <2>1, <2>2
  <2> QED
    BY <2>2, <2>3, FunctionIsSeq
<1>2. ASSUME NEW b \in DOMAIN program
      PROVE  Len(blocks[b].body) = Len(program[b].body)
  <2> DEFINE body == blocks[b].body
             size == Len(program[b].body)
  <2>1. program \in Functions /\ body = [k \in DOMAIN program[b].body |-> body[k]]
    BY DEF SameShape, AllocatorProofs!IsMap
  <2>2. size \in Nat /\ DOMAIN program[b].body = 1..size
    BY <2>1, ProgramFacts
  <2> HIDE DEF body, size
  <2>3. body \in [1..size -> {body[k] : k \in 1..size}]
    BY <2>1, <2>2
  <2>4. Len(body) = size
    BY <2>2, <2>3, FunctionIsSeq
  <2> QED
    BY <2>4 DEF body, size
<1> QED
  BY <1>1, <1>2

LEMMA InitProgram == Init /\ program = blocks => ProgramInv
<1> SUFFICES ASSUME Init, program = blocks PROVE ProgramInv
  OBVIOUS
<1>1. pass \in Analysing /\ blocks \in Functions
  BY SameAnalysisInit DEF Init, AnalysisProofs!Init, Analysing
<1>2. SameShape
  <2>1. AllocatorProofs!IsMap(blocks)
    BY <1>1, ProgramFacts DEF AllocatorProofs!IsMap
  <2>2. ASSUME NEW b \in DOMAIN blocks
        PROVE  "body" \in DOMAIN blocks[b] /\ AllocatorProofs!IsMap(blocks[b].body)
    BY <1>1, ProgramFacts DEF AllocatorProofs!IsMap
  <2> QED
    BY <1>1, <2>1, <2>2 DEF SameShape
<1>3. SameInstrs
  BY DEF SameInstrs
<1> QED
  BY <1>1, <1>2, <1>3 DEF ProgramInv

(* The analysis leaves sequences of sequences.                             *)
Bodies ==
  /\ blocks = [b \in DOMAIN blocks |-> blocks[b]]
  /\ \A b \in DOMAIN blocks :
       /\ "body" \in DOMAIN blocks[b]
       /\ blocks[b].body = [k \in 1..Len(blocks[b].body) |-> blocks[b].body[k]]

LEMMA AnalysisShape == AnalysisHolds => Bodies
<1> SUFFICES ASSUME AnalysisHolds PROVE Bodies
  OBVIOUS
<1>1. AnalysisProofs!CodeOK
  BY DEF AnalysisHolds, AnalysisProofs!HandoverInv, AnalysisProofs!AnalysisInv,
     AnalysisProofs!PlacedInv, AnalysisProofs!Typed
<1>2. blocks = [b \in DOMAIN blocks |-> blocks[b]]
  BY <1>1 DEF AnalysisProofs!CodeOK
<1>3. ASSUME NEW b \in DOMAIN blocks
      PROVE  /\ blocks[b] \in AnalysisProofs!MachineBlocks(DOMAIN blocks)
             /\ blocks[b].body \in Seq(AnalysisProofs!MachineInstrs(DOMAIN blocks))
             /\ DOMAIN blocks[b].body = 1..Len(blocks[b].body)
  BY <1>1, AnalysisAssumptions, AnalysisProofs!BlockFacts, AnalysisProofs!OperandAssumption,
     AnalysisProofs!FunctionsAssumption DEF AnalysisProofs!Block
<1>4. ASSUME NEW b \in DOMAIN blocks
      PROVE  /\ "body" \in DOMAIN blocks[b]
             /\ blocks[b].body = [k \in 1..Len(blocks[b].body) |-> blocks[b].body[k]]
  <2>1. "body" \in DOMAIN blocks[b]
    BY <1>3 DEF AnalysisProofs!MachineBlocks
  <2>2. \A s : s \in Seq(AnalysisProofs!MachineInstrs(DOMAIN blocks)) => s = [k \in DOMAIN s |-> s[k]]
    OBVIOUS
  <2>3. blocks[b].body = [k \in DOMAIN blocks[b].body |-> blocks[b].body[k]]
    BY <1>3, <2>2
  <2> QED
    BY <1>3, <2>1, <2>3
<1> QED
  BY <1>2, <1>4 DEF Bodies

LEMMA AnalysisKeepsProgram ==
  ASSUME AnalysisHolds, SameShape, SameInstrs, [AnalysisProofs!Next]_(AnalysisProofs!vars),
         program' = program
  PROVE  SameShape' /\ SameInstrs'
<1>1. Bodies'
  <2>1. AnalysisHolds'
    BY AnalysisGoesOn
  <2> QED
    BY <2>1, AnalysisShape, PTL
<1>2. AnalysisProofs!Block' = AnalysisProofs!Block /\ AnalysisProofs!SameCode
  BY AnalysisAssumptions, AnalysisProofs!NextTyped, AnalysisProofs!NextKeepsCode,
     AnalysisProofs!OperandAssumption, AnalysisProofs!FunctionsAssumption
     DEF AnalysisHolds, AnalysisProofs!HandoverInv, AnalysisProofs!AnalysisInv,
         AnalysisProofs!PlacedInv
<1>3. DOMAIN blocks' = DOMAIN blocks /\ DOMAIN blocks = DOMAIN program
  BY <1>2 DEF AnalysisProofs!Block, SameShape
<1>4. ASSUME NEW b \in DOMAIN program
      PROVE  /\ DOMAIN blocks[b].body = 1..Len(blocks[b].body)
             /\ DOMAIN program[b].body = DOMAIN blocks[b].body
             /\ DOMAIN blocks'[b].body = DOMAIN blocks[b].body
             /\ \A k \in 1..Len(blocks[b].body) :
                  /\ blocks'[b].body[k].def = blocks[b].body[k].def
                  /\ blocks'[b].body[k].use = blocks[b].body[k].use
                  /\ blocks'[b].body[k].label = blocks[b].body[k].label
                  /\ blocks'[b].body[k].mv = blocks[b].body[k].mv
  <2>1. /\ DOMAIN blocks[b].body = 1..Len(blocks[b].body)
        /\ DOMAIN blocks'[b].body = 1..Len(blocks'[b].body)
    BY <1>1, <1>3 DEF Bodies
  <2>2. Len(blocks'[b].body) = Len(blocks[b].body)
    BY <1>2, <1>3 DEF AnalysisProofs!SameCode, AnalysisProofs!Block
  <2>3. DOMAIN program[b].body = DOMAIN blocks[b].body
    BY DEF SameShape
  <2> QED
    BY <1>2, <1>3, <2>1, <2>2, <2>3 DEF AnalysisProofs!SameCode, AnalysisProofs!Block
<1>5. SameShape'
  BY <1>1, <1>3, <1>4 DEF SameShape, Bodies, AllocatorProofs!IsMap
<1>6. ASSUME NEW b \in DOMAIN program, NEW k \in DOMAIN program[b].body
      PROVE  /\ blocks'[b].body[k].def = program[b].body[k].def
             /\ blocks'[b].body[k].use = program[b].body[k].use
             /\ blocks'[b].body[k].label = program[b].body[k].label
             /\ blocks'[b].body[k].mv = program[b].body[k].mv
  BY <1>4, ZenonT(60) DEF SameInstrs
<1>7. SameInstrs'
  BY <1>6 DEF SameInstrs
<1> QED
  BY <1>5, <1>7

(* Where the allocator begins every instruction is still the one selected, *)
(* and what jumps lead to is numbered.                                     *)
LEMMA AllocationBeginsProgram ==
  ASSUME AnalysisHolds, Untouched, pass = "allocate_hint", SameShape, SameInstrs
  PROVE  CompiledInstrs
<1>1. AllocatorProofs!HandedOver /\ Numbered
  BY HandsOver, AnalysisNumbers
<1>2. ASSUME NEW b \in visited, NEW k \in DOMAIN program[b].body
      PROVE  Compiled(b, k)
  <2>1. b \in DOMAIN blocks /\ b \in DOMAIN program /\ k \in DOMAIN blocks[b].body
    BY <1>1 DEF Numbered, SameShape
  <2>2. PICK n \in AllocatorProofs!InstrNumbers : num2instr[n + 1] = <<b, k>>
    BY <1>1, <2>1 DEF Numbered
  <2>3. AllocatorProofs!InstrAt(n) = blocks[b].body[k]
    BY <2>2 DEF AllocatorProofs!InstrAt, AllocatorProofs!InstrNumbered
  <2>4. AllocatorProofs!InstrAt(n).after = <<>>
    <3>1. blocks[b] \in AllocatorProofs!MachineBlocks(DOMAIN blocks)
      BY <1>1, <2>1 DEF AllocatorProofs!HandedOver, AllocatorProofs!IsAnalysed
    <3>2. blocks[b].body[k] \in AllocatorProofs!MachineInstrs(DOMAIN blocks)
      BY <2>1, <3>1 DEF AllocatorProofs!MachineBlocks
    <3> QED
      BY <2>3, <3>2 DEF AllocatorProofs!MachineInstrs
  <2>5. PICK P : P = program[b].body[k]
    OBVIOUS
  <2>6. /\ AllocatorProofs!InstrAt(n).def = P.def /\ AllocatorProofs!InstrAt(n).use = P.use
        /\ AllocatorProofs!InstrAt(n).label = P.label /\ AllocatorProofs!InstrAt(n).mv = P.mv
    BY <2>1, <2>3, <2>5 DEF SameInstrs
  <2>7. AllocatorProofs!CompiledTo(P, AllocatorProofs!InstrAt(n))
    BY <1>1, <2>4, <2>6, AllocatorAssumptions, AllocatorProofs!InitCompiled,
       AllocatorProofs!OperandAssumption, AllocatorProofs!InputAssumption,
       AllocatorProofs!TempsAssumption
  <2> QED
    BY <2>3, <2>5, <2>7 DEF Compiled
<1>3. ASSUME NEW b \in visited, NEW k \in DOMAIN program[b].body
      PROVE  program[b].body[k].label \in {NoLabel} \cup visited
  <2>1. /\ b \in DOMAIN program /\ k \in DOMAIN blocks[b].body
        /\ DOMAIN blocks[b].body = 1..Len(blocks[b].body)
    BY <1>1, AnalysisShape DEF Numbered, SameShape, Bodies
  <2>2. AnalysisProofs!Typed /\ AnalysisProofs!ReachInv
    BY DEF AnalysisHolds, AnalysisProofs!HandoverInv, AnalysisProofs!AnalysisInv,
       AnalysisProofs!PlacedInv
  <2>3. blocks[b].body[k].label \in {AnalysisProofs!NoLabel} \cup visited
    BY <2>1, <2>2, AnalysisAssumptions, AnalysisProofs!JumpsStayNumbered,
       AnalysisProofs!OperandAssumption, AnalysisProofs!FunctionsAssumption
  <2> QED
    BY <2>1, <2>3 DEF SameInstrs, NoLabel, AnalysisProofs!NoLabel
<1> QED
  BY <1>2, <1>3 DEF CompiledInstrs

LEMMA AllocationKeepsProgram ==
  ASSUME AllocationHolds, Numbered, SameShape, CompiledInstrs,
         [AllocatorProofs!Next]_(AllocatorProofs!vars), UNCHANGED <<visited, program>>
  PROVE  SameShape' /\ CompiledInstrs'
<1>1. /\ num2instr' = num2instr /\ DOMAIN blocks' = DOMAIN blocks
      /\ AllocatorProofs!IsMap(blocks) => AllocatorProofs!IsMap(blocks')
      /\ \A b \in DOMAIN blocks :
           "body" \in DOMAIN blocks[b] =>
             /\ "body" \in DOMAIN blocks'[b]
             /\ DOMAIN blocks'[b].body = DOMAIN blocks[b].body
             /\ AllocatorProofs!IsMap(blocks[b].body) => AllocatorProofs!IsMap(blocks'[b].body)
  BY AllocatorProofs!NextKeepsPlaces, AllocatorAssumptions
<1>2. SameShape'
  BY <1>1 DEF SameShape, AllocatorProofs!IsMap
<1>3. ASSUME NEW b \in visited, NEW k \in DOMAIN program[b].body
      PROVE  Compiled(b, k)'
  <2>1. b \in DOMAIN blocks /\ b \in DOMAIN program /\ k \in DOMAIN blocks[b].body
    BY DEF Numbered, SameShape
  <2>2. PICK n \in AllocatorProofs!InstrNumbers : num2instr[n + 1] = <<b, k>>
    BY <2>1 DEF Numbered
  <2>3. AllocatorProofs!InstrAt(n) = blocks[b].body[k]
    BY <2>2 DEF AllocatorProofs!InstrAt, AllocatorProofs!InstrNumbered
  <2>4. AllocatorProofs!InstrAt(n)' = blocks'[b].body[k]
    BY <1>1, <2>2 DEF AllocatorProofs!InstrAt, AllocatorProofs!InstrNumbered
  <2>5. PICK P \in AllocatorProofs!CodeInstrs : P = program[b].body[k]
    BY <2>1, ProgramInstrs DEF SameShape
  <2>6. AllocatorProofs!CompiledTo(P, AllocatorProofs!InstrAt(n))
    BY <2>3, <2>5 DEF CompiledInstrs, Compiled
  <2>7. AllocatorProofs!CompiledTo(P, AllocatorProofs!InstrAt(n))'
    BY <2>6, AllocatorAssumptions, AllocatorProofs!NextKeepsCompiled,
       AllocatorProofs!OperandAssumption, AllocatorProofs!InputAssumption,
       AllocatorProofs!TempsAssumption DEF AllocationHolds
  <2>8. program'[b].body[k] = P
    BY <2>5
  <2>9. /\ \A j \in 1..Len(P.use) : AllocatorProofs!ReadsAs(program[b].body[k], blocks[b].body[k], j)'
        /\ \A j \in 1..Len(P.def) : AllocatorProofs!WritesAs(program[b].body[k], blocks[b].body[k], j)'
    BY <2>4, <2>7, <2>8 DEF AllocatorProofs!CompiledTo, AllocatorProofs!ReadsAs,
       AllocatorProofs!WritesAs
  <2>10. AllocatorProofs!StoresOnly(program[b].body[k], blocks[b].body[k])'
    BY <2>4, <2>7, <2>8 DEF AllocatorProofs!CompiledTo, AllocatorProofs!StoresOnly
  <2> QED
    BY <2>4, <2>7, <2>8, <2>9, <2>10 DEF Compiled, AllocatorProofs!CompiledTo
<1>4. CompiledInstrs'
  BY <1>3 DEF CompiledInstrs
<1> QED
  BY <1>2, <1>4

LEMMA CompileKeepsProgram ==
  ASSUME FuncInv, ProgramInv, [Next]_vars, program' = program
  PROVE  ProgramInv'
<1>1. CASE pass \in Analysing /\ (Analyse \/ UNCHANGED vars)
  <2>1. AnalysisHolds /\ SameShape /\ SameInstrs
    BY <1>1 DEF FuncInv, ProgramInv
  <2>2. [AnalysisProofs!Next]_(AnalysisProofs!vars)
    BY <1>1, SameAnalysis DEF Analyse, vars, analysing, AnalysisProofs!vars,
       AnalysisProofs!numbering, AnalysisProofs!dataflow, AnalysisProofs!scan
  <2>3. pass' \in Analysing
    BY <1>1, SameAnalysis, AnalysisProofs!NextPass, AnalysisAssumptions,
       AnalysisProofs!OperandAssumption, AnalysisProofs!FunctionsAssumption
       DEF Analyse, Analysing, vars
  <2> QED
    BY <2>1, <2>2, <2>3, AnalysisKeepsProgram DEF ProgramInv
<1>2. CASE Allocate \/ (pass \notin Analysing /\ UNCHANGED vars)
  <2>1. AllocationHolds /\ Numbered /\ pass' \notin Analysing
    BY <1>2, AllocateKeeps DEF FuncInv, vars
  <2>2. CompiledInstrs /\ SameShape
    <3>1. CASE pass \in Analysing
      <4>1. pass = "allocate_hint"
        BY <1>2, <3>1, SameAllocator, AllocatorProofs!NextPass, AllocatorAssumptions,
           AllocatorProofs!OperandAssumption, AllocatorProofs!InputAssumption,
           AllocatorProofs!TempsAssumption DEF Allocate, Analysing, AllocatorProofs!Passes
      <4> QED
        BY <3>1, <4>1, AllocationBeginsProgram DEF FuncInv, ProgramInv
    <3>2. CASE pass \notin Analysing
      BY <3>2 DEF ProgramInv
    <3> QED
      BY <3>1, <3>2
  <2>3. [AllocatorProofs!Next]_(AllocatorProofs!vars) /\ visited' = visited
    BY <1>2, SameAllocator DEF Allocate, vars, analysing, allocating, AllocatorProofs!vars,
       AllocatorProofs!code, AllocatorProofs!hints, AllocatorProofs!allocation,
       AllocatorProofs!spilling, AllocatorProofs!rewriting
  <2> QED
    BY <2>1, <2>2, <2>3, AllocationKeepsProgram DEF ProgramInv
<1>3. Analyse => pass \in Analysing
  BY SameAnalysis, AnalysisProofs!NextPass, AnalysisAssumptions,
     AnalysisProofs!OperandAssumption, AnalysisProofs!FunctionsAssumption
     DEF Analyse, Analysing
<1> QED
  BY <1>1, <1>2, <1>3 DEF Next

-----------------------------------------------------------------------------

(* When the prolog is generated the passes are done, and the slots of the  *)
(* frame are settled.                                                      *)
LEMMA PassesAreDone ==
  ASSUME FuncInv, pass = "generate_prolog"
  PROVE  ~Next
<1>1. ~Analyse
  BY SameAnalysis, AnalysisProofs!NextPass, AnalysisAssumptions,
     AnalysisProofs!OperandAssumption, AnalysisProofs!FunctionsAssumption DEF Analyse
<1>2. ~Allocate
  BY SameAllocator, AllocatorProofs!NextPass, AllocatorAssumptions,
     AllocatorProofs!OperandAssumption, AllocatorProofs!InputAssumption,
     AllocatorProofs!TempsAssumption DEF Allocate
<1> QED
  BY <1>1, <1>2 DEF Next

LEMMA AddressesApart ==
  ASSUME NEW f \in Frames, Stacked(f), NEW i \in DOMAIN f.locals
  PROVE  /\ LocalAddress(f, i) # RAAddress(f)
         /\ \A j \in DOMAIN f.locals : LocalAddress(f, i) = LocalAddress(f, j) => i = j
<1> DEFINE offset(j) == f.locals[j].offset
           top == FrameSize(f)
<1>1. f.offset \in Nat /\ f.args \in Nat
  BY FrameFacts
<1>2. top \in Int
  BY <1>1 DEF FrameSize, RoundUp
<1>3. \A j \in DOMAIN f.locals :
        j \in Nat /\ offset(j) \in Nat /\ f.locals[j].size \in Nat
  BY FrameFacts
<1>4. \A j \in DOMAIN f.locals : f.locals[j].size > 0 /\ offset(j) - f.locals[j].size >= 8
  BY DEF Stacked
<1>5. \A j, k \in DOMAIN f.locals : j < k => offset(j) <= offset(k) - f.locals[k].size
  BY DEF Stacked
<1>6. /\ RAAddress(f) = top - 8
      /\ \A j \in DOMAIN f.locals : LocalAddress(f, j) = top - offset(j)
  BY DEF RAAddress, LocalAddress, RA
<1> HIDE DEF offset, top
<1>7. LocalAddress(f, i) # RAAddress(f)
  BY <1>2, <1>3, <1>4, <1>6
<1>8. ASSUME NEW j \in DOMAIN f.locals, LocalAddress(f, i) = LocalAddress(f, j), i # j
      PROVE  FALSE
  <2>1. offset(i) = offset(j)
    BY <1>2, <1>3, <1>6, <1>8
  <2>2. i < j \/ j < i
    BY <1>3, <1>8
  <2> QED
    BY <1>3, <1>4, <1>5, <2>1, <2>2
<1> QED
  BY <1>7, <1>8

LEMMA SettledFrame ==
  ASSUME FuncInv, pass = "generate_prolog"
  PROVE  /\ AllocationHolds /\ Numbered
         /\ frame \in Frames /\ Stacked(frame)
         /\ \A r \in DOMAIN saved_registers : saved_registers[r] \in DOMAIN frame.locals
         /\ \A q, r \in DOMAIN saved_registers :
              saved_registers[q] = saved_registers[r] => q = r
         /\ \A a \in DOMAIN operand_spill_map : operand_spill_map[a] \in DOMAIN frame.locals
         /\ \A a \in DOMAIN operand_spill_map, r \in DOMAIN saved_registers :
              operand_spill_map[a] # saved_registers[r]
<1>1. AllocationHolds /\ Numbered
  BY DEF FuncInv, Analysing
<1>2. AllocatorProofs!TypeOK /\ AllocatorProofs!SlotsInv
  BY <1>1 DEF AllocationHolds, AllocatorProofs!IInv
<1>3. frame \in Frames /\ Stacked(frame)
  BY <1>2 DEF AllocatorProofs!TypeOK, AllocatorProofs!SlotsInv, Frames, Stacked, StackObjects,
     AllocatorProofs!Frames, AllocatorProofs!Stacked, AllocatorProofs!StackObjects
<1>4. DOMAIN frame.locals = 1..Len(frame.locals)
  BY <1>3, FrameFacts
<1>5. \A q, r \in DOMAIN saved_registers : saved_registers[q] = saved_registers[r] => q = r
  BY <1>2 DEF AllocatorProofs!SlotsInv, AllocatorProofs!IsInjective
<1> QED
  BY <1>1, <1>2, <1>3, <1>4, <1>5 DEF AllocatorProofs!TypeOK, AllocatorProofs!SlotsInv

-----------------------------------------------------------------------------
(* While the function runs, its frame holds what the prolog saved, and the *)
(* registers that were not saved hold what they held on entry.             *)
Preserved ==
  /\ RAAddress(frame) \in DOMAIN mem /\ mem[RAAddress(frame)] = ReturnAddress
  /\ \A r \in DOMAIN saved_registers :
       /\ LocalAddress(frame, saved_registers[r]) \in DOMAIN mem
       /\ mem[LocalAddress(frame, saved_registers[r])] = entry[r]
  /\ \A r \in CalleeSaved \ DOMAIN saved_registers : regs[r] = entry[r]

(* It stays in the blocks that have been numbered.                         *)
OnPath == at[1] \in visited /\ at[2] \in DOMAIN program[at[1]].body

ExecutionInv ==
  /\ FuncInv /\ ProgramInv
  /\ at # NotStarted => pass = "generate_prolog" /\ Preserved
  /\ Running => OnPath
  /\ at = Returned => \A r \in CalleeSaved : regs[r] = entry[r]

LEMMA InitExecution == ExecutionInit => ExecutionInv
BY InitFunc, InitProgram DEF ExecutionInit, ExecutionInv, Running, NotStarted, Returned

LEMMA CompileKeeps ==
  ASSUME ExecutionInv, Compile
  PROVE  ExecutionInv'
<1>1. at = NotStarted
  BY PassesAreDone DEF ExecutionInv, Compile
<1>2. at' = NotStarted /\ program' = program
  BY <1>1 DEF Compile, machine
<1>3. FuncInv' /\ ProgramInv'
  BY <1>2, NextFunc, CompileKeepsProgram DEF ExecutionInv, Compile
<1> QED
  BY <1>2, <1>3 DEF ExecutionInv, Running, NotStarted, Returned

(* A step of the machine leaves the code and the frame as they are.        *)
LEMMA CodeStays ==
  ASSUME ExecutionInv, UNCHANGED <<vars, program>>
  PROVE  FuncInv' /\ ProgramInv'
BY NextFunc, CompileKeepsProgram DEF ExecutionInv

LEMMA StutteringKeeps ==
  ASSUME ExecutionInv, UNCHANGED <<vars, program, machine>>
  PROVE  ExecutionInv'
<1>1. FuncInv' /\ ProgramInv'
  BY CodeStays
<1>2. /\ pass' = pass /\ frame' = frame /\ saved_registers' = saved_registers
      /\ visited' = visited /\ program' = program
      /\ at' = at /\ regs' = regs /\ mem' = mem /\ entry' = entry
  BY DEF vars, analysing, allocating, machine
<1>3. Preserved' = Preserved /\ OnPath' = OnPath /\ Running' = Running
  BY <1>2 DEF Preserved, OnPath, Running
<1> QED
  BY <1>1, <1>2, <1>3 DEF ExecutionInv

(* The prolog saves every register that the code may write, each to a slot *)
(* of its own.                                                             *)
LEMMA PrologKeeps ==
  ASSUME ExecutionInv, Prolog
  PROVE  ExecutionInv'
<1> DEFINE Addresses == {LocalAddress(frame, i) : i \in DOMAIN frame.locals} \cup {RAAddress(frame)}
           Saved(address) == {r \in DOMAIN saved_registers :
                                LocalAddress(frame, saved_registers[r]) = address}
<1>1. /\ FuncInv /\ ProgramInv /\ pass = "generate_prolog"
      /\ mem' = [address \in Addresses |->
                   IF Saved(address) = {} THEN ReturnAddress
                   ELSE regs'[CHOOSE r \in Saved(address) : TRUE]]
      /\ entry' = regs' /\ at' = <<1, 1>> /\ UNCHANGED <<vars, program>>
  BY DEF ExecutionInv, Prolog
<1>2. /\ pass' = pass /\ frame' = frame /\ saved_registers' = saved_registers
      /\ visited' = visited /\ program' = program
  BY <1>1 DEF vars, analysing, allocating
<1>3. /\ Numbered /\ frame \in Frames /\ Stacked(frame)
      /\ \A r \in DOMAIN saved_registers : saved_registers[r] \in DOMAIN frame.locals
      /\ \A q, r \in DOMAIN saved_registers :
           saved_registers[q] = saved_registers[r] => q = r
  BY <1>1, SettledFrame
<1>4. RAAddress(frame) \in Addresses /\ Saved(RAAddress(frame)) = {}
  BY <1>3, AddressesApart
<1>5. ASSUME NEW r \in DOMAIN saved_registers
      PROVE  LET address == LocalAddress(frame, saved_registers[r])
             IN  address \in Addresses /\ Saved(address) = {r}
  <2>1. \A q \in DOMAIN saved_registers :
          LocalAddress(frame, saved_registers[q]) = LocalAddress(frame, saved_registers[r])
            => q = r
    BY <1>3, AddressesApart
  <2> QED
    BY <1>3, <2>1
<1> HIDE DEF Addresses, Saved
<1>6. /\ RAAddress(frame) \in DOMAIN mem' /\ mem'[RAAddress(frame)] = ReturnAddress
      /\ \A r \in DOMAIN saved_registers :
           /\ LocalAddress(frame, saved_registers[r]) \in DOMAIN mem'
           /\ mem'[LocalAddress(frame, saved_registers[r])] = regs'[r]
  <2>1. \A r : (CHOOSE q \in {r} : TRUE) = r
    OBVIOUS
  <2> QED
    BY <1>1, <1>4, <1>5, <2>1
<1>7. Preserved'
  BY <1>1, <1>2, <1>6 DEF Preserved
<1>8. OnPath'
  <2>1. 1 \in visited /\ 1 \in DOMAIN program /\ program \in Functions
    BY <1>1, <1>3 DEF Numbered, ProgramInv, SameShape
  <2>2. 1 \in DOMAIN program[1].body
    BY <2>1, ProgramFacts
  <2> QED
    BY <1>1, <1>2, <2>1, <2>2 DEF OnPath
<1>9. FuncInv' /\ ProgramInv'
  BY <1>1, CodeStays
<1> QED
  BY <1>1, <1>2, <1>7, <1>8, <1>9 DEF ExecutionInv, Returned

(* What the allocator has made of the instruction that runs writes no      *)
(* register the prolog did not save, and stores to no slot but those of    *)
(* the operands that were spilled.                                         *)
LEMMA InstructionFacts ==
  ASSUME ExecutionInv, Running
  PROVE  /\ at[1] \in DOMAIN program /\ program \in Functions
         /\ Compiled(at[1], at[2])
         /\ program[at[1]].body[at[2]].label \in {NoLabel} \cup visited
         /\ Instruction.use \in Seq(Operands)
         /\ Defs(Instruction) \cap CalleeSaved \subseteq DOMAIN saved_registers
         /\ \A j \in DOMAIN Instruction.before : Instruction.before[j].reg \notin CalleeSaved
         /\ \A j \in DOMAIN Instruction.after :
              Instruction.after[j].slot \in
                {operand_spill_map[a] : a \in DOMAIN operand_spill_map}
<1>1. /\ FuncInv /\ ProgramInv /\ pass = "generate_prolog" /\ OnPath
      /\ AllocationHolds /\ Numbered
  BY SettledFrame DEF ExecutionInv, Running
<1>2. /\ SameShape /\ CompiledInstrs /\ program \in Functions
      /\ at[1] \in DOMAIN program /\ at[2] \in DOMAIN blocks[at[1]].body
  BY <1>1 DEF ProgramInv, Analysing, SameShape, OnPath, Numbered
<1>3. /\ Compiled(at[1], at[2])
      /\ program[at[1]].body[at[2]].label \in {NoLabel} \cup visited
  BY <1>1, <1>2 DEF CompiledInstrs, OnPath
<1>4. PICK n \in AllocatorProofs!InstrNumbers : num2instr[n + 1] = <<at[1], at[2]>>
  BY <1>1, <1>2 DEF Numbered, OnPath
<1>5. AllocatorProofs!InstrAt(n) = Instruction
  BY <1>4 DEF AllocatorProofs!InstrAt, AllocatorProofs!InstrNumbered, Instruction
<1>6. AllocatorProofs!InPlace(n) /\ AllocatorProofs!Reloads(n)
      /\ AllocatorProofs!SavesWhatItWrites(n)
  BY <1>1 DEF AllocationHolds, AllocatorProofs!CodeInv
<1>7. /\ Instruction \in AllocatorProofs!CodeInstrs /\ Instruction.use \in Seq(Operands)
      /\ Instruction.before \in Seq(AllocatorProofs!Accesses)
      /\ Instruction.after \in Seq(AllocatorProofs!Accesses)
  BY <1>5, <1>6 DEF AllocatorProofs!InPlace, AllocatorProofs!CodeInstrs,
     AllocatorProofs!Operands, Operands
<1>8. Defs(Instruction) \cap CalleeSaved \subseteq DOMAIN saved_registers
  BY <1>5, <1>6 DEF AllocatorProofs!SavesWhatItWrites, AllocatorProofs!Defs,
     AllocatorProofs!ToSet, Defs, ToSet
<1>9. ASSUME NEW j \in DOMAIN Instruction.before
      PROVE  Instruction.before[j].reg \notin CalleeSaved
  <2>1. j \in 1..3 /\ j \in 1..AllocatorProofs!Used(n)
    BY <1>5, <1>6, <1>7, LenProperties DEF AllocatorProofs!Reloads
  <2>2. PICK a : Instruction.before[j] =
                   AllocatorProofs!Access(operand_spill_map[a], AllocatorProofs!Temps(a)[j])
    BY <1>5, <1>6, <2>1 DEF AllocatorProofs!Reloads
  <2>3. AllocatorProofs!Temps(a)[j] \notin CalleeSaved
    BY <2>1, AllocatorAssumptions, AllocatorProofs!TempsProperties,
       AllocatorProofs!OperandAssumption, AllocatorProofs!InputAssumption,
       AllocatorProofs!TempsAssumption
  <2> QED
    BY <2>2, <2>3 DEF AllocatorProofs!Access
<1>10. ASSUME NEW j \in DOMAIN Instruction.after
       PROVE  Instruction.after[j].slot \in
                {operand_spill_map[a] : a \in DOMAIN operand_spill_map}
  <2>1. Instruction.after[j] \in AllocatorProofs!ToSet(Instruction.after)
    BY DEF AllocatorProofs!ToSet
  <2>2. PICK a \in DOMAIN operand_spill_map :
          Instruction.after[j] =
            AllocatorProofs!Access(operand_spill_map[a], AllocatorProofs!Temps(a)[1])
    BY <1>3, <2>1 DEF Compiled, Instruction, AllocatorProofs!CompiledTo,
       AllocatorProofs!StoresOnly, AllocatorProofs!Spilled
  <2> QED
    BY <2>2 DEF AllocatorProofs!Access
<1> QED
  BY <1>2, <1>3, <1>7, <1>8, <1>9, <1>10

(* The call that ends a block in place is still one in the compiled code.  *)
LEMMA SameTailCalls ==
  ASSUME ExecutionInv, Running
  PROVE  IsTailCall(blocks, at[1], at[2]) <=> IsTailCall(program, at[1], at[2])
<1>1. /\ at[1] \in DOMAIN program /\ program \in Functions /\ Compiled(at[1], at[2])
  BY InstructionFacts
<1>2. SameShape
  BY SettledFrame DEF ExecutionInv, Running, ProgramInv
<1>3. /\ Len(blocks) = Len(program)
      /\ Len(blocks[at[1]].body) = Len(program[at[1]].body)
  BY <1>1, <1>2, ShapeFacts
<1>4. blocks[at[1]].body[at[2]].label = program[at[1]].body[at[2]].label
  BY <1>1 DEF Compiled, AllocatorProofs!CompiledTo
<1> QED
  BY <1>3, <1>4 DEF IsTailCall

(* The instruction that ends a block but the last does not fall through.   *)
LEMMA StaysOnPath ==
  ASSUME ExecutionInv, Running, ~IsTailCall(blocks, at[1], at[2]),
         at[1] < Len(blocks) \/ at[2] < Len(blocks[at[1]].body),
         NEW next \in Jumps(Instruction) \cup FallsThrough(Instruction)
  PROVE  next[1] \in visited /\ next[2] \in DOMAIN program[next[1]].body
<1> DEFINE b == at[1]
           k == at[2]
           P == program[b].body[k]
<1>1. /\ b \in DOMAIN program /\ program \in Functions /\ Compiled(b, k)
      /\ P.label \in {NoLabel} \cup visited /\ Instruction.use \in Seq(Operands)
  BY InstructionFacts
<1>2. /\ FuncInv /\ ProgramInv /\ pass = "generate_prolog" /\ OnPath /\ Numbered
      /\ SameShape /\ visited \subseteq DOMAIN program
  BY SettledFrame DEF ExecutionInv, Running, ProgramInv, SameShape, Numbered
<1>3. /\ Len(blocks) = Len(program) /\ Len(blocks[b].body) = Len(program[b].body)
      /\ DOMAIN program = 1..Len(program) /\ Len(program) \in Nat
      /\ DOMAIN program[b].body = 1..Len(program[b].body) /\ Len(program[b].body) \in Nat \ {0}
  BY <1>1, <1>2, ShapeFacts, ProgramFacts
<1>4. Instruction.label = P.label /\ Len(Instruction.use) = Len(P.use)
  BY <1>1 DEF Compiled, AllocatorProofs!CompiledTo, Instruction
<1>5. CASE next \in Jumps(Instruction)
  <2>1. P.label # NoLabel /\ next = <<P.label, 1>>
    BY <1>4, <1>5 DEF Jumps
  <2>2. P.label \in visited
    BY <1>1, <2>1
  <2>3. 1 \in DOMAIN program[P.label].body
    BY <1>1, <1>2, <2>2, ProgramFacts
  <2> QED
    BY <2>1, <2>2, <2>3
<1>6. CASE next \in FallsThrough(Instruction)
  <2>1. next = <<b, k + 1>> /\ ~(Instruction.label # NoLabel /\ Instruction.use = <<>>)
    BY <1>6 DEF FallsThrough
  <2>2. b \in visited /\ k \in 1..Len(program[b].body)
    BY <1>2, <1>3 DEF OnPath
  <2>3. k < Len(program[b].body)
    <3> SUFFICES ASSUME k = Len(program[b].body)
                 PROVE  FALSE
      BY <1>3, <2>2
    <3>1. b < Len(program)
      BY <1>3
    <3>2. P.label # NoLabel /\ P.use = <<>>
      <4>1. P.label # NoLabel
        BY <3>1, SameTailCalls DEF IsTailCall
      <4> QED
        BY <1>1, <3>1, <4>1, JumpsAssumption DEF Last
    <3>3. Instruction.use = <<>>
      BY <1>1, <1>4, <3>2, EmptySeq
    <3> QED
      BY <1>4, <2>1, <3>2, <3>3
  <2> QED
    BY <1>3, <2>1, <2>2, <2>3
<1> QED
  BY <1>5, <1>6

LEMMA RunKeeps ==
  ASSUME ExecutionInv, Run
  PROVE  ExecutionInv'
<1> DEFINE instr == Instruction
           before == Reloaded(instr)
<1>1. /\ FuncInv /\ ProgramInv /\ pass = "generate_prolog" /\ Preserved
      /\ program \in Functions
  BY InstructionFacts DEF ExecutionInv, Run, Running
<1>2. Running /\ UNCHANGED <<vars, program, entry>>
  BY DEF Run
<1>3. /\ pass' = pass /\ frame' = frame /\ saved_registers' = saved_registers
      /\ visited' = visited /\ program' = program /\ entry' = entry
  BY <1>2 DEF vars, analysing, allocating
<1>4. /\ at' \in Jumps(instr) \cup FallsThrough(instr) /\ mem' = Stored(instr, regs')
      /\ \E v \in Value : regs' = [r \in Physical |-> IF r \in Defs(instr) THEN v ELSE before[r]]
  BY DEF Run
<1>5. /\ Defs(instr) \cap CalleeSaved \subseteq DOMAIN saved_registers
      /\ \A j \in DOMAIN instr.before : instr.before[j].reg \notin CalleeSaved
      /\ \A j \in DOMAIN instr.after :
           instr.after[j].slot \in {operand_spill_map[a] : a \in DOMAIN operand_spill_map}
  BY <1>2, InstructionFacts
<1>6. ASSUME NEW r \in CalleeSaved \ DOMAIN saved_registers
      PROVE  regs'[r] = entry'[r]
  <2>1. r \in Physical /\ r \notin Defs(instr)
    BY <1>5, OperandAssumption
  <2>2. before[r] = regs[r]
    BY <1>5, <2>1 DEF Reloaded
  <2> HIDE DEF before, instr
  <2>3. regs'[r] = before[r]
    BY <1>4, <2>1
  <2> QED
    BY <1>1, <1>3, <2>2, <2>3 DEF Preserved
<1>7. /\ frame \in Frames /\ Stacked(frame)
      /\ \A r \in DOMAIN saved_registers : saved_registers[r] \in DOMAIN frame.locals
      /\ \A a \in DOMAIN operand_spill_map : operand_spill_map[a] \in DOMAIN frame.locals
      /\ \A a \in DOMAIN operand_spill_map, r \in DOMAIN saved_registers :
           operand_spill_map[a] # saved_registers[r]
  BY <1>1, SettledFrame
<1>8. ASSUME NEW address \in DOMAIN mem,
             \A a \in DOMAIN operand_spill_map :
               LocalAddress(frame, operand_spill_map[a]) # address
      PROVE  address \in DOMAIN mem' /\ mem'[address] = mem[address]
  <2>1. {j \in DOMAIN instr.after : LocalAddress(frame, instr.after[j].slot) = address} = {}
    BY <1>5, <1>8
  <2> QED
    BY <1>4, <1>8, <2>1 DEF Stored
<1>9. RAAddress(frame) \in DOMAIN mem' /\ mem'[RAAddress(frame)] = ReturnAddress
  BY <1>1, <1>7, <1>8, AddressesApart DEF Preserved
<1>10. ASSUME NEW r \in DOMAIN saved_registers
       PROVE  /\ LocalAddress(frame, saved_registers[r]) \in DOMAIN mem'
              /\ mem'[LocalAddress(frame, saved_registers[r])] = entry[r]
  <2>1. \A a \in DOMAIN operand_spill_map :
          LocalAddress(frame, operand_spill_map[a]) # LocalAddress(frame, saved_registers[r])
    BY <1>7, AddressesApart
  <2> QED
    BY <1>1, <1>8, <2>1 DEF Preserved
<1>11. Preserved'
  BY <1>3, <1>6, <1>9, <1>10 DEF Preserved
<1>12. at'[1] \in visited /\ at'[2] \in DOMAIN program[at'[1]].body
  BY <1>2, <1>4, StaysOnPath DEF Run
<1>13. OnPath' /\ at' # Returned /\ at' # NotStarted
  <2>1. 0 \notin visited
    BY <1>1, SettledFrame, ProgramFacts DEF Numbered, ProgramInv, SameShape
  <2> QED
    BY <1>3, <1>12, <2>1 DEF OnPath, Returned, NotStarted
<1>14. FuncInv' /\ ProgramInv'
  BY <1>2, CodeStays
<1> QED
  BY <1>1, <1>3, <1>11, <1>13, <1>14 DEF ExecutionInv

(* A tail call leaves the frame alone and the registers nobody saved, too. *)
LEMMA TailCallKeeps ==
  ASSUME ExecutionInv, TailCall
  PROVE  ExecutionInv'
<1>1. /\ FuncInv /\ ProgramInv /\ pass = "generate_prolog" /\ Preserved /\ Running
      /\ program \in Functions
      /\ \A j \in DOMAIN Instruction.before : Instruction.before[j].reg \notin CalleeSaved
  BY InstructionFacts DEF ExecutionInv, TailCall, Running
<1>2. /\ UNCHANGED <<vars, program, mem, entry>> /\ at' = <<1, 1>>
      /\ \E v \in Value : regs' = [Reloaded(Instruction) EXCEPT ![IntTemps[1]] = v]
  BY DEF TailCall
<1>3. /\ pass' = pass /\ frame' = frame /\ saved_registers' = saved_registers
      /\ visited' = visited /\ program' = program /\ mem' = mem /\ entry' = entry
  BY <1>2 DEF vars, analysing, allocating
<1>4. ASSUME NEW r \in CalleeSaved
      PROVE  regs'[r] = regs[r]
  <2>1. r \in Physical /\ r # IntTemps[1]
    BY OperandAssumption, TempsAssumption DEF TempsAreFit
  <2>2. Reloaded(Instruction)[r] = regs[r]
    BY <1>1, <2>1 DEF Reloaded
  <2>3. DOMAIN Reloaded(Instruction) = Physical
    BY DEF Reloaded
  <2> QED
    BY <1>2, <2>1, <2>2, <2>3
<1>5. Preserved'
  BY <1>1, <1>3, <1>4 DEF Preserved
<1>6. OnPath'
  <2>1. 1 \in visited /\ 1 \in DOMAIN program
    BY <1>1, SettledFrame DEF Numbered, ProgramInv, SameShape
  <2>2. 1 \in DOMAIN program[1].body
    BY <1>1, <2>1, ProgramFacts
  <2> QED
    BY <1>2, <1>3, <2>1, <2>2 DEF OnPath
<1>7. FuncInv' /\ ProgramInv'
  BY <1>2, CodeStays
<1> QED
  BY <1>1, <1>2, <1>3, <1>5, <1>6, <1>7 DEF ExecutionInv, Returned

(* The epilog gives back what was saved.                                   *)
LEMMA EpilogKeeps ==
  ASSUME ExecutionInv, Epilog
  PROVE  ExecutionInv'
<1>1. /\ FuncInv /\ ProgramInv /\ pass = "generate_prolog" /\ Preserved
  BY DEF ExecutionInv, Epilog, Running
<1>2. /\ UNCHANGED <<vars, program, mem, entry>> /\ at' = Returned
      /\ regs' = [r \in Physical |->
           IF r \in DOMAIN saved_registers
             THEN mem[LocalAddress(frame, saved_registers[r])] ELSE regs[r]]
  BY DEF Epilog
<1>3. /\ pass' = pass /\ frame' = frame /\ saved_registers' = saved_registers
      /\ mem' = mem /\ entry' = entry
  BY <1>2 DEF vars, allocating
<1>4. ASSUME NEW r \in CalleeSaved
      PROVE  regs'[r] = entry[r]
  BY <1>1, <1>2, OperandAssumption DEF Preserved
<1>5. Preserved'
  BY <1>1, <1>3, <1>4 DEF Preserved
<1>6. FuncInv' /\ ProgramInv'
  BY <1>2, CodeStays
<1> QED
  BY <1>1, <1>2, <1>3, <1>4, <1>5, <1>6 DEF ExecutionInv, Running, NotStarted, Returned

LEMMA NextExecution ==
  ExecutionInv /\ [ExecutionNext]_<<vars, program, machine>> => ExecutionInv'
BY CompileKeeps, PrologKeeps, RunKeeps, TailCallKeeps, EpilogKeeps, StutteringKeeps
   DEF ExecutionNext

(* Whatever function instruction selection produces, and along whatever    *)
(* path it runs: the caller finds its callee-saved registers as they were, *)
(* and ra is what the function returns to.  rewrite_operands has added a   *)
(* slot for every register it lets the code write, the prolog has filled   *)
(* it, and no store of spill goes there or to ra.                          *)
THEOREM CallerGetsItsStateBack == ExecutionSpec => []CallerStateRestored
<1>1. ExecutionInv => CallerStateRestored
  BY DEF ExecutionInv, CallerStateRestored, Preserved, Returned, NotStarted
<1> QED
  BY <1>1, InitExecution, NextExecution, PTL DEF ExecutionSpec

-----------------------------------------------------------------------------
(* The refinement.  What the analysis has found of the code, stated of the *)
(* code as it was selected.                                                *)
LivePoint(b, k) == Analysis!LiveAfter(program[b].body, k, OUTs[b])

LEMMA LivePointIs ==
  ASSUME NEW b, NEW k, NEW o
  PROVE  LET body == program[b].body
         IN  o \in LivePoint(b, k) <=>
               \/ /\ o \in OUTs[b]
                  /\ \A i \in (k + 1)..((Len(body) + 1) - 1) : o \notin Defs(body[i])
               \/ \E j \in (k + 1)..Len(body) :
                    o \in Uses(body[j]) /\ \A i \in (k + 1)..(j - 1) : o \notin Defs(body[i])
BY DEF LivePoint, Analysis!LiveAfter, Analysis!Defs, Defs, Analysis!Uses, Uses,
   Analysis!ToSet, ToSet

LEMMA LiveBefore ==
  ASSUME NEW b, Len(program[b].body) \in Nat, NEW k \in 1..Len(program[b].body)
  PROVE  LivePoint(b, k - 1) =
           Uses(program[b].body[k]) \cup (LivePoint(b, k) \ Defs(program[b].body[k]))
<1> DEFINE body == program[b].body
           n == Len(body)
<1>1. n \in Nat /\ k \in 1..n /\ (k - 1) + 1 = k /\ (n + 1) - 1 = n
  OBVIOUS
<1>2. ASSUME NEW o
      PROVE  o \in LivePoint(b, k - 1) <=>
               o \in Uses(body[k]) \/ (o \in LivePoint(b, k) /\ o \notin Defs(body[k]))
  <2>1. o \in LivePoint(b, k - 1) <=>
          \/ o \in OUTs[b] /\ \A i \in k..n : o \notin Defs(body[i])
          \/ \E j \in k..n : o \in Uses(body[j]) /\ \A i \in k..(j - 1) : o \notin Defs(body[i])
    BY <1>1, LivePointIs
  <2>2. o \in LivePoint(b, k) <=>
          \/ o \in OUTs[b] /\ \A i \in (k + 1)..n : o \notin Defs(body[i])
          \/ \E j \in (k + 1)..n :
               o \in Uses(body[j]) /\ \A i \in (k + 1)..(j - 1) : o \notin Defs(body[i])
    BY <1>1, LivePointIs
  <2> HIDE DEF body, n
  <2>3. (\A i \in k..n : o \notin Defs(body[i])) <=>
          o \notin Defs(body[k]) /\ \A i \in (k + 1)..n : o \notin Defs(body[i])
    BY <1>1
  <2>4. \A j \in (k + 1)..n :
          (\A i \in k..(j - 1) : o \notin Defs(body[i])) <=>
            o \notin Defs(body[k]) /\ \A i \in (k + 1)..(j - 1) : o \notin Defs(body[i])
    BY <1>1
  <2>5. k \in k..n /\ \A i : i \notin k..(k - 1)
    BY <1>1
  <2>6. \A j : j \in k..n <=> j = k \/ j \in (k + 1)..n
    BY <1>1
  <2> QED
    BY <2>1, <2>2, <2>3, <2>4, <2>5, <2>6
<1> QED
  BY <1>2

(* Nothing is written behind a jump, so that what is live at the end of    *)
(* the block is live there.                                                *)
LEMMA LiveBehindJump ==
  ASSUME NEW b, Len(program[b].body) \in Nat, NEW k \in 1..Len(program[b].body),
         \A j \in (k + 1)..Len(program[b].body) : Defs(program[b].body[j]) = {}
  PROVE  OUTs[b] \subseteq LivePoint(b, k)
<1>1. (Len(program[b].body) + 1) - 1 = Len(program[b].body)
  OBVIOUS
<1> QED
  BY <1>1, LivePointIs, Zenon

LEMMA SameLive ==
  ASSUME SameShape, SameInstrs, NEW b \in DOMAIN program,
         NEW k \in 0..Len(program[b].body)
  PROVE  AnalysisProofs!LiveAfter(blocks[b].body, k, OUTs[b]) = LivePoint(b, k)
<1> DEFINE body == program[b].body
           n == Len(body)
<1>1. n \in Nat /\ DOMAIN body = 1..n /\ Len(blocks[b].body) = n /\ (n + 1) - 1 = n
  BY ShapeFacts, ProgramFacts DEF SameShape
<1>2. \A j \in 1..n : /\ AnalysisProofs!Defs(blocks[b].body[j]) = Defs(body[j])
                       /\ AnalysisProofs!Uses(blocks[b].body[j]) = Uses(body[j])
  BY <1>1 DEF SameInstrs, AnalysisProofs!Defs, AnalysisProofs!Uses, Defs, Uses,
     AnalysisProofs!ToSet, ToSet
<1>3. ASSUME NEW o
      PROVE  o \in AnalysisProofs!LiveAfter(blocks[b].body, k, OUTs[b]) <=> o \in LivePoint(b, k)
  <2>1. o \in LivePoint(b, k) <=>
          \/ o \in OUTs[b] /\ \A i \in (k + 1)..n : o \notin Defs(body[i])
          \/ \E j \in (k + 1)..n :
               o \in Uses(body[j]) /\ \A i \in (k + 1)..(j - 1) : o \notin Defs(body[i])
    BY <1>1, LivePointIs
  <2>2. o \in AnalysisProofs!LiveAfter(blocks[b].body, k, OUTs[b]) <=>
          \/ /\ o \in OUTs[b]
             /\ \A i \in (k + 1)..n : o \notin AnalysisProofs!Defs(blocks[b].body[i])
          \/ \E j \in (k + 1)..n :
               /\ o \in AnalysisProofs!Uses(blocks[b].body[j])
               /\ \A i \in (k + 1)..(j - 1) : o \notin AnalysisProofs!Defs(blocks[b].body[i])
    BY <1>1 DEF AnalysisProofs!LiveAfter
  <2> HIDE DEF body, n
  <2>3. /\ \A i \in (k + 1)..n : i \in 1..n
        /\ \A j \in (k + 1)..n : \A i \in (k + 1)..(j - 1) : i \in 1..n
    BY <1>1
  <2> QED
    BY <1>2, <2>1, <2>2, <2>3
<1> QED
  BY <1>3

(* What is live has a range and is no temporary of spill's, what is        *)
(* written conflicts with it, it flows along jumps, and on entry it is in  *)
(* physical registers.                                                     *)
AnalysedBlock(b) ==
  /\ \A k \in 0..Len(program[b].body) : \A o \in LivePoint(b, k) :
       o \in Operands \ Temporaries /\ live_ranges[o] # {}
  /\ \A k \in DOMAIN program[b].body : \A x \in Defs(program[b].body[k]) :
       \A y \in LivePoint(b, k) \ {x} : AnyConflict(live_ranges[x], live_ranges[y])
  /\ \A k \in DOMAIN program[b].body :
       LET l == program[b].body[k].label
       IN  l # NoLabel => LivePoint(l, 0) \subseteq OUTs[b]

AnalysedProgram ==
  /\ \A b \in visited : AnalysedBlock(b)
  /\ LivePoint(1, 0) \cap Virtual = {}

LEMMA AnalysisIsOfProgram ==
  ASSUME AnalysisHolds, pass = "allocate_hint", SameShape, SameInstrs
  PROVE  AnalysedProgram
<1>1. /\ AnalysisProofs!SolvedInv /\ AnalysisProofs!Analysed /\ AnalysisProofs!AnalysisInv
      /\ AnalysisProofs!OperandAssumption /\ AnalysisProofs!FunctionsAssumption
  BY AnalysisAssumptions DEF AnalysisHolds, AnalysisProofs!HandoverInv,
     AnalysisProofs!SolvedInv, AnalysisProofs!Analysed
<1>2. /\ AnalysisProofs!Block = DOMAIN program /\ Len(blocks) = Len(program)
      /\ DOMAIN program = 1..Len(program) /\ Len(program) \in Nat \ {0}
      /\ program \in Functions /\ visited \subseteq DOMAIN program
  BY <1>1, ShapeFacts, ProgramFacts DEF SameShape, AnalysisProofs!Block,
     AnalysisProofs!SolvedInv, AnalysisProofs!AnalysisInv, AnalysisProofs!PlacedInv,
     AnalysisProofs!Typed, AnalysisProofs!TypeOK
<1>3. ASSUME NEW b \in DOMAIN program
      PROVE  /\ Len(program[b].body) \in Nat /\ Len(blocks[b].body) = Len(program[b].body)
             /\ DOMAIN program[b].body = 1..Len(program[b].body)
             /\ \A k \in DOMAIN program[b].body :
                  /\ AnalysisProofs!Defs(blocks[b].body[k]) = Defs(program[b].body[k])
                  /\ AnalysisProofs!Uses(blocks[b].body[k]) = Uses(program[b].body[k])
                  /\ blocks[b].body[k].label = program[b].body[k].label
  BY <1>2, ShapeFacts, ProgramFacts DEF SameInstrs, AnalysisProofs!Defs,
     AnalysisProofs!Uses, Defs, Uses, AnalysisProofs!ToSet, ToSet
<1>4. ASSUME NEW b \in DOMAIN program, NEW k \in 0..Len(program[b].body),
             NEW o \in LivePoint(b, k)
      PROVE  o \in Operands \ Temporaries /\ live_ranges[o] # {}
  <2>1. o \in AnalysisProofs!LiveAfter(blocks[b].body, k, OUTs[b])
    BY SameLive
  <2>2. /\ o \in AnalysisProofs!Operands /\ live_ranges[o] # {}
        /\ \E c \in AnalysisProofs!Block : \E j \in 1..Len(blocks[c].body) :
             o \in AnalysisProofs!Uses(blocks[c].body[j])
    BY <1>1, <1>2, <1>3, <2>1, AnalysisProofs!LiveIsRead
  <2>3. PICK c \in DOMAIN program : \E j \in DOMAIN program[c].body :
          o \in Uses(program[c].body[j])
    BY <1>2, <1>3, <2>2
  <2>4. o \notin Temporaries
    BY <1>2, <2>3, ReadsAssumption
  <2> QED
    BY <2>2, <2>4 DEF Operands, AnalysisProofs!Operands
<1>5. ASSUME NEW b \in visited, NEW k \in DOMAIN program[b].body,
             NEW x \in Defs(program[b].body[k]), NEW y \in LivePoint(b, k) \ {x}
      PROVE  AnyConflict(live_ranges[x], live_ranges[y])
  <2>1. b \in DOMAIN program /\ k \in 1..Len(program[b].body)
    BY <1>2, <1>3
  <2>2. k \in 0..Len(program[b].body) /\ k \in 1..Len(blocks[b].body)
    BY <1>3, <2>1
  <2>3. /\ x \in AnalysisProofs!Defs(blocks[b].body[k])
        /\ y \in AnalysisProofs!LiveAfter(blocks[b].body, k, OUTs[b]) \ {x}
    BY <1>3, <2>1, <2>2, SameLive
  <2>4. AnalysisProofs!AnyConflict(live_ranges[x], live_ranges[y])
    BY <1>1, <2>2, <2>3, AnalysisProofs!LiveConflicts
  <2> QED
    BY <2>4 DEF AnyConflict, conflict, AnalysisProofs!AnyConflict, AnalysisProofs!conflict
<1>6. ASSUME NEW b \in DOMAIN program, NEW k \in DOMAIN program[b].body,
             program[b].body[k].label # NoLabel
      PROVE  LivePoint(program[b].body[k].label, 0) \subseteq OUTs[b]
  <2> DEFINE l == program[b].body[k].label
  <2>1. /\ b \in AnalysisProofs!Block /\ k \in 1..Len(blocks[b].body)
        /\ blocks[b].body[k].label = l /\ l # AnalysisProofs!NoLabel
    BY <1>2, <1>3, <1>6 DEF NoLabel, AnalysisProofs!NoLabel
  <2> HIDE DEF l
  <2>2. /\ l \in AnalysisProofs!Block
        /\ AnalysisProofs!LiveAfter(blocks[l].body, 0, OUTs[l]) \subseteq OUTs[b]
    BY <1>1, <2>1, AnalysisProofs!LiveAcrossJump
  <2>3. l \in DOMAIN program /\ 0 \in 0..Len(program[l].body)
    BY <1>2, <1>3, <2>2
  <2> QED
    BY <2>2, <2>3, SameLive DEF l
<1>7. ASSUME NEW o \in LivePoint(1, 0) \cap Virtual
      PROVE  FALSE
  <2>1. 1 \in DOMAIN program
    BY <1>2
  <2>2. o \in AnalysisProofs!LiveAfter(blocks[1].body, 0, OUTs[1])
    BY <1>3, <2>1, SameLive
  <2>3. PICK p \in Seq(AnalysisProofs!Block) :
          /\ Len(p) \in 1..Len(blocks) /\ p[1] = 1
          /\ \A i \in 1..(Len(p) - 1) :
               /\ \E k \in 1..Len(blocks[p[i]].body) : blocks[p[i]].body[k].label = p[i + 1]
               /\ ~AnalysisProofs!Written(blocks[p[i]].body, o)
          /\ AnalysisProofs!ReadFirst(blocks[p[Len(p)]].body, o)
    BY <1>1, <2>2, AnalysisProofs!LiveOnEntry
  <2> DEFINE n == Len(p)
  <2>4. n \in 1..Len(program) /\ p \in [1..n -> DOMAIN program]
    BY <1>2, <2>3, LenProperties
  <2> HIDE DEF n
  <2>5. \A i \in 1..n : p[i] \in DOMAIN program
    BY <2>4
  <2>6. n \in 1..n /\ \A i \in 1..(n - 1) : i \in 1..n
    BY <1>2, <2>4
  <2>7. ASSUME NEW i \in 1..(n - 1)
        PROVE  /\ \E k \in DOMAIN program[p[i]].body : program[p[i]].body[k].label = p[i + 1]
               /\ ~WrittenIn(program[p[i]].body, o)
    <3>1. p[i] \in DOMAIN program
      BY <2>5, <2>6
    <3>2. PICK c \in DOMAIN program : c = p[i]
      BY <3>1
    <3>3. /\ \E k \in 1..Len(blocks[c].body) : blocks[c].body[k].label = p[i + 1]
          /\ ~AnalysisProofs!Written(blocks[c].body, o)
      BY <2>3, <3>2 DEF n
    <3>4. \E k \in DOMAIN program[c].body : program[c].body[k].label = p[i + 1]
      BY <1>3, <3>3
    <3>5. ~WrittenIn(program[c].body, o)
      BY <1>3, <3>3 DEF WrittenIn, AnalysisProofs!Written
    <3> QED
      BY <3>2, <3>4, <3>5
  <2>8. p \in Ways(program)
    <3>1. p \in UNION {[1..m -> DOMAIN program] : m \in 1..Len(program)}
      BY <2>4
    <3> QED
      BY <2>3, <2>7, <3>1, Zenon DEF Ways, n
  <2>9. PICK c \in DOMAIN program : c = p[Len(p)]
    BY <2>5, <2>6 DEF n
  <2>10. AnalysisProofs!ReadFirst(blocks[c].body, o)
    BY <2>3, <2>9
  <2>11. PICK k \in DOMAIN program[c].body :
           /\ o \in Uses(program[c].body[k])
           /\ \A j \in 1..(k - 1) : o \notin Defs(program[c].body[j])
    <3>1. PICK k \in 1..Len(blocks[c].body) :
            /\ o \in AnalysisProofs!Uses(blocks[c].body[k])
            /\ \A j \in 1..(k - 1) : o \notin AnalysisProofs!Defs(blocks[c].body[j])
      BY <2>10 DEF AnalysisProofs!ReadFirst
    <3>2. k \in DOMAIN program[c].body /\ \A j \in 1..(k - 1) : j \in DOMAIN program[c].body
      BY <1>3, <3>1
    <3> QED
      BY <1>3, <3>1, <3>2
  <2> QED
    BY <1>2, <2>7, <2>8, <2>9, <2>11, WrittenAssumption DEF n
<1> QED
  BY <1>2, <1>4, <1>5, <1>6, <1>7 DEF AnalysedProgram, AnalysedBlock

RefineInv ==
  /\ ExecutionInv
  /\ pass \notin Analysing => AnalysedProgram
  /\ at # NotStarted =>
       /\ Value # {}
       /\ \A i \in DOMAIN frame.locals : LocalAddress(frame, i) \in DOMAIN mem

LEMMA AnalysedStays ==
  ASSUME AnalysedProgram, UNCHANGED <<visited, OUTs, live_ranges, program>>
  PROVE  AnalysedProgram'
<1>1. \A b, k : LivePoint(b, k)' = LivePoint(b, k)
  BY DEF LivePoint
<1>2. \A b : AnalysedBlock(b)' = AnalysedBlock(b)
  BY <1>1 DEF AnalysedBlock
<1> QED
  BY <1>1, <1>2 DEF AnalysedProgram

LEMMA CompileAnalyses ==
  ASSUME FuncInv, ProgramInv, pass \notin Analysing => AnalysedProgram, Next,
         program' = program
  PROVE  pass' \notin Analysing => AnalysedProgram'
<1>1. CASE Analyse
  BY <1>1, SameAnalysis, AnalysisProofs!NextPass, AnalysisAssumptions,
     AnalysisProofs!OperandAssumption, AnalysisProofs!FunctionsAssumption
     DEF Analyse, Analysing
<1>2. CASE Allocate
  <2>1. AnalysedProgram
    <3>1. CASE pass \in Analysing
      <4>1. pass = "allocate_hint"
        BY <1>2, <3>1, SameAllocator, AllocatorProofs!NextPass, AllocatorAssumptions,
           AllocatorProofs!OperandAssumption, AllocatorProofs!InputAssumption,
           AllocatorProofs!TempsAssumption DEF Allocate, Analysing, AllocatorProofs!Passes
      <4> QED
        BY <3>1, <4>1, AnalysisIsOfProgram DEF FuncInv, ProgramInv
    <3> QED
      BY <3>1
  <2>2. [AllocatorProofs!Next]_(AllocatorProofs!vars) /\ UNCHANGED <<visited, OUTs>>
    BY <1>2, SameAllocator DEF Allocate, analysing
  <2>3. live_ranges' = live_ranges
    BY <2>2, AllocatorProofs!NextKeepsPlaces, AllocatorAssumptions
  <2> QED
    BY <2>1, <2>2, <2>3, AnalysedStays
<1> QED
  BY <1>1, <1>2 DEF Next

LEMMA InitRefines == ExecutionInit => RefineInv
<1> SUFFICES ASSUME ExecutionInit PROVE RefineInv
  OBVIOUS
<1>1. pass \in Analysing /\ at = NotStarted
  BY SameAnalysisInit DEF ExecutionInit, Init, AnalysisProofs!Init, Analysing
<1> QED
  BY <1>1, InitExecution DEF RefineInv

(* A step of the machine, with the code compiled.                          *)
LEMMA MachineStepRefines ==
  ASSUME RefineInv, ExecutionInv', UNCHANGED <<vars, program>>,
         Prolog \/ Run \/ TailCall \/ Epilog
  PROVE  RefineInv'
<1>1. /\ pass' = pass /\ frame' = frame /\ visited' = visited /\ OUTs' = OUTs
      /\ live_ranges' = live_ranges /\ program' = program
  BY DEF vars, analysing, allocating
<1>2. pass' \notin Analysing => AnalysedProgram'
  BY <1>1, AnalysedStays DEF RefineInv
<1>3. Value # {} /\ \A i \in DOMAIN frame.locals : LocalAddress(frame, i) \in DOMAIN mem'
  <2>1. CASE Prolog
    BY <2>1 DEF Prolog
  <2>2. CASE Run
    <3>1. at # NotStarted /\ DOMAIN mem' = DOMAIN mem
      BY <2>2 DEF Run, Running, Stored
    <3> QED
      BY <3>1 DEF RefineInv
  <2>3. CASE TailCall \/ Epilog
    <3>1. at # NotStarted /\ mem' = mem
      BY <2>3 DEF TailCall, Epilog, Running
    <3> QED
      BY <3>1 DEF RefineInv
  <2> QED
    BY <2>1, <2>2, <2>3
<1> QED
  BY <1>1, <1>2, <1>3 DEF RefineInv

LEMMA NextRefines ==
  ASSUME RefineInv, [ExecutionNext]_<<vars, program, machine>>
  PROVE  RefineInv'
<1>1. ExecutionInv'
  BY NextExecution DEF RefineInv
<1>2. CASE Compile
  <2>1. at = NotStarted /\ at' = NotStarted /\ program' = program
    BY <1>2, PassesAreDone DEF RefineInv, ExecutionInv, Compile, machine
  <2>2. pass' \notin Analysing => AnalysedProgram'
    BY <1>2, <2>1, CompileAnalyses DEF RefineInv, ExecutionInv, Compile
  <2> QED
    BY <1>1, <2>1, <2>2 DEF RefineInv
<1>3. CASE Prolog \/ Run \/ TailCall \/ Epilog
  BY <1>1, <1>3, MachineStepRefines DEF Prolog, Run, TailCall, Epilog
<1>4. CASE UNCHANGED <<vars, program, machine>>
  <2>1. /\ pass' = pass /\ frame' = frame /\ visited' = visited /\ OUTs' = OUTs
        /\ live_ranges' = live_ranges /\ program' = program /\ at' = at /\ mem' = mem
    BY <1>4 DEF vars, analysing, allocating, machine
  <2>2. pass' \notin Analysing => AnalysedProgram'
    BY <2>1, AnalysedStays DEF RefineInv
  <2> QED
    BY <1>1, <2>1, <2>2 DEF RefineInv
<1> QED
  BY <1>2, <1>3, <1>4 DEF ExecutionNext

-----------------------------------------------------------------------------
(* What the passes have settled: an operand with a range has a slot of its *)
(* own or a register nothing that conflicts with it is given.              *)
LEMMA SettledPlaces ==
  ASSUME FuncInv, pass = "generate_prolog"
  PROVE  /\ DOMAIN alloc_map \subseteq Virtual /\ DOMAIN operand_spill_map \subseteq Virtual
         /\ DOMAIN alloc_map \cap DOMAIN operand_spill_map = {}
         /\ rewritten = DOMAIN alloc_map /\ DOMAIN saved_registers \subseteq CalleeSaved
         /\ \A a \in DOMAIN alloc_map : alloc_map[a] \in Allocatable
         /\ \A o \in Virtual :
              live_ranges[o] # {} => o \in DOMAIN alloc_map \cup DOMAIN operand_spill_map
         /\ \A a, c \in DOMAIN operand_spill_map :
              operand_spill_map[a] = operand_spill_map[c] => a = c
         /\ \A a \in DOMAIN alloc_map :
              /\ ~AnyConflict(live_ranges[a], live_ranges[alloc_map[a]])
              /\ \A c \in DOMAIN alloc_map :
                   a # c /\ alloc_map[a] = alloc_map[c] =>
                     ~AnyConflict(live_ranges[a], live_ranges[c])
         /\ \A o \in Operands : \A r \in live_ranges[o] : IsRange(r)
<1>1. /\ AllocatorProofs!IInv /\ AllocatorProofs!SlotsInv /\ AllocatorProofs!CodeInv
  BY SettledFrame DEF AllocationHolds
<1>2. /\ AllocatorProofs!TypeOK /\ AllocatorProofs!Placement /\ AllocatorProofs!NoClobber
      /\ AllocatorProofs!RangesOK
  BY <1>1 DEF AllocatorProofs!IInv, AllocatorProofs!AllocInv
<1>3. rewritten = DOMAIN alloc_map
  BY <1>1 DEF AllocatorProofs!CodeInv, AllocatorProofs!Finished
<1>4. /\ DOMAIN alloc_map \subseteq Virtual /\ DOMAIN operand_spill_map \subseteq Virtual
      /\ DOMAIN saved_registers \subseteq CalleeSaved
      /\ \A a \in DOMAIN alloc_map : alloc_map[a] \in Allocatable
  BY <1>2 DEF AllocatorProofs!TypeOK, AllocatorProofs!Allocs, AllocatorProofs!Allocatable,
     Allocatable, AllocatorProofs!ToSet, ToSet
<1>5. /\ DOMAIN alloc_map \cap DOMAIN operand_spill_map = {}
      /\ \A o \in Virtual :
           live_ranges[o] # {} => o \in DOMAIN alloc_map \cup DOMAIN operand_spill_map
  BY <1>2 DEF AllocatorProofs!Placement, AllocatorProofs!Allocating,
     AllocatorProofs!Allocated, AllocatorProofs!Allocs
<1>6. \A a, c \in DOMAIN operand_spill_map :
        operand_spill_map[a] = operand_spill_map[c] => a = c
  BY <1>1 DEF AllocatorProofs!SlotsInv, AllocatorProofs!IsInjective
<1>7. \A a \in DOMAIN alloc_map :
        /\ ~AnyConflict(live_ranges[a], live_ranges[alloc_map[a]])
        /\ \A c \in DOMAIN alloc_map :
             a # c /\ alloc_map[a] = alloc_map[c] =>
               ~AnyConflict(live_ranges[a], live_ranges[c])
  BY <1>2 DEF AllocatorProofs!NoClobber, AllocatorProofs!AnyConflict,
     AllocatorProofs!conflict, AnyConflict, conflict
<1>8. \A o \in Operands : \A r \in live_ranges[o] : IsRange(r)
  BY <1>2 DEF AllocatorProofs!RangesOK, AllocatorProofs!InOrder, AllocatorProofs!IsRange,
     IsRange, AllocatorProofs!Operands, Operands
<1> QED
  BY <1>3, <1>4, <1>5, <1>6, <1>7, <1>8

LEMMA AnyConflictSymmetric ==
  ASSUME NEW S, NEW T, \A r \in S : IsRange(r), \A r \in T : IsRange(r), AnyConflict(S, T)
  PROVE  AnyConflict(T, S)
BY ConflictSymmetric DEF AnyConflict

LEMMA TemporariesApart ==
  /\ Temporaries \subseteq Physical /\ Temporaries \cap Allocatable = {}
  /\ \A a : \A j \in 1..3 : AllocatorProofs!Temps(a)[j] \in Temporaries
<1>1. /\ IntTemps \in [1..3 -> Physical \ (Allocatable \cup CalleeSaved)]
      /\ FloatTemps \in [1..3 -> Physical \ (Allocatable \cup CalleeSaved)]
  BY TempsAssumption DEF TempsAreFit
<1>2. \A a : AllocatorProofs!Temps(a) \in {IntTemps, FloatTemps}
  BY DEF AllocatorProofs!Temps
<1> QED
  BY <1>1, <1>2 DEF Temporaries, ToSet

(* The register of an operand that is not spilled.                         *)
Place(o) == IF o \in DOMAIN alloc_map THEN alloc_map[o] ELSE o

LEMMA LivePlace ==
  ASSUME FuncInv, pass = "generate_prolog", NEW o \in Operands \ Temporaries,
         live_ranges[o] # {}, o \notin DOMAIN operand_spill_map
  PROVE  Place(o) \in Physical \ Temporaries
<1>1. CASE o \in DOMAIN alloc_map
  <2>1. Place(o) \in Allocatable
    BY <1>1, SettledPlaces DEF Place
  <2>2. Allocatable \subseteq Physical
    BY OperandAssumption DEF Allocatable, ToSet
  <2> QED
    BY <2>1, <2>2, TemporariesApart
<1>2. CASE o \notin DOMAIN alloc_map
  BY <1>2, SettledPlaces DEF Place, Operands
<1> QED
  BY <1>1, <1>2

(* Nothing is written to the register of an operand that conflicts.        *)
LEMMA PlacesApart ==
  ASSUME FuncInv, pass = "generate_prolog",
         NEW x \in Operands, NEW y \in Operands, x # y,
         x \notin DOMAIN operand_spill_map, y \notin DOMAIN operand_spill_map,
         AnyConflict(live_ranges[x], live_ranges[y])
  PROVE  Place(x) # Place(y)
<1>1. AnyConflict(live_ranges[y], live_ranges[x])
  BY SettledPlaces, AnyConflictSymmetric
<1>2. CASE x \in DOMAIN alloc_map
  BY <1>2, SettledPlaces DEF Place
<1>3. CASE x \notin DOMAIN alloc_map
  BY <1>1, <1>3, SettledPlaces DEF Place
<1> QED
  BY <1>2, <1>3

(* What has become of the instruction that runs, operand by operand.       *)
ReadsPlace(P, i, j) ==
  LET o == P.use[j]
  IN  IF o \in DOMAIN operand_spill_map
        THEN \E m \in DOMAIN i.before :
               i.before[m].slot = operand_spill_map[o] /\ i.before[m].reg = i.use[j]
        ELSE i.use[j] = Place(o)

WritesPlace(P, i, j) ==
  LET o == P.def[j]
  IN  IF o \in DOMAIN operand_spill_map
        THEN /\ i.def[j] \in Temporaries
             /\ \E m \in DOMAIN i.after : i.after[m].slot = operand_spill_map[o]
        ELSE i.def[j] = Place(o)

StoresWhatIsWritten(P, i, m) ==
  /\ i.after[m].reg \in Defs(i) \cap Temporaries
  /\ \E o \in Defs(P) \cap DOMAIN operand_spill_map : i.after[m].slot = operand_spill_map[o]

ReloadsOnce(i) ==
  /\ DOMAIN i.before \subseteq 1..3
  /\ \A m \in DOMAIN i.before :
       /\ i.before[m].reg \in Temporaries
       /\ \A l \in DOMAIN i.before : i.before[l].reg = i.before[m].reg => l = m

Replaces(i, P) ==
  /\ i.label = P.label /\ i.mv = P.mv
  /\ DOMAIN i.use = DOMAIN P.use /\ DOMAIN i.def = DOMAIN P.def
  /\ \A j \in DOMAIN P.use : P.use[j] \in Operands /\ ReadsPlace(P, i, j)
  /\ \A j \in DOMAIN P.def : P.def[j] \in Operands /\ WritesPlace(P, i, j)
  /\ \A m \in DOMAIN i.after : StoresWhatIsWritten(P, i, m)
  /\ Len(i.after) \in Nat /\ DOMAIN i.after = 1..Len(i.after)
  /\ ReloadsOnce(i)

Source == program[at[1]].body[at[2]]

LEMMA CompiledPlaces ==
  ASSUME ExecutionInv, Running
  PROVE  Replaces(Instruction, Source)
<1> DEFINE P == Source
           i == Instruction
<1>1. /\ FuncInv /\ ProgramInv /\ pass = "generate_prolog" /\ OnPath
      /\ AllocationHolds /\ Numbered
  BY SettledFrame DEF ExecutionInv, Running
<1>2. /\ SameShape /\ program \in Functions /\ Compiled(at[1], at[2])
      /\ at[1] \in DOMAIN program /\ at[2] \in DOMAIN program[at[1]].body
      /\ at[2] \in DOMAIN blocks[at[1]].body
  BY <1>1, InstructionFacts DEF ProgramInv, SameShape, OnPath
<1>3. PICK n \in AllocatorProofs!InstrNumbers : num2instr[n + 1] = <<at[1], at[2]>>
  BY <1>1, <1>2, Zenon DEF Numbered, OnPath
<1>4. AllocatorProofs!InstrAt(n) = i
  BY <1>3 DEF AllocatorProofs!InstrAt, AllocatorProofs!InstrNumbered, Instruction
<1>5. AllocatorProofs!InPlace(n) /\ AllocatorProofs!Reloads(n)
  BY <1>1 DEF AllocationHolds, AllocatorProofs!CodeInv
<1>6. AllocatorProofs!CompiledTo(P, i) /\ P.use \in Seq(Operands) /\ P.def \in Seq(Operands)
  BY <1>2, ProgramInstrs DEF Compiled, Instruction, Source
<1>7. i \in AllocatorProofs!CodeInstrs
  BY <1>4, <1>5 DEF AllocatorProofs!InPlace
<1> HIDE DEF P, i
<1>8. /\ i.before \in Seq(AllocatorProofs!Accesses) /\ i.after \in Seq(AllocatorProofs!Accesses)
      /\ i.use \in Seq(Operands) /\ i.def \in Seq(Operands)
  BY <1>7 DEF AllocatorProofs!CodeInstrs, AllocatorProofs!Operands, Operands
<1>9. /\ DOMAIN i.use = 1..Len(i.use) /\ DOMAIN P.use = 1..Len(P.use)
      /\ DOMAIN i.def = 1..Len(i.def) /\ DOMAIN P.def = 1..Len(P.def)
      /\ DOMAIN i.after = 1..Len(i.after) /\ Len(i.after) \in Nat
      /\ DOMAIN i.before = 1..Len(i.before)
  BY <1>6, <1>8, LenProperties
<1>10. /\ i.label = P.label /\ i.mv = P.mv
       /\ DOMAIN i.use = DOMAIN P.use /\ DOMAIN i.def = DOMAIN P.def
  BY <1>6, <1>9 DEF AllocatorProofs!CompiledTo
<1>11. rewritten = DOMAIN alloc_map
  BY <1>1, SettledPlaces
<1>12. ASSUME NEW j \in DOMAIN P.use
       PROVE  P.use[j] \in Operands /\ ReadsPlace(P, i, j)
  <2>1. P.use[j] \in Operands
    BY <1>6, <1>9, ElementOfSeq
  <2>2. AllocatorProofs!ReadsAs(P, i, j)
    BY <1>6, <1>9 DEF AllocatorProofs!CompiledTo
  <2>3. ReadsPlace(P, i, j)
    BY <1>11, <2>2 DEF ReadsPlace, Place, AllocatorProofs!ReadsAs, AllocatorProofs!Spilled,
       AllocatorProofs!Access, AllocatorProofs!ToSet
  <2> QED
    BY <2>1, <2>3
<1>13. ASSUME NEW j \in DOMAIN P.def
       PROVE  P.def[j] \in Operands /\ WritesPlace(P, i, j)
  <2>1. P.def[j] \in Operands
    BY <1>6, <1>9, ElementOfSeq
  <2>2. AllocatorProofs!WritesAs(P, i, j)
    BY <1>6, <1>9 DEF AllocatorProofs!CompiledTo
  <2>3. 1 \in 1..3 /\ AllocatorProofs!Temps(P.def[j])[1] \in Temporaries
    BY TemporariesApart
  <2>4. WritesPlace(P, i, j)
    BY <1>11, <2>2, <2>3 DEF WritesPlace, Place, AllocatorProofs!WritesAs,
       AllocatorProofs!Spilled, AllocatorProofs!Access, AllocatorProofs!ToSet
  <2> QED
    BY <2>1, <2>4
<1>14. ASSUME NEW m \in DOMAIN i.after
       PROVE  StoresWhatIsWritten(P, i, m)
  <2>1. PICK o \in Defs(P) \cap DOMAIN operand_spill_map :
          i.after[m] = AllocatorProofs!Access(operand_spill_map[o], AllocatorProofs!Temps(o)[1])
    BY <1>6 DEF AllocatorProofs!CompiledTo, AllocatorProofs!StoresOnly,
       AllocatorProofs!Spilled, AllocatorProofs!Defs, AllocatorProofs!ToSet, Defs, ToSet
  <2>2. PICK j \in DOMAIN P.def : P.def[j] = o
    BY DEF Defs, ToSet
  <2>3. AllocatorProofs!WritesAs(P, i, j)
    BY <1>6, <1>9 DEF AllocatorProofs!CompiledTo
  <2>4. i.def[j] = AllocatorProofs!Temps(o)[1]
    BY <2>2, <2>3 DEF AllocatorProofs!WritesAs, AllocatorProofs!Spilled
  <2>5. i.def[j] \in Defs(i)
    BY <1>10 DEF Defs, ToSet
  <2>6. 1 \in 1..3 /\ AllocatorProofs!Temps(o)[1] \in Temporaries
    BY TemporariesApart
  <2> QED
    BY <2>1, <2>4, <2>5, <2>6 DEF StoresWhatIsWritten, AllocatorProofs!Access
<1>15. DOMAIN i.before \subseteq 1..3
  BY <1>4, <1>5, <1>9 DEF AllocatorProofs!Reloads
<1>16. ASSUME NEW m \in DOMAIN i.before
       PROVE  \E a : i.before[m].reg = AllocatorProofs!Temps(a)[m]
  <2>1. PICK a \in DOMAIN operand_spill_map :
          i.before[m] = AllocatorProofs!Access(operand_spill_map[a], AllocatorProofs!Temps(a)[m])
    BY <1>4, <1>5, <1>9 DEF AllocatorProofs!Reloads
  <2> QED
    BY <2>1 DEF AllocatorProofs!Access
<1>17. ASSUME NEW m \in DOMAIN i.before
       PROVE  /\ i.before[m].reg \in Temporaries
              /\ \A l \in DOMAIN i.before : i.before[l].reg = i.before[m].reg => l = m
  <2>1. \A a, c : \A j, l \in 1..3 :
          j # l => AllocatorProofs!Temps(a)[j] # AllocatorProofs!Temps(c)[l]
    BY AllocatorAssumptions, AllocatorProofs!TempsProperties, AllocatorProofs!OperandAssumption,
       AllocatorProofs!InputAssumption, AllocatorProofs!TempsAssumption
  <2>2. i.before[m].reg \in Temporaries
    BY <1>15, <1>16, TemporariesApart
  <2>3. ASSUME NEW l \in DOMAIN i.before, i.before[l].reg = i.before[m].reg, l # m
        PROVE  FALSE
    BY <1>15, <1>16, <2>1, <2>3
  <2> QED
    BY <2>2, <2>3
<1>18. ReloadsOnce(i)
  BY <1>15, <1>17 DEF ReloadsOnce
<1>19. Replaces(i, P)
  BY <1>9, <1>10, <1>12, <1>13, <1>14, <1>18 DEF Replaces
<1> QED
  BY <1>19 DEF P, i

(* What the instruction that runs reads is what its operands hold: from a  *)
(* reload, or from a register no reload has changed.                       *)
LEMMA ReloadedRegister ==
  ASSUME NEW i, ReloadsOnce(i), NEW r \in Physical \ Temporaries
  PROVE  Reloaded(i)[r] = regs[r]
<1>1. {j \in DOMAIN i.before : i.before[j].reg = r} = {}
  BY DEF ReloadsOnce
<1> QED
  BY <1>1 DEF Reloaded

LEMMA ReadsWhatIsHeld ==
  ASSUME FuncInv, pass = "generate_prolog",
         NEW P, NEW i, Replaces(i, P), NEW j \in DOMAIN P.use,
         P.use[j] \notin Temporaries, live_ranges[P.use[j]] # {}
  PROVE  Reloaded(i)[i.use[j]] = Held(P.use[j])
<1> DEFINE o == P.use[j]
           loads == {m \in DOMAIN i.before : i.before[m].reg = i.use[j]}
<1>1. /\ o \in Operands \ Temporaries /\ live_ranges[o] # {}
      /\ ReadsPlace(P, i, j) /\ ReloadsOnce(i)
  BY DEF Replaces
<1> HIDE DEF o
<1>2. CASE o \in DOMAIN operand_spill_map
  <2>1. PICK m \in DOMAIN i.before :
          i.before[m].slot = operand_spill_map[o] /\ i.before[m].reg = i.use[j]
    BY <1>1, <1>2 DEF ReadsPlace, o
  <2>2. loads = {m}
    BY <1>1, <2>1 DEF ReloadsOnce
  <2>3. m \in 1..3 /\ i.use[j] \in Physical
    BY <1>1, <2>1, TemporariesApart DEF ReloadsOnce
  <2>4. Max(loads) = m
    BY <2>2, <2>3, SMTT(30) DEF Max
  <2>5. Reloaded(i)[i.use[j]] = mem[LocalAddress(frame, i.before[m].slot)]
    BY <2>2, <2>3, <2>4 DEF Reloaded
  <2> QED
    BY <1>2, <2>1, <2>5 DEF Held, o
<1>3. CASE o \notin DOMAIN operand_spill_map
  <2>1. i.use[j] = Place(o) /\ Place(o) \in Physical \ Temporaries
    BY <1>1, <1>3, LivePlace DEF ReadsPlace, o
  <2>2. Reloaded(i)[i.use[j]] = regs[Place(o)]
    BY <1>1, <2>1, ReloadedRegister
  <2> QED
    BY <1>3, <2>2 DEF Held, Place, o
<1> QED
  BY <1>2, <1>3

(* What is live at the instruction that runs, and after it.                *)
LEMMA LiveFacts ==
  ASSUME RefineInv, Running
  PROVE  /\ at[1] \in visited /\ at[1] \in DOMAIN program /\ program \in Functions
         /\ at[2] \in DOMAIN program[at[1]].body
         /\ DOMAIN program[at[1]].body = 1..Len(program[at[1]].body)
         /\ Len(program[at[1]].body) \in Nat
         /\ AnalysedBlock(at[1])
         /\ LiveHere = LivePoint(at[1], at[2] - 1)
         /\ LiveHere = Uses(program[at[1]].body[at[2]]) \cup
                         (LivePoint(at[1], at[2]) \ Defs(program[at[1]].body[at[2]]))
         /\ \A o \in LiveHere \cup LivePoint(at[1], at[2]) :
              o \in Operands \ Temporaries /\ live_ranges[o] # {}
<1>1. /\ ExecutionInv /\ AnalysedProgram /\ pass = "generate_prolog" /\ OnPath
  BY DEF RefineInv, ExecutionInv, Running, Analysing
<1>2. /\ at[1] \in visited /\ at[2] \in DOMAIN program[at[1]].body /\ AnalysedBlock(at[1])
      /\ at[1] \in DOMAIN program /\ program \in Functions
  BY <1>1, InstructionFacts DEF OnPath, AnalysedProgram
<1>3. /\ DOMAIN program[at[1]].body = 1..Len(program[at[1]].body)
      /\ Len(program[at[1]].body) \in Nat
  BY <1>2, ProgramFacts
<1>4. LiveHere = LivePoint(at[1], at[2] - 1)
  BY DEF LiveHere, LivePoint
<1>5. LivePoint(at[1], at[2] - 1) =
        Uses(program[at[1]].body[at[2]]) \cup
          (LivePoint(at[1], at[2]) \ Defs(program[at[1]].body[at[2]]))
  BY <1>2, <1>3, LiveBefore
<1>6. at[2] \in 0..Len(program[at[1]].body) /\ at[2] - 1 \in 0..Len(program[at[1]].body)
  BY <1>2, <1>3
<1>7. \A o \in LiveHere \cup LivePoint(at[1], at[2]) :
        o \in Operands \ Temporaries /\ live_ranges[o] # {}
  BY <1>2, <1>4, <1>6 DEF AnalysedBlock
<1> QED
  BY <1>2, <1>3, <1>4, <1>5, <1>7

(* After the instruction, an operand that is still live holds what it held *)
(* before, or the value that was written to it: where it is spilled, only  *)
(* the stores of its own value have gone to its slot.                      *)
LEMMA SlotAfter ==
  ASSUME FuncInv, pass = "generate_prolog", NEW P, NEW i, Replaces(i, P),
         NEW v, NEW registers, \A r \in Defs(i) \cap Physical : registers[r] = v,
         NEW y \in DOMAIN operand_spill_map,
         LocalAddress(frame, operand_spill_map[y]) \in DOMAIN mem
  PROVE  Stored(i, registers)[LocalAddress(frame, operand_spill_map[y])] =
           IF y \in Defs(P) THEN v ELSE mem[LocalAddress(frame, operand_spill_map[y])]
<1> DEFINE address == LocalAddress(frame, operand_spill_map[y])
           stores == {m \in DOMAIN i.after : LocalAddress(frame, i.after[m].slot) = address}
<1>1. \A a \in DOMAIN operand_spill_map :
        LocalAddress(frame, operand_spill_map[a]) = address => a = y
  <2>1. ASSUME NEW a \in DOMAIN operand_spill_map,
               LocalAddress(frame, operand_spill_map[a]) = address
        PROVE  operand_spill_map[a] = operand_spill_map[y]
    <3>1. /\ operand_spill_map[a] \in DOMAIN frame.locals
          /\ operand_spill_map[y] \in DOMAIN frame.locals
          /\ frame \in Frames /\ Stacked(frame)
      BY SettledFrame
    <3> QED
      BY <2>1, <3>1, AddressesApart
  <2> QED
    BY <2>1, SettledPlaces
<1>2. \A m \in DOMAIN i.after : StoresWhatIsWritten(P, i, m)
  BY DEF Replaces
<1>3. stores \in SUBSET (1..Len(i.after)) /\ Len(i.after) \in Nat
  BY DEF Replaces
<1>4. Stored(i, registers)[address] =
        IF stores = {} THEN mem[address] ELSE registers[i.after[Max(stores)].reg]
  BY DEF Stored
<1>5. CASE y \in Defs(P)
  <2>1. PICK j \in DOMAIN P.def : P.def[j] = y
    BY <1>5 DEF Defs, ToSet
  <2>2. WritesPlace(P, i, j)
    BY <2>1 DEF Replaces
  <2>3. PICK m \in DOMAIN i.after : i.after[m].slot = operand_spill_map[y]
    BY <2>1, <2>2 DEF WritesPlace
  <2>4. stores # {}
    BY <2>3
  <2>5. Max(stores) \in stores
    BY <1>3, <2>4, MaxOfIndices
  <2>6. Max(stores) \in DOMAIN i.after
    BY <2>5
  <2> HIDE DEF stores
  <2>7. i.after[Max(stores)].reg \in Defs(i) \cap Physical
    BY <1>2, <2>6, TemporariesApart DEF StoresWhatIsWritten
  <2> QED
    BY <1>4, <1>5, <2>4, <2>7
<1>6. CASE y \notin Defs(P)
  <2>1. stores = {}
    BY <1>1, <1>2, <1>6 DEF StoresWhatIsWritten
  <2> QED
    BY <1>4, <1>6, <2>1
<1> QED
  BY <1>5, <1>6

(* ... and where it is not, no other definition goes to its register.      *)
LEMMA RegisterAfter ==
  ASSUME FuncInv, pass = "generate_prolog", NEW P, NEW i, Replaces(i, P),
         NEW v, NEW registers,
         registers = [r \in Physical |-> IF r \in Defs(i) THEN v ELSE Reloaded(i)[r]],
         NEW y \in Operands \ Temporaries, live_ranges[y] # {},
         y \notin DOMAIN operand_spill_map,
         \A x \in Defs(P) : x # y => AnyConflict(live_ranges[x], live_ranges[y])
  PROVE  registers[Place(y)] = IF y \in Defs(P) THEN v ELSE regs[Place(y)]
<1>1. Place(y) \in Physical \ Temporaries
  BY LivePlace
<1>2. DOMAIN i.def = DOMAIN P.def
  BY DEF Replaces
<1>3. \A j \in DOMAIN P.def : P.def[j] \in Operands /\ WritesPlace(P, i, j)
  BY DEF Replaces
<1>4. CASE y \in Defs(P)
  <2>1. PICK j \in DOMAIN P.def : P.def[j] = y
    BY <1>4 DEF Defs, ToSet
  <2>2. i.def[j] = Place(y)
    BY <1>3, <2>1 DEF WritesPlace
  <2>3. Place(y) \in Defs(i)
    BY <1>2, <2>2 DEF Defs, ToSet
  <2> QED
    BY <1>1, <1>4, <2>3
<1>5. CASE y \notin Defs(P)
  <2>1. ASSUME NEW j \in DOMAIN P.def, i.def[j] = Place(y)
        PROVE  FALSE
    <3>1. PICK x : x = P.def[j]
      OBVIOUS
    <3>2. x \in Operands /\ WritesPlace(P, i, j)
      BY <1>3, <3>1
    <3>3. x \in Defs(P)
      BY <3>1 DEF Defs, ToSet
    <3>4. CASE x \in DOMAIN operand_spill_map
      BY <1>1, <2>1, <3>1, <3>2, <3>4 DEF WritesPlace
    <3>5. CASE x \notin DOMAIN operand_spill_map
      <4>1. i.def[j] = Place(x)
        BY <3>1, <3>2, <3>5 DEF WritesPlace
      <4>2. AnyConflict(live_ranges[x], live_ranges[y]) /\ x # y
        BY <1>5, <3>3
      <4>3. Place(x) # Place(y)
        BY <3>2, <3>5, <4>2, PlacesApart
      <4> QED
        BY <2>1, <4>1, <4>3
    <3> QED
      BY <3>4, <3>5
  <2>2. Place(y) \notin Defs(i)
    BY <1>2, <2>1 DEF Defs, ToSet
  <2>3. Reloaded(i)[Place(y)] = regs[Place(y)]
    <3>1. ReloadsOnce(i)
      BY DEF Replaces
    <3> QED
      BY <1>1, <3>1, ReloadedRegister
  <2> QED
    BY <1>1, <1>5, <2>2, <2>3
<1> QED
  BY <1>4, <1>5

LEMMA HeldAfter ==
  ASSUME RefineInv, Running, UNCHANGED vars, NEW v,
         regs' = [r \in Physical |->
           IF r \in Defs(Instruction) THEN v ELSE Reloaded(Instruction)[r]],
         mem' = Stored(Instruction, regs'),
         NEW y \in LivePoint(at[1], at[2])
  PROVE  Held(y)' = IF y \in Defs(Source) THEN v ELSE Held(y)
<1>1. /\ frame' = frame /\ operand_spill_map' = operand_spill_map /\ alloc_map' = alloc_map
      /\ pass = "generate_prolog" /\ ExecutionInv /\ FuncInv
  BY DEF vars, allocating, RefineInv, ExecutionInv, Running
<1>2. Replaces(Instruction, Source)
  BY <1>1, CompiledPlaces
<1>3. PICK i : i = Instruction
  OBVIOUS
<1>4. PICK P : P = Source
  OBVIOUS
<1>5. PICK registers : registers = regs'
  OBVIOUS
<1>6. Replaces(i, P)
  BY <1>2, <1>3, <1>4
<1>7. registers = [r \in Physical |-> IF r \in Defs(i) THEN v ELSE Reloaded(i)[r]]
  BY <1>3, <1>5
<1>8. mem' = Stored(i, registers)
  BY <1>3, <1>5
<1>9. CASE y \in DOMAIN operand_spill_map
  <2>1. \A r \in Defs(i) \cap Physical : registers[r] = v
    BY <1>7
  <2>2. Held(y)' = Stored(i, registers)[LocalAddress(frame, operand_spill_map[y])]
    BY <1>1, <1>8, <1>9 DEF Held
  <2>3. Held(y) = mem[LocalAddress(frame, operand_spill_map[y])]
    BY <1>9 DEF Held
  <2>4. LocalAddress(frame, operand_spill_map[y]) \in DOMAIN mem
    <3>1. operand_spill_map[y] \in DOMAIN frame.locals
      BY <1>1, <1>9, SettledFrame
    <3> QED
      BY <3>1 DEF RefineInv, Running
  <2>5. Stored(i, registers)[LocalAddress(frame, operand_spill_map[y])] =
          IF y \in Defs(P) THEN v ELSE mem[LocalAddress(frame, operand_spill_map[y])]
    BY <1>1, <1>6, <1>9, <2>1, <2>4, SlotAfter
  <2> QED
    BY <1>4, <2>2, <2>3, <2>5
<1>10. CASE y \notin DOMAIN operand_spill_map
  <2>1. Held(y)' = regs'[Place(y)] /\ Held(y) = regs[Place(y)]
    BY <1>1, <1>10 DEF Held, Place
  <2>2. y \in Operands \ Temporaries /\ live_ranges[y] # {}
    BY LiveFacts
  <2>3. \A x \in Defs(P) : x # y => AnyConflict(live_ranges[x], live_ranges[y])
    BY <1>4, LiveFacts DEF AnalysedBlock, Source
  <2>4. registers[Place(y)] = IF y \in Defs(P) THEN v ELSE regs[Place(y)]
    BY <1>1, <1>6, <1>7, <1>10, <2>2, <2>3, RegisterAfter
  <2> QED
    BY <1>4, <1>5, <2>1, <2>4
<1> QED
  BY <1>9, <1>10

(* Where the instruction leads, what is live has been live behind it.      *)
LEMMA LiveNext ==
  ASSUME RefineInv, Run
  PROVE  /\ LiveHere' \subseteq LivePoint(at[1], at[2])
         /\ at' \in Virtually!Successors(at[1], at[2])
<1> DEFINE b == at[1]
           k == at[2]
           P == program[b].body[k]
           n == Len(program[b].body)
<1>1. /\ Running /\ ExecutionInv /\ UNCHANGED <<vars, program>>
      /\ ~IsTailCall(blocks, at[1], at[2])
      /\ at[1] < Len(blocks) \/ at[2] < Len(blocks[at[1]].body)
      /\ at' \in Jumps(Instruction) \cup FallsThrough(Instruction)
  BY DEF Run, RefineInv
<1>2. /\ b \in DOMAIN program /\ program \in Functions /\ AnalysedBlock(b)
      /\ k \in DOMAIN program[b].body /\ k \in 1..n /\ n \in Nat
  BY <1>1, LiveFacts
<1>3. /\ Instruction.label = P.label /\ (Instruction.use = <<>> <=> P.use = <<>>)
      /\ P.label \in {NoLabel} \cup visited
  <2>1. /\ Instruction.label = P.label /\ DOMAIN Instruction.use = DOMAIN P.use
        /\ P.label \in {NoLabel} \cup visited
        /\ Instruction.use \in Seq(Operands) /\ P.use \in Seq(Operands)
    BY <1>1, <1>2, CompiledPlaces, InstructionFacts, ProgramInstrs DEF Replaces, Source
  <2>2. \A s \in Seq(Operands) : s = <<>> <=> DOMAIN s = {}
    <3>1. \A s \in Seq(Operands) : s # <<>> => 1 \in DOMAIN s
      BY EmptySeq, LenProperties
    <3> QED
      BY <3>1
  <2> QED
    BY <2>1, <2>2, SMTT(30)
<1>4. at'[1] \in visited /\ at'[2] \in DOMAIN program[at'[1]].body
  BY <1>1, StaysOnPath
<1>5. LiveHere' \subseteq LivePoint(at'[1], at'[2] - 1)
  <2>1. OUTs' = OUTs /\ program' = program
    BY <1>1 DEF vars, analysing
  <2> QED
    BY <2>1 DEF LiveHere, LivePoint
<1>6. CASE at' \in Jumps(Instruction)
  <2>1. P.label # NoLabel /\ at' = <<P.label, 1>> /\ at'[2] - 1 = 0
    BY <1>3, <1>6 DEF Jumps
  <2>2. LivePoint(at'[1], at'[2] - 1) \subseteq OUTs[b]
    BY <1>2, <2>1 DEF AnalysedBlock
  <2>3. \A j \in (k + 1)..n : Defs(program[b].body[j]) = {}
    <3>1. \A j \in (k + 1)..n : program[b].body[j].def = <<>>
      BY <1>2, <2>1, JumpsAssumption
    <3> QED
      BY <3>1 DEF Defs, ToSet
  <2>4. OUTs[b] \subseteq LivePoint(b, k)
    BY <1>2, <2>3, LiveBehindJump
  <2>5. at' \in Virtually!Successors(b, k)
    BY <2>1 DEF Virtually!Successors, Virtually!NoLabel, NoLabel
  <2> QED
    BY <1>5, <2>2, <2>4, <2>5
<1>7. CASE at' \in FallsThrough(Instruction)
  <2>1. at' = <<b, k + 1>> /\ ~(P.label # NoLabel /\ P.use = <<>>)
    BY <1>3, <1>7 DEF FallsThrough
  <2>2. k < n /\ at'[2] - 1 = k /\ at'[1] = b
    BY <1>2, <1>4, <2>1, ProgramFacts
  <2>3. at' \in Virtually!Successors(b, k)
    BY <2>1, <2>2, SMTT(30) DEF Virtually!Successors, Virtually!NoLabel, NoLabel
  <2> QED
    BY <1>5, <2>2, <2>3
<1> QED
  BY <1>1, <1>6, <1>7

(* One step of the compiled code is one step of the machine with a         *)
(* register for every operand.                                             *)
LEMMA RunIsExecute ==
  ASSUME RefineInv, Run
  PROVE  Virtually!Execute
<1> DEFINE env == [o \in LiveHere |-> Held(o)]
<1>1. /\ Running /\ ExecutionInv /\ UNCHANGED <<vars, program>>
      /\ FuncInv /\ pass = "generate_prolog"
  BY DEF Run, RefineInv, ExecutionInv, Running
<1>2. PICK i : i = Instruction
  OBVIOUS
<1>3. PICK P : P = Source
  OBVIOUS
<1>4. PICK v \in Value :
        /\ i.mv => v = Reloaded(i)[i.use[1]]
        /\ regs' = [r \in Physical |-> IF r \in Defs(i) THEN v ELSE Reloaded(i)[r]]
  BY <1>2 DEF Run
<1>5. /\ read' = [j \in DOMAIN i.use |-> Reloaded(i)[i.use[j]]] /\ mem' = Stored(i, regs')
  BY <1>2 DEF Run
<1>6. /\ Uses(P) \subseteq LiveHere /\ LivePoint(at[1], at[2]) \subseteq LiveHere \cup Defs(P)
      /\ \A o \in LiveHere : o \notin Temporaries /\ live_ranges[o] # {}
      /\ at[1] \in DOMAIN program /\ program \in Functions /\ at[2] \in DOMAIN program[at[1]].body
  BY <1>1, <1>3, LiveFacts DEF Source
<1>7. Replaces(i, P)
  BY <1>1, <1>2, <1>3, CompiledPlaces
<1>8. i.mv = P.mv /\ DOMAIN i.use = DOMAIN P.use
  BY <1>7 DEF Replaces
<1>9. \A j \in DOMAIN P.use : P.use[j] \in LiveHere /\ Reloaded(i)[i.use[j]] = Held(P.use[j])
  <2> TAKE j \in DOMAIN P.use
  <2>1. P.use[j] \in LiveHere
    BY <1>6 DEF Uses, ToSet
  <2>2. P.use[j] \notin Temporaries /\ live_ranges[P.use[j]] # {}
    BY <1>6, <2>1
  <2>3. Reloaded(i)[i.use[j]] = Held(P.use[j])
    BY <1>1, <1>7, <2>2, ReadsWhatIsHeld
  <2> QED
    BY <2>1, <2>3
<1>10. read' = [j \in DOMAIN P.use |-> env[P.use[j]]]
  BY <1>5, <1>8, <1>9
<1>11. P.mv => v = env[P.use[1]]
  <2> SUFFICES ASSUME P.mv PROVE v = env[P.use[1]]
    OBVIOUS
  <2>1. P.use # <<>> /\ P.use \in Seq(Operands)
    BY <1>3, <1>6, ReadsAssumption, ProgramInstrs DEF Source
  <2>2. 1 \in DOMAIN P.use
    BY <2>1, EmptySeq, LenProperties
  <2> QED
    BY <1>4, <1>8, <1>9, <2>2
<1>12. LiveHere' \subseteq LivePoint(at[1], at[2]) /\ at' \in Virtually!Successors(at[1], at[2])
  BY LiveNext
<1>13. ASSUME NEW o \in LivePoint(at[1], at[2])
       PROVE  /\ o \in LiveHere \cup Defs(P)
              /\ Held(o)' = IF o \in Defs(P) THEN v ELSE env[o]
  <2>1. /\ regs' = [r \in Physical |->
              IF r \in Defs(Instruction) THEN v ELSE Reloaded(Instruction)[r]]
        /\ mem' = Stored(Instruction, regs')
    BY <1>2, <1>4, <1>5
  <2>2. Held(o)' = IF o \in Defs(Source) THEN v ELSE Held(o)
    BY <1>1, <2>1, HeldAfter
  <2> QED
    BY <1>3, <1>6, <2>2
<1>14. /\ LiveHere' \subseteq LiveHere \cup Defs(P)
       /\ \A o \in LiveHere' : Held(o)' = IF o \in Defs(P) THEN v ELSE env[o]
  BY <1>12, <1>13
<1>15. /\ Virtually!Uses(P) = Uses(P) /\ Virtually!Defs(P) = Defs(P)
       /\ Virtually!NotStarted = NotStarted /\ Virtually!Returned = Returned
  BY DEF Virtually!Uses, Virtually!Defs, Virtually!ToSet, Uses, Defs, ToSet,
     Virtually!NotStarted, Virtually!Returned, NotStarted, Returned
<1>16. at \notin {NotStarted, Returned} /\ UNCHANGED program
  BY <1>1 DEF Running
<1>17. ~Virtually!IsTailCall(program, at[1], at[2])
  BY <1>1, SameTailCalls DEF Run, Virtually!IsTailCall, IsTailCall, Virtually!NoLabel, NoLabel
<1>18. P = program[at[1]].body[at[2]]
  BY <1>3 DEF Source
<1>19. /\ Virtually!Uses(P) \subseteq DOMAIN env
       /\ read' = [j \in DOMAIN P.use |-> env[P.use[j]]]
       /\ P.mv => v = env[P.use[1]]
  BY <1>6, <1>10, <1>11, <1>15
<1>20. DOMAIN env' = LiveHere' /\ \A o \in LiveHere' : env'[o] = Held(o)'
  OBVIOUS
<1>21. /\ DOMAIN env' \subseteq DOMAIN env \cup Virtually!Defs(P)
       /\ \A o \in DOMAIN env' :
            env'[o] = IF o \in Virtually!Defs(P) THEN v ELSE env[o]
  BY <1>14, <1>15, <1>20
<1>22. /\ at \notin {Virtually!NotStarted, Virtually!Returned}
       /\ at' \in Virtually!Successors(at[1], at[2]) /\ UNCHANGED program
  BY <1>12, <1>15, <1>16
<1>23. \E w \in Value :
         /\ P.mv => w = env[P.use[1]]
         /\ \A o \in DOMAIN env' :
              env'[o] = IF o \in Virtually!Defs(P) THEN w ELSE env[o]
  BY <1>19, <1>21, SMTT(30)
<1>24. LET instr == program[at[1]].body[at[2]]
       IN  /\ Virtually!Uses(instr) \subseteq DOMAIN env
           /\ read' = [j \in DOMAIN instr.use |-> env[instr.use[j]]]
           /\ DOMAIN env' \subseteq DOMAIN env \cup Virtually!Defs(instr)
           /\ \E w \in Value :
                /\ instr.mv => w = env[instr.use[1]]
                /\ \A o \in DOMAIN env' :
                     env'[o] = IF o \in Virtually!Defs(instr) THEN w ELSE env[o]
  <2> HIDE DEF env
  <2> QED
    BY <1>18, <1>19, <1>21, <1>23, Zenon
<1> QED
  BY <1>22, <1>24, <1>17, Zenon DEF Virtually!Execute

(* On entry only physical registers are live.                              *)
LEMMA EntryInRegisters ==
  ASSUME FuncInv, ProgramInv, pass = "generate_prolog", AnalysedProgram,
         NEW o \in LivePoint(1, 0)
  PROVE  /\ o \in Physical \ Temporaries
         /\ o \notin DOMAIN operand_spill_map /\ o \notin DOMAIN alloc_map
<1>1. 1 \in visited /\ 0 \in 0..Len(program[1].body)
  <2>1. 1 \in visited /\ 1 \in DOMAIN program /\ program \in Functions
    BY SettledFrame DEF Numbered, ProgramInv, SameShape
  <2> QED
    BY <2>1, ProgramFacts
<1>2. o \in Operands \ Temporaries
  BY <1>1 DEF AnalysedProgram, AnalysedBlock
<1>3. o \in Physical /\ o \notin Virtual
  BY <1>2 DEF AnalysedProgram, Operands
<1> QED
  BY <1>2, <1>3, SettledPlaces

LEMMA PrologIsCall ==
  ASSUME RefineInv, Prolog
  PROVE  Virtually!Call
<1>1. /\ FuncInv /\ ProgramInv /\ pass = "generate_prolog" /\ AnalysedProgram
      /\ at = NotStarted /\ at' = <<1, 1>> /\ UNCHANGED <<vars, program, read>>
  BY DEF RefineInv, ExecutionInv, Prolog, Analysing
<1>2. /\ OUTs' = OUTs /\ program' = program /\ frame' = frame /\ visited' = visited
      /\ operand_spill_map' = operand_spill_map /\ alloc_map' = alloc_map
  BY <1>1 DEF vars, analysing, allocating
<1>3. LiveHere' \subseteq LivePoint(1, 0)
  <2>1. at'[1] = 1 /\ at'[2] - 1 = 0
    BY <1>1
  <2> QED
    BY <1>2, <2>1 DEF LiveHere, LivePoint
<1>4. ASSUME NEW o \in LivePoint(1, 0)
      PROVE  o \in Physical /\ Held(o)' \in Value
  <2>1. /\ o \in Physical
        /\ o \notin DOMAIN operand_spill_map /\ o \notin DOMAIN alloc_map
    BY <1>1, EntryInRegisters
  <2>2. Held(o)' = regs'[o]
    BY <1>2, <2>1 DEF Held
  <2>3. regs'[o] \in Value
    BY <2>1 DEF Prolog
  <2> QED
    BY <2>1, <2>2, <2>3
<1>5. LiveHere' \subseteq Physical /\ \A o \in LiveHere' : Held(o)' \in Value
  BY <1>3, <1>4
<1>6. Virtually!NotStarted = NotStarted
  BY Zenon DEF Virtually!NotStarted, NotStarted
<1> QED
  BY <1>1, <1>5, <1>6 DEF Virtually!Call

(* A tail call reads the arguments the machine has and leaves them where   *)
(* the prolog tail looks for them.                                         *)
LEMMA TailCallIsTailCall ==
  ASSUME RefineInv, TailCall
  PROVE  Virtually!TailCall
<1> DEFINE P == program[at[1]].body[at[2]]
           env == [o \in LiveHere |-> Held(o)]
<1>1. /\ Running /\ ExecutionInv /\ UNCHANGED <<vars, program, mem>> /\ at' = <<1, 1>>
      /\ FuncInv /\ ProgramInv /\ pass = "generate_prolog" /\ AnalysedProgram
      /\ IsTailCall(program, at[1], at[2])
  BY SameTailCalls DEF TailCall, RefineInv, ExecutionInv, Running, Analysing
<1>2. /\ OUTs' = OUTs /\ program' = program /\ frame' = frame
      /\ operand_spill_map' = operand_spill_map /\ alloc_map' = alloc_map
  BY <1>1 DEF vars, analysing, allocating
<1>3. /\ Uses(P) \subseteq LiveHere
      /\ \A o \in LiveHere : o \notin Temporaries /\ live_ranges[o] # {}
  BY <1>1, LiveFacts
<1>4. PICK i : i = Instruction
  OBVIOUS
<1>5. Replaces(i, P) /\ DOMAIN i.use = DOMAIN P.use /\ ReloadsOnce(i)
  BY <1>1, <1>4, CompiledPlaces DEF Source, Replaces
<1>6. read' = [j \in DOMAIN i.use |-> Reloaded(i)[i.use[j]]]
  BY <1>4 DEF TailCall
<1>7. PICK v \in Value : regs' = [Reloaded(i) EXCEPT ![IntTemps[1]] = v]
  BY <1>4 DEF TailCall
<1>8. ASSUME NEW j \in DOMAIN P.use
      PROVE  P.use[j] \in LiveHere /\ Reloaded(i)[i.use[j]] = Held(P.use[j])
  <2>1. P.use[j] \in LiveHere
    BY <1>3 DEF Uses, ToSet
  <2>2. P.use[j] \notin Temporaries /\ live_ranges[P.use[j]] # {}
    BY <1>3, <2>1
  <2> QED
    BY <1>1, <1>5, <2>1, <2>2, ReadsWhatIsHeld
<1>9. read' = [j \in DOMAIN P.use |-> env[P.use[j]]]
  BY <1>5, <1>6, <1>8
<1>10. LiveHere' \subseteq LivePoint(1, 0)
  <2>1. at'[1] = 1 /\ at'[2] - 1 = 0
    BY <1>1
  <2> QED
    BY <1>2, <2>1 DEF LiveHere, LivePoint
<1>11. ASSUME NEW o \in LivePoint(1, 0)
       PROVE  o \in Physical /\ Held(o)' = Held(o)
  <2>1. /\ o \in Physical \ Temporaries
        /\ o \notin DOMAIN operand_spill_map /\ o \notin DOMAIN alloc_map
    BY <1>1, EntryInRegisters
  <2>2. Held(o)' = regs'[o] /\ Held(o) = regs[o]
    BY <1>2, <2>1 DEF Held
  <2>3. o # IntTemps[1]
    BY <2>1, TempsAssumption DEF TempsAreFit, Temporaries, ToSet
  <2>4. DOMAIN Reloaded(i) = Physical /\ Reloaded(i)[o] = regs[o]
    BY <1>5, <2>1, ReloadedRegister DEF Reloaded
  <2> QED
    BY <1>7, <2>1, <2>2, <2>3, <2>4
<1>12. /\ Virtually!Uses(P) = Uses(P)
       /\ Virtually!NotStarted = NotStarted /\ Virtually!Returned = Returned
       /\ Virtually!IsTailCall(program, at[1], at[2])
  BY <1>1 DEF Virtually!Uses, Virtually!ToSet, Uses, ToSet, Virtually!NotStarted,
     Virtually!Returned, NotStarted, Returned, Virtually!IsTailCall, IsTailCall,
     Virtually!NoLabel, NoLabel
<1>13. /\ DOMAIN env' \subseteq Physical
       /\ \A r \in Uses(P) \cap DOMAIN env' : env'[r] = env[r]
  <2>1. DOMAIN env' = LiveHere' /\ \A o \in LiveHere' : env'[o] = Held(o)'
    OBVIOUS
  <2>2. DOMAIN env = LiveHere /\ \A o \in LiveHere : env[o] = Held(o)
    OBVIOUS
  <2> HIDE DEF env
  <2> QED
    BY <1>3, <1>10, <1>11, <2>1, <2>2
<1>14. Virtually!Uses(P) \subseteq DOMAIN env
  BY <1>3, <1>12
<1>15. at \notin {Virtually!NotStarted, Virtually!Returned}
  BY <1>1, <1>12 DEF Running
<1> QED
  BY <1>1, <1>9, <1>12, <1>13, <1>14, <1>15, Zenon DEF Virtually!TailCall

(* The return reads registers that the epilog does not restore.            *)
LEMMA EpilogIsExecute ==
  ASSUME RefineInv, Epilog
  PROVE  Virtually!Execute
<1> DEFINE b == at[1]
           k == at[2]
           P == program[b].body[k]
           i == Instruction
           env == [o \in LiveHere |-> Held(o)]
<1>1. /\ Running /\ ExecutionInv /\ UNCHANGED <<vars, program>> /\ at' = Returned
      /\ FuncInv /\ pass = "generate_prolog" /\ Value # {}
  BY DEF Epilog, RefineInv, ExecutionInv, Running
<1>2. /\ b \in DOMAIN program /\ program \in Functions /\ k \in DOMAIN program[b].body
      /\ Uses(P) \subseteq LiveHere
  BY <1>1, LiveFacts
<1>3. b = Len(program) /\ k = Len(program[b].body)
  BY <1>1, <1>2, ShapeFacts DEF Epilog, ExecutionInv, ProgramInv
<1>4. P.label = NoLabel /\ ~P.mv /\ Uses(P) \subseteq Physical \ CalleeSaved
  BY <1>2, <1>3, ReturnAssumption DEF Last
<1>5. DOMAIN i.use = DOMAIN P.use /\ \A j \in DOMAIN P.use : ReadsPlace(P, i, j)
  <2>1. Replaces(Instruction, Source)
    BY <1>1, CompiledPlaces
  <2>2. /\ DOMAIN Instruction.use = DOMAIN Source.use
        /\ \A j \in DOMAIN Source.use : ReadsPlace(Source, Instruction, j)
    BY <2>1, SMTT(30) DEF Replaces
  <2> QED
    BY <2>2 DEF Source
<1>6. ASSUME NEW j \in DOMAIN P.use
      PROVE  P.use[j] \in LiveHere /\ regs'[i.use[j]] = Held(P.use[j])
  <2> DEFINE o == P.use[j]
  <2>1. o \in Uses(P) /\ o \in LiveHere /\ o \in Physical \ CalleeSaved
    BY <1>2, <1>4 DEF Uses, ToSet
  <2>2. /\ o \notin DOMAIN operand_spill_map /\ o \notin DOMAIN alloc_map
        /\ o \notin DOMAIN saved_registers
    BY <1>1, <2>1, SettledPlaces, OperandAssumption
  <2>3. i.use[j] = o
    BY <1>5, <2>2, ZenonT(60) DEF ReadsPlace, Place
  <2>4. regs'[o] = regs[o]
    BY <2>1, <2>2, ZenonT(60) DEF Epilog
  <2> QED
    BY <2>1, <2>2, <2>3, <2>4 DEF Held
<1>7. read' = [j \in DOMAIN P.use |-> env[P.use[j]]]
  <2>1. read' = [j \in DOMAIN i.use |-> regs'[i.use[j]]]
    BY DEF Epilog
  <2> QED
    BY <1>5, <1>6, <2>1, Zenon
<1>8. LiveHere' = {}
  BY <1>1 DEF LiveHere, Running
<1>9. at' \in Virtually!Successors(b, k)
  BY <1>1, <1>3, <1>4 DEF Virtually!Successors, Virtually!NoLabel, NoLabel,
     Virtually!Returned, Returned
<1>10. /\ Virtually!Uses(P) = Uses(P) /\ Virtually!Defs(P) = Defs(P)
       /\ Virtually!NotStarted = NotStarted /\ Virtually!Returned = Returned
  BY DEF Virtually!Uses, Virtually!Defs, Virtually!ToSet, Uses, Defs, ToSet,
     Virtually!NotStarted, Virtually!Returned, NotStarted, Returned
<1>11. /\ at \notin {NotStarted, Returned} /\ UNCHANGED program
       /\ ~Virtually!IsTailCall(program, b, k)
  <2>1. Len(program) \in Nat
    BY <1>2, ProgramFacts
  <2> QED
    BY <1>1, <1>3, <2>1 DEF Running, Virtually!IsTailCall
<1>12. PICK v \in Value : TRUE
  BY <1>1
<1> QED
  BY <1>2, <1>4, <1>7, <1>8, <1>9, <1>10, <1>11, <1>12, Zenon DEF Virtually!Execute

(* While the function is compiled the machine has not started, and forgets *)
(* nothing as it knows nothing.                                            *)
LEMMA CompileIsStutter ==
  ASSUME RefineInv, Compile \/ UNCHANGED <<vars, program, machine>>
  PROVE  UNCHANGED <<at, [o \in LiveHere |-> Held(o)], read>>
<1>1. CASE Compile
  <2>1. at = NotStarted /\ at' = NotStarted /\ read' = read
    BY <1>1, PassesAreDone DEF RefineInv, ExecutionInv, Compile, machine
  <2>2. LiveHere = {} /\ LiveHere' = {}
    BY <2>1 DEF LiveHere, Running
  <2> QED
    BY <2>1, <2>2
<1>2. CASE UNCHANGED <<vars, program, machine>>
  <2>1. /\ at' = at /\ read' = read /\ regs' = regs /\ mem' = mem /\ program' = program
        /\ OUTs' = OUTs /\ frame' = frame /\ alloc_map' = alloc_map
        /\ operand_spill_map' = operand_spill_map
    BY <1>2 DEF vars, analysing, allocating, machine
  <2>2. LiveHere' = LiveHere /\ \A o : Held(o)' = Held(o)
    BY <2>1 DEF LiveHere, Running, Held
  <2> QED
    BY <2>1, <2>2
<1> QED
  BY <1>1, <1>2

(* Whatever function instruction selection produces, and along whatever    *)
(* path it runs: every instruction of the compiled code reads the values   *)
(* that the code before allocation reads there.  Analysis, allocation,     *)
(* spilling, rewriting, frame, prolog and epilog together lose no value    *)
(* that is still to be read.                                               *)
THEOREM CompiledCodeIsFaithful == ExecutionSpec => CompiledCodeImplementsSource
<1>1. ExecutionInit => Virtually!Init
  <2> SUFFICES ASSUME ExecutionInit PROVE Virtually!Init
    OBVIOUS
  <2>1. at = NotStarted /\ read = <<>> /\ LiveHere = {}
    BY DEF ExecutionInit, LiveHere, Running
  <2>2. [o \in LiveHere |-> Held(o)] = <<>>
    BY <2>1
  <2> QED
    BY <2>1, <2>2 DEF Virtually!Init, Virtually!NotStarted, NotStarted
<1>2. RefineInv /\ [ExecutionNext]_<<vars, program, machine>> =>
        [Virtually!Next]_<<at, [o \in LiveHere |-> Held(o)], read>>
  BY PrologIsCall, RunIsExecute, TailCallIsTailCall, EpilogIsExecute, CompileIsStutter
     DEF ExecutionNext, Virtually!Next
<1>3. RefineInv /\ [ExecutionNext]_<<vars, program, machine>> => RefineInv'
  BY NextRefines
<1> QED
  BY <1>1, <1>2, <1>3, InitRefines, PTL
     DEF ExecutionSpec, CompiledCodeImplementsSource, Virtually!Spec
=============================================================================
