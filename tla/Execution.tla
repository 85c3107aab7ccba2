------------------------------ MODULE Execution ------------------------------
(***************************************************************************)
(* A function is compiled by the passes of module Func and then run on a   *)
(* machine with physical registers and a stack frame: the prolog saves     *)
(* registers (Func::generate_prolog), the blocks run as rewrite_operands   *)
(* and spill left them, with the stack addresses of Func::translate, and   *)
(* the epilog restores what was saved (Func::generate_epilog).             *)
(***************************************************************************)
EXTENDS Func

CONSTANTS
  Value,
  ReturnAddress   \* what ra holds on entry; not a Value

(* A block ends in a jump or in a tail call, but for the last, which is    *)
(* the epilog and ends in the return.  The copies for the phis of the      *)
(* successors stand before the jumps, so that nothing is written behind    *)
(* one.  A tail call names physical registers only: the arguments, and     *)
(* what every call may change.                                             *)
ASSUME JumpsAssumption ==
  \A f \in Functions : \A b \in DOMAIN f :
    LET body == f[b].body
        end  == Last(body)
    IN  /\ b < Len(f) /\ end.label # NoLabel => end.use = <<>>
        /\ IsTailCall(f, b, Len(body)) => Defs(end) \cup Uses(end) \subseteq Physical
        /\ \A k \in DOMAIN body : body[k].label # NoLabel =>
             \A j \in (k + 1)..Len(body) : body[j].def = <<>>

ASSUME ReturnAssumption ==
  \A f \in Functions :
    LET return == Last(Last(f).body)
    IN  /\ return.label = NoLabel /\ ~return.mv
        /\ Uses(return) \subseteq Physical \ CalleeSaved

(* A move reads something, and the code reads no temporary of spill's.     *)
Temporaries == ToSet(IntTemps) \cup ToSet(FloatTemps)

ASSUME ReadsAssumption ==
  \A f \in Functions : \A b \in DOMAIN f : \A k \in DOMAIN f[b].body :
    LET instr == f[b].body[k]
    IN  (instr.mv => instr.use # <<>>) /\ Uses(instr) \cap Temporaries = {}

(* The code comes from SSA form: on every way through the blocks from the  *)
(* first, a virtual operand is written before it is read.                  *)
Ways(f) ==
  {p \in UNION {[1..n -> DOMAIN f] : n \in 1..Len(f)} :
     /\ p[1] = 1
     /\ \A i \in 1..(Len(p) - 1) :
          \E k \in DOMAIN f[p[i]].body : f[p[i]].body[k].label = p[i + 1]}

WrittenIn(body, o) == \E j \in DOMAIN body : o \in Defs(body[j])

ASSUME WrittenAssumption ==
  \A f \in Functions : \A p \in Ways(f) :
    LET body == f[p[Len(p)]].body
    IN  \A k \in DOMAIN body : \A o \in Uses(body[k]) \cap Virtual :
          \/ \E j \in 1..(k - 1) : o \in Defs(body[j])
          \/ \E i \in 1..(Len(p) - 1) : WrittenIn(f[p[i]].body, o)

VARIABLES
  program,        \* the code before the passes, for comparison
  at, read,       \* as in VirtualMachine
  regs, mem,      \* physical registers, and the frame by distance from sp
  entry           \* the registers on entry

machine == <<at, read, regs, mem, entry>>

NotStarted == <<0, 0>>
Returned == <<0, 1>>

ExecutionInit ==
  /\ Init
  /\ program = blocks
  /\ at = NotStarted
  /\ read = <<>>
  /\ regs = <<>>
  /\ mem = <<>>
  /\ entry = <<>>

Compile == Next /\ UNCHANGED <<program, machine>>

Running == at \notin {NotStarted, Returned}

Instruction == blocks[at[1]].body[at[2]]
-----------------------------------------------------------------------------
(* generate_prolog: ra and the saved registers go to their places.  What a *)
(* register holds at the call matters only in that a callee-saved one must *)
(* hold it again in the end.                                               *)
Prolog ==
  /\ pass = "generate_prolog"
  /\ at = NotStarted
  /\ \E v, w \in Value :
       regs' = [r \in Physical |-> IF r \in CalleeSaved THEN v ELSE w]
  /\ entry' = regs'
  /\ mem' = [address \in {LocalAddress(frame, i) : i \in DOMAIN frame.locals}
                           \cup {RAAddress(frame)} |->
       LET saved == {r \in DOMAIN saved_registers :
                       LocalAddress(frame, saved_registers[r]) = address}
       IN  IF saved = {} THEN ReturnAddress ELSE regs'[CHOOSE r \in saved : TRUE]]
  /\ at' = <<1, 1>>
  /\ UNCHANGED <<vars, program, read>>

(* The reloads spill put before the instruction, the last into a register  *)
(* winning, the instruction itself, and the stores after it.               *)
Reloaded(instr) ==
  [r \in Physical |->
     LET loads == {j \in DOMAIN instr.before : instr.before[j].reg = r}
     IN  IF loads = {} THEN regs[r]
         ELSE mem[LocalAddress(frame, instr.before[Max(loads)].slot)]]

Stored(instr, registers) ==
  [address \in DOMAIN mem |->
     LET stores == {j \in DOMAIN instr.after :
                      LocalAddress(frame, instr.after[j].slot) = address}
     IN  IF stores = {} THEN mem[address] ELSE registers[instr.after[Max(stores)].reg]]

Jumps(instr) == IF instr.label = NoLabel THEN {} ELSE {<<instr.label, 1>>}
FallsThrough(instr) ==
  IF instr.label # NoLabel /\ instr.use = <<>> THEN {} ELSE {<<at[1], at[2] + 1>>}

Run ==
  /\ Running /\ ~IsTailCall(blocks, at[1], at[2])
  /\ at[1] < Len(blocks) \/ at[2] < Len(blocks[at[1]].body)
  /\ LET instr == Instruction
         before == Reloaded(instr)
     IN  /\ read' = [j \in DOMAIN instr.use |-> before[instr.use[j]]]
         /\ \E v \in Value :
              /\ instr.mv => v = before[instr.use[1]]
              /\ regs' = [r \in Physical |-> IF r \in Defs(instr) THEN v ELSE before[r]]
         /\ mem' = Stored(instr, regs')
         /\ at' \in Jumps(instr) \cup FallsThrough(instr)
  /\ UNCHANGED <<vars, program, entry>>

(* `tail f_prolog_tail': the function begins again behind its prolog, in   *)
(* the frame it has, with the arguments in their registers.  The pseudo    *)
(* instruction reaches for the address through t1, the first temporary.    *)
TailCall ==
  /\ Running /\ IsTailCall(blocks, at[1], at[2])
  /\ LET before == Reloaded(Instruction)
     IN  /\ read' = [j \in DOMAIN Instruction.use |-> before[Instruction.use[j]]]
         /\ \E v \in Value : regs' = [before EXCEPT ![IntTemps[1]] = v]
  /\ at' = <<1, 1>>
  /\ UNCHANGED <<vars, program, mem, entry>>

(* generate_epilog, at the return instruction that ends the last block.    *)
Epilog ==
  /\ Running
  /\ at = <<Len(blocks), Len(blocks[Len(blocks)].body)>>
  /\ regs' = [r \in Physical |->
       IF r \in DOMAIN saved_registers
         THEN mem[LocalAddress(frame, saved_registers[r])] ELSE regs[r]]
  /\ read' = [j \in DOMAIN Instruction.use |-> regs'[Instruction.use[j]]]
  /\ at' = Returned
  /\ UNCHANGED <<vars, program, mem, entry>>

ExecutionNext == Compile \/ Prolog \/ Run \/ TailCall \/ Epilog

ExecutionSpec == ExecutionInit /\ [][ExecutionNext]_<<vars, program, machine>>
-----------------------------------------------------------------------------
(* The value of an operand is in the slot it was spilled to, in the        *)
(* register it was given, or in itself if it is a physical register; it is *)
(* there as long as the operand is live.                                   *)
LiveHere ==
  IF Running THEN Analysis!LiveAfter(program[at[1]].body, at[2] - 1, OUTs[at[1]]) ELSE {}

Held(o) ==
  IF o \in DOMAIN operand_spill_map THEN mem[LocalAddress(frame, operand_spill_map[o])]
  ELSE IF o \in DOMAIN alloc_map THEN regs[alloc_map[o]] ELSE regs[o]

Virtually == INSTANCE VirtualMachine WITH env <- [o \in LiveHere |-> Held(o)]

(* The compiled function reads, at every instruction and along every path, *)
(* the values that the code before allocation reads there.                 *)
CompiledCodeImplementsSource == Virtually!Spec

(* The caller gets back its callee-saved registers, and ra still leads to  *)
(* it: nothing in the frame has overwritten them.                          *)
CallerStateRestored ==
  at = Returned =>
    /\ \A r \in CalleeSaved : regs[r] = entry[r]
    /\ mem[RAAddress(frame)] = ReturnAddress
=============================================================================
