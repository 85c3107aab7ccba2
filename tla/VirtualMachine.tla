--------------------------- MODULE VirtualMachine ---------------------------
(***************************************************************************)
(* What the code a function was selected into means before registers are   *)
(* allocated: a machine with a register for every operand.  An instruction *)
(* reads its uses and gives all its definitions a value, a move the value  *)
(* it reads; a branch goes either way; a tail call is where the function   *)
(* begins again, its arguments in physical registers.                      *)
(*                                                                         *)
(* The machine may forget the value of any operand at any time, but it     *)
(* cannot execute an instruction that reads an operand it has forgotten.   *)
(* That is all the compiler promises: the value of an operand has to be    *)
(* somewhere for as long as it will be read.                               *)
(***************************************************************************)
EXTENDS MachineCode

CONSTANT Value

VARIABLES
  program,   \* the blocks, as instruction selection left them
  at,        \* the instruction to execute, or one of the two below
  env,       \* the values of the operands that are not forgotten
  read       \* what the last instruction read

NotStarted == <<0, 0>>
Returned == <<0, 1>>

(* A conditional branch reads two registers, a jump none.                  *)
Successors(b, k) ==
  LET instr == program[b].body[k]
      jump  == IF instr.label = NoLabel THEN {} ELSE {<<instr.label, 1>>}
      next  == IF k < Len(program[b].body) THEN {<<b, k + 1>>} ELSE {Returned}
  IN  IF instr.label # NoLabel /\ instr.use = <<>> THEN jump ELSE jump \cup next

Init ==
  /\ at = NotStarted
  /\ env = <<>>
  /\ read = <<>>

(* The caller has put the arguments into physical registers.               *)
Call ==
  /\ at = NotStarted
  /\ at' = <<1, 1>>
  /\ DOMAIN env' \subseteq Physical
  /\ \A r \in DOMAIN env' : env'[r] \in Value
  /\ UNCHANGED <<program, read>>

Execute ==
  /\ at \notin {NotStarted, Returned} /\ ~IsTailCall(program, at[1], at[2])
  /\ LET instr == program[at[1]].body[at[2]]
     IN  /\ Uses(instr) \subseteq DOMAIN env
         /\ read' = [j \in DOMAIN instr.use |-> env[instr.use[j]]]
         /\ DOMAIN env' \subseteq DOMAIN env \cup Defs(instr)
         /\ \E v \in Value :
              /\ instr.mv => v = env[instr.use[1]]
              /\ \A o \in DOMAIN env' : env'[o] = IF o \in Defs(instr) THEN v ELSE env[o]
  /\ at' \in Successors(at[1], at[2])
  /\ UNCHANGED program

(* The registers a tail call reads, which are the arguments, keep their    *)
(* values; like at a call, the others may hold any.                        *)
TailCall ==
  /\ at \notin {NotStarted, Returned} /\ IsTailCall(program, at[1], at[2])
  /\ LET instr == program[at[1]].body[at[2]]
     IN  /\ Uses(instr) \subseteq DOMAIN env
         /\ read' = [j \in DOMAIN instr.use |-> env[instr.use[j]]]
         /\ DOMAIN env' \subseteq Physical
         /\ \A r \in Uses(instr) \cap DOMAIN env' : env'[r] = env[r]
  /\ at' = <<1, 1>>
  /\ UNCHANGED program

Next == Call \/ Execute \/ TailCall

Spec == Init /\ [][Next]_<<at, env, read>>
=============================================================================
