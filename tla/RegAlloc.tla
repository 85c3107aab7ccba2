------------------------------ MODULE RegAlloc ------------------------------
(***************************************************************************)
(* The register allocator of a function (src/src/bkd_reg_alloc.cpp): the   *)
(* passes allocate_hint to rewrite_operands of Func::passes.               *)
(*                                                                         *)
(* allocate_init makes one allocation per virtual operand.  The model      *)
(* names the operands by the numbers of their allocations, so              *)
(* alloc_operand_map is the identity and alloc_range_map is live_ranges    *)
(* restricted to virtual operands.  The number an operand gets is the      *)
(* iteration order of an unordered map: any naming is possible.            *)
(*                                                                         *)
(* When no register is free try_allocate looks for a register to evict     *)
(* among conflict_map minus conflict_hard_set.  Every register that        *)
(* conflicts is in conflict_hard_set, the softly conflicting ones too, so  *)
(* nothing is ever found, min_weight stays 1e308 and the operand is split: *)
(* there is no action for the branch that evicts.                          *)
(***************************************************************************)
EXTENDS MachineCode, StackFrame

CONSTANT Inputs   \* what the passes before may leave: records of
                  \* blocks, num2instr, live_ranges and the frame so far

(* The frame holds the local variables; the rest is what module Liveness   *)
(* leaves, as Liveness_proofs shows, of what Selection emits.  The ranges  *)
(* of a virtual operand are numbered, as nothing of it is left in a block  *)
(* no jump leads to: spill and rewrite_operands index num2instr with all   *)
(* the numbers in them.                                                    *)
ASSUME InputAssumption ==
  \A input \in Inputs :
    /\ input.frame \in Frames /\ Stacked(input.frame)
    /\ IsAnalysed(input.blocks, input.num2instr, input.live_ranges)
    /\ \A o \in Virtual : \A r \in input.live_ranges[o] : IsNumbered(input.num2instr, r)
    /\ \A b \in DOMAIN input.blocks : \A k \in DOMAIN input.blocks[b].body :
         IsSpillable(input.blocks[b].body[k])

ASSUME TempsAssumption == TempsAreFit

VARIABLES
  pass, blocks, num2instr, live_ranges, frame,
  coalesce_map, hint_map,
  block_weight_map,
  alloc_status_map, alloc_map,
  occupied_map, occupied_range_map,
  alloc_priority_queue,
  operand_spill_map, used_temp_map,
  rewritten,        \* the allocations rewrite_operands is done with
  saved_registers

code == <<blocks, num2instr, live_ranges>>
hints == <<coalesce_map, hint_map, block_weight_map>>
allocation == <<alloc_status_map, alloc_map, occupied_map, occupied_range_map,
                alloc_priority_queue>>
spilling == <<operand_spill_map, used_temp_map>>
rewriting == <<rewritten, saved_registers>>
vars == <<pass, code, frame, hints, allocation, spilling, rewriting>>

(* enum class AllocStatus; the order matters.                              *)
New == 0
Assign == 1
Split == 2
Spill == 3

Allocs == {o \in Virtual : live_ranges[o] # {}}
InstrNumbers == 0..(Len(num2instr) - 1)
InstrAt(n) == InstrNumbered(blocks, num2instr, n)

InitAllocator ==
  /\ coalesce_map = <<>>
  /\ hint_map = <<>>
  /\ block_weight_map = <<>>
  /\ alloc_status_map = <<>>
  /\ alloc_map = <<>>
  /\ occupied_map = [r \in Allocatable |-> {}]
  /\ occupied_range_map = [r \in Allocatable |-> {}]
  /\ alloc_priority_queue = {}
  /\ operand_spill_map = <<>>
  /\ used_temp_map = <<>>
  /\ rewritten = {}
  /\ saved_registers = <<>>

Init ==
  /\ pass = "allocate_hint"
  /\ \E input \in Inputs :
       /\ blocks = input.blocks
       /\ num2instr = input.num2instr
       /\ live_ranges = input.live_ranges
       /\ frame = input.frame
  /\ InitAllocator
-----------------------------------------------------------------------------
(* The moves between two registers, in the order of the blocks.            *)
Moves == FlattenSeq([b \in DOMAIN blocks |-> SelectSeq(blocks[b].body, LAMBDA i : i.mv)])

Mentions(move, o) == o \in {move.def[1], move.use[1]}
OtherEnd(move, o) == IF move.def[1] = o THEN move.use[1] ELSE move.def[1]

(* The map left by an assignment per move and virtual end: the last wins.  *)
OtherEnds(moves) ==
  [o \in {v \in Virtual : \E i \in DOMAIN moves : Mentions(moves[i], v)} |->
     OtherEnd(moves[SelectLastInSeq(moves, LAMBDA m : Mentions(m, o))], o)]

AllocateHint ==
  /\ pass = "allocate_hint"
  /\ LET both(m) == is_virtual(m.def[1]) /\ is_virtual(m.use[1])
         one(m)  == is_virtual(m.def[1]) # is_virtual(m.use[1])
     IN  /\ coalesce_map' = OtherEnds(SelectSeq(Moves, both))
         /\ hint_map' = OtherEnds(SelectSeq(Moves, one))
  /\ pass' = "allocate_init"
  /\ UNCHANGED <<code, frame, block_weight_map, allocation, spilling, rewriting>>

AllocateInit ==
  /\ pass = "allocate_init"
  /\ alloc_status_map' = [a \in Allocs |-> New]
  /\ occupied_map' = [r \in Allocatable |-> {}]
  /\ occupied_range_map' = [r \in Allocatable |-> {}]
  /\ used_temp_map' = [n \in InstrNumbers |-> 0]
  /\ block_weight_map' = [b \in DOMAIN blocks |-> 1]
  /\ pass' = "allocate_weight"
  /\ UNCHANGED <<code, frame, coalesce_map, hint_map, alloc_map,
                 alloc_priority_queue, operand_spill_map, rewriting>>

(* Alys::LoopInfo: the number of natural loops around every block.         *)
AllocateWeight ==
  /\ pass = "allocate_weight"
  /\ block_weight_map' = [b \in DOMAIN blocks |-> 4 ^ blocks[b].loops]
  /\ pass' = "fill_queue"
  /\ UNCHANGED <<code, frame, coalesce_map, hint_map, allocation, spilling, rewriting>>
-----------------------------------------------------------------------------
(* An element of the priority queue.  The priority is taken when the       *)
(* allocation is queued and not refreshed.                                 *)
Prioritized(a, status) ==
  [alloc     |-> a,
   status    |-> status,
   block_cnt |-> Cardinality(live_ranges[a]),
   instr_cnt |-> MapThenSumSet(LAMBDA r : r.instr_cnt, live_ranges[a]),
   hinted    |-> IF a \in DOMAIN coalesce_map \cup DOMAIN hint_map THEN 1 ELSE 0]

(* PrioritizedAlloc::operator<, the order of the tuples.                   *)
Before(e, f) ==
  \/ e.status < f.status
  \/ e.status = f.status /\ e.block_cnt < f.block_cnt
  \/ e.status = f.status /\ e.block_cnt = f.block_cnt /\ e.instr_cnt < f.instr_cnt
  \/ /\ e.status = f.status /\ e.block_cnt = f.block_cnt
     /\ e.instr_cnt = f.instr_cnt /\ e.hinted < f.hinted

(* top(): equal priorities may come out in any order.                      *)
Top == {e \in alloc_priority_queue : \A f \in alloc_priority_queue : ~Before(e, f)}

FillQueue ==
  /\ pass = "fill_queue"
  /\ alloc_priority_queue' = {Prioritized(a, alloc_status_map[a]) : a \in Allocs}
  /\ pass' = "allocate_register"
  /\ UNCHANGED <<code, frame, hints, alloc_status_map, alloc_map, occupied_map,
                 occupied_range_map, spilling, rewriting>>
-----------------------------------------------------------------------------
(* range_list[0]: the list is sorted by fromNum alone.                     *)
FirstRanges(a) ==
  {r \in live_ranges[a] : \A q \in live_ranges[a] : r.fromNum <= q.fromNum}

(* The register itself is live where the operand is: arguments, calls.     *)
HardConflict(reg, a) == AnyConflict(live_ranges[a], live_ranges[reg])

SoftConflict(reg, a, first) ==
  \E e \in ScanFrom(occupied_range_map[reg], AllocRange(first, a)) :
    AnyConflict(live_ranges[a], {e.range})

(* Slips: a register of the other class; only a register nobody holds.     *)
FreeOfAnyClass(reg, a, first) ==
  /\ ~HardConflict(reg, a)
  /\ occupied_map[reg] = {} \/ ~SoftConflict(reg, a, first)

FreeIfUnused(reg, a, first) ==
  /\ Index(reg) = Index(a)
  /\ ~HardConflict(reg, a)
  /\ occupied_map[reg] = {}

Free(reg, a, first) ==
  /\ Index(reg) = Index(a)
  /\ ~HardConflict(reg, a)
  /\ occupied_map[reg] = {} \/ ~SoftConflict(reg, a, first)

(* register_alloc_vector: the hint, if it may be allocated, then the rest. *)
Tried(a, reg) ==
  IF a \in DOMAIN hint_map /\ hint_map[a] = reg
    THEN 0 ELSE CHOOSE i \in DOMAIN REG_ALLOC : REG_ALLOC[i] = reg

(* A slip: only range_list[0] is entered.                                  *)
AllocFirstRange(a) == {AllocRange(r, a) : r \in FirstRanges(a)}

(* What an assigned operand adds to occupied_range_map.                    *)
AllocRanges(a) == {AllocRange(r, a) : r \in live_ranges[a]}

AssignRegister(a, reg) ==
  /\ occupied_map' = [occupied_map EXCEPT ![reg] = @ \cup {a}]
  /\ occupied_range_map' = [occupied_range_map EXCEPT ![reg] = @ \cup AllocRanges(a)]
  /\ alloc_map' = [x \in DOMAIN alloc_map \cup {a} |->
                     IF x = a THEN reg ELSE alloc_map[x]]
  /\ alloc_status_map' = [alloc_status_map EXCEPT ![a] = Assign]
  /\ hint_map' =
       IF a \in DOMAIN coalesce_map
         THEN [x \in DOMAIN hint_map \cup {coalesce_map[a]} |->
                 IF x = coalesce_map[a] THEN reg ELSE hint_map[x]]
         ELSE hint_map

TryAllocate(e) ==
  LET a == e.alloc
  IN  /\ e.status = New
      /\ \E first \in FirstRanges(a) :
           LET free == {r \in Allocatable : Free(r, a, first)}
           IN  \/ \E reg \in free :
                    /\ \A other \in free : Tried(a, reg) <= Tried(a, other)
                    /\ AssignRegister(a, reg)
                    /\ alloc_priority_queue' = alloc_priority_queue \ {e}
               \/ /\ free = {}
                  /\ alloc_status_map' = [alloc_status_map EXCEPT ![a] = Split]
                  /\ alloc_priority_queue' =
                       (alloc_priority_queue \ {e}) \cup {Prioritized(a, Split)}
                  /\ UNCHANGED <<hint_map, alloc_map, occupied_map, occupied_range_map>>
      /\ UNCHANGED <<pass, code, frame, coalesce_map, block_weight_map, spilling, rewriting>>

(* A slip: the status does not advance.                                    *)
TrySplitAgain(e) ==
  /\ e.status = Split
  /\ alloc_priority_queue' = (alloc_priority_queue \ {e}) \cup {Prioritized(e.alloc, Split)}
  /\ UNCHANGED <<pass, code, frame, hints, alloc_status_map, alloc_map, occupied_map,
                 occupied_range_map, spilling, rewriting>>

(* A slip: what was split is tried once more.                              *)
TrySplitRetried(e) ==
  /\ e.status = Split
  /\ alloc_status_map' = [alloc_status_map EXCEPT ![e.alloc] = New]
  /\ alloc_priority_queue' = (alloc_priority_queue \ {e}) \cup {Prioritized(e.alloc, New)}
  /\ UNCHANGED <<pass, code, frame, hints, alloc_map, occupied_map,
                 occupied_range_map, spilling, rewriting>>

TrySplit(e) ==
  /\ e.status = Split
  /\ alloc_status_map' = [alloc_status_map EXCEPT ![e.alloc] = Spill]
  /\ alloc_priority_queue' =
       (alloc_priority_queue \ {e}) \cup {Prioritized(e.alloc, Spill)}
  /\ UNCHANGED <<pass, code, frame, hints, alloc_map, occupied_map,
                 occupied_range_map, spilling, rewriting>>
-----------------------------------------------------------------------------
(* A slip: the last instruction of a range is missed.                      *)
VisitsBeforeLast(a, n) ==
  Cardinality({r \in live_ranges[a] : r.fromNum <= n /\ n < r.toNum})

(* How often spill's loop over the ranges of a comes to instruction n.  By *)
(* InputAssumption that is never for one without a number (n = -1).        *)
Visits(a, n) == Cardinality(Covering(live_ranges[a], n))

Temps(a) == IF Index(a) = 1 THEN FloatTemps ELSE IntTemps

(* A memory access inserted around an instruction; its address is computed *)
(* in T0, which is never allocated.                                        *)
Access(slot, reg) == [slot |-> slot, reg |-> reg]

(* A slip: the result is not stored.                                       *)
SpillDefWithoutStore(instr, a, slot, visits) ==
  IF a \notin Defs(instr) THEN instr ELSE ReplaceDef(instr, a, Temps(a)[1])

(* Every visit of an instruction that writes a adds a store after it ...   *)
SpillDef(instr, a, slot, visits) ==
  IF a \notin Defs(instr) THEN instr
  ELSE [ReplaceDef(instr, a, Temps(a)[1]) EXCEPT
          !.after = [j \in 1..visits |-> Access(slot, Temps(a)[1])] \o @]

(* ... and every visit of one that reads it a load before it, into the     *)
(* next temporary; the operand is gone after the first.                    *)
SpillUse(instr, a, slot, visits, used) ==
  IF a \notin Uses(instr) THEN instr
  ELSE [ReplaceUse(instr, a, Temps(a)[used + 1]) EXCEPT
          !.before = @ \o [j \in 1..visits |-> Access(slot, Temps(a)[used + j])]]

(* A slip: used_temp_map is not looked at.                                 *)
SpillInstrIntoT1(instr, a, slot) ==
  LET visits == Visits(a, instr.number)
  IN  IF visits = 0 THEN instr
      ELSE SpillUse(SpillDef(instr, a, slot, visits), a, slot, visits, 0)

SpillInstr(instr, a, slot) ==
  LET visits == Visits(a, instr.number)
  IN  IF visits = 0 THEN instr
      ELSE SpillUse(SpillDef(instr, a, slot, visits), a, slot, visits,
                    used_temp_map[instr.number])

SpillOperand(e) ==
  LET a    == e.alloc
      slot == PushedIndex(frame)
  IN  /\ e.status = Spill
      /\ frame' = Push(frame, 8)
      /\ operand_spill_map' = [x \in DOMAIN operand_spill_map \cup {a} |->
                                 IF x = a THEN slot ELSE operand_spill_map[x]]
      /\ blocks' = [b \in DOMAIN blocks |->
           [blocks[b] EXCEPT !.body =
              [k \in DOMAIN @ |-> SpillInstr(@[k], a, slot)]]]
      /\ used_temp_map' = [n \in InstrNumbers |->
           used_temp_map[n] + IF a \in Uses(InstrAt(n)) THEN Visits(a, n) ELSE 0]
      /\ alloc_priority_queue' = alloc_priority_queue \ {e}
      /\ UNCHANGED <<pass, num2instr, live_ranges, hints, alloc_status_map, alloc_map,
                     occupied_map, occupied_range_map, rewriting>>

(* The loop of allocate_register.                                          *)
AllocateRegister ==
  /\ pass = "allocate_register"
  /\ \E e \in Top : TryAllocate(e) \/ TrySplit(e) \/ SpillOperand(e)

AllocateRegisterReturns ==
  /\ pass = "allocate_register"
  /\ alloc_priority_queue = {}
  /\ pass' = "rewrite_operands"
  /\ UNCHANGED <<code, frame, hints, allocation, spilling, rewriting>>
-----------------------------------------------------------------------------
RewriteInstr(instr, a, reg) ==
  IF Visits(a, instr.number) = 0 THEN instr
  ELSE ReplaceUse(ReplaceDef(instr, a, reg), a, reg)

(* A slip: add_saved_register is not called.                               *)
AddNoSavedRegister(reg) == UNCHANGED <<frame, saved_registers>>

(* add_saved_register                                                      *)
AddSavedRegister(reg) ==
  IF reg \in CalleeSaved \ DOMAIN saved_registers
    THEN /\ frame' = Push(frame, 8)
         /\ saved_registers' = [r \in DOMAIN saved_registers \cup {reg} |->
              IF r = reg THEN PushedIndex(frame) ELSE saved_registers[r]]
    ELSE UNCHANGED <<frame, saved_registers>>

(* One turn of the loop of rewrite_operands over alloc_map.                *)
RewriteOperand ==
  /\ pass = "rewrite_operands"
  /\ \E a \in DOMAIN alloc_map \ rewritten :
       /\ blocks' = [b \in DOMAIN blocks |->
            [blocks[b] EXCEPT !.body =
               [k \in DOMAIN @ |-> RewriteInstr(@[k], a, alloc_map[a])]]]
       /\ AddSavedRegister(alloc_map[a])
       /\ rewritten' = rewritten \cup {a}
  /\ UNCHANGED <<pass, num2instr, live_ranges, hints, allocation, spilling>>

RewriteOperandsReturns ==
  /\ pass = "rewrite_operands"
  /\ rewritten = DOMAIN alloc_map
  /\ pass' = "generate_prolog"
  /\ UNCHANGED <<code, frame, hints, allocation, spilling, rewriting>>

Next ==
  \/ AllocateHint
  \/ AllocateInit
  \/ AllocateWeight
  \/ FillQueue
  \/ AllocateRegister
  \/ AllocateRegisterReturns
  \/ RewriteOperand
  \/ RewriteOperandsReturns

Spec == Init /\ [][Next]_vars
FairSpec == Spec /\ WF_vars(Next)
-----------------------------------------------------------------------------
Allocating == pass \in {"allocate_register", "rewrite_operands", "generate_prolog"}
Allocated == pass \in {"rewrite_operands", "generate_prolog"}
Finished == pass = "generate_prolog"

Queued == {e.alloc : e \in alloc_priority_queue}

TypeOK ==
  /\ pass \in {"allocate_hint", "allocate_init", "allocate_weight", "fill_queue",
               "allocate_register", "rewrite_operands", "generate_prolog"}
  /\ DOMAIN alloc_status_map \subseteq Allocs
  /\ \A a \in DOMAIN alloc_status_map : alloc_status_map[a] \in New..Spill
  /\ DOMAIN alloc_map \subseteq Allocs
  /\ \A a \in DOMAIN alloc_map : alloc_map[a] \in Allocatable
  /\ occupied_map \in [Allocatable -> SUBSET Allocs]
  /\ DOMAIN occupied_range_map = Allocatable
  /\ \A e \in alloc_priority_queue : e.alloc \in Allocs /\ e.status \in New..Spill
  /\ DOMAIN operand_spill_map \subseteq Allocs
  /\ \A a \in DOMAIN operand_spill_map : operand_spill_map[a] \in 1..Len(frame.locals)
  /\ DOMAIN saved_registers \subseteq CalleeSaved
  /\ \A r \in DOMAIN saved_registers : saved_registers[r] \in 1..Len(frame.locals)
  /\ frame \in Frames
  /\ rewritten \subseteq Allocs

(* The maps of the allocator agree: occupied_map and occupied_range_map    *)
(* are alloc_map read the other way, ranges included, an operand is at     *)
(* most once in the queue, and has a status, which its entry there repeats.*)
Bookkeeping ==
  /\ \A r \in Allocatable :
       /\ occupied_map[r] = {a \in DOMAIN alloc_map : alloc_map[a] = r}
       /\ occupied_range_map[r] =
            UNION {{AllocRange(q, a) : q \in live_ranges[a]} : a \in occupied_map[r]}
  /\ \A e, f \in alloc_priority_queue : e.alloc = f.alloc => e = f
  /\ \A e \in alloc_priority_queue : e.status = alloc_status_map[e.alloc]
  /\ pass \notin {"allocate_hint", "allocate_init"} => DOMAIN alloc_status_map = Allocs

(* From the moment the queue is filled every operand is in exactly one of  *)
(* three places: a register of its own class, a slot, or the queue.        *)
Placement ==
  /\ IF Allocating
       THEN Allocs = DOMAIN alloc_map \cup DOMAIN operand_spill_map \cup Queued
       ELSE DOMAIN alloc_map = {} /\ DOMAIN operand_spill_map = {} /\ Queued = {}
  /\ DOMAIN alloc_map \cap DOMAIN operand_spill_map = {}
  /\ Queued \cap (DOMAIN alloc_map \cup DOMAIN operand_spill_map) = {}
  /\ \A a \in DOMAIN alloc_map : Index(alloc_map[a]) = Index(a)
  /\ Allocated => Queued = {}

(* What the passes maintain, and what the proofs rest on.                  *)
AllocInv == Bookkeeping /\ Placement

(* No two operands that are live at the same time share a register, and    *)
(* none is given a register while the register is in use for itself, as an *)
(* argument or because a call destroys it.  The scan of try_allocate looks *)
(* only at a part of the ranges that occupy the register.                  *)
NoClobber ==
  \A a \in DOMAIN alloc_map :
    /\ ~AnyConflict(live_ranges[a], live_ranges[alloc_map[a]])
    /\ \A b \in DOMAIN alloc_map :
         a # b /\ alloc_map[a] = alloc_map[b] =>
           ~AnyConflict(live_ranges[a], live_ranges[b])

(* An operand goes to memory only if every register of its class is taken: *)
(* live for itself, or holding an operand that is live at the same time.   *)
SpilledUnderPressure ==
  \A a \in DOMAIN alloc_status_map :
    alloc_status_map[a] \in {Split, Spill} =>
      \A r \in Allocatable :
        Index(r) = Index(a) =>
          \/ AnyConflict(live_ranges[a], live_ranges[r])
          \/ \E b \in DOMAIN alloc_map :
               alloc_map[b] = r /\ AnyConflict(live_ranges[a], live_ranges[b])

(* Once the queue is empty every operand is in exactly one place: in a     *)
(* register of its own class, or in a slot.                                *)
EveryOperandPlaced ==
  Allocated =>
    \A a \in Allocs :
      \/ a \in DOMAIN alloc_map \ DOMAIN operand_spill_map /\ Index(alloc_map[a]) = Index(a)
      \/ a \in DOMAIN operand_spill_map \ DOMAIN alloc_map

(* A spilled operand and a saved register never share bytes of the frame   *)
(* with each other, with what was in the frame before, or with ra.         *)
SlotsApart ==
  LET slots == {operand_spill_map[a] : a \in DOMAIN operand_spill_map}
                 \cup {saved_registers[r] : r \in DOMAIN saved_registers}
      Bytes(o) == (o.offset - o.size)..(o.offset - 1)
  IN  /\ Cardinality(slots) =
           Cardinality(DOMAIN operand_spill_map) + Cardinality(DOMAIN saved_registers)
      /\ \A i \in slots :
           /\ Bytes(frame.locals[i]) \cap Bytes(RA) = {}
           /\ \A j \in DOMAIN frame.locals \ {i} :
                Bytes(frame.locals[i]) \cap Bytes(frame.locals[j]) = {}

(* The reloads before an instruction do not overwrite one another: they go *)
(* to different temporaries, which exist, are of the class of the operand, *)
(* and are never allocated.                                                *)
ReloadsApart ==
  \A n \in InstrNumbers :
    LET before == InstrAt(n).before
    IN  /\ \A i, j \in DOMAIN before : i # j => before[i].reg # before[j].reg
        /\ \A i \in DOMAIN before : before[i].reg \notin Allocatable
        /\ \A a \in DOMAIN operand_spill_map : \A i \in DOMAIN before :
             before[i].slot = operand_spill_map[a] => Index(before[i].reg) = Index(a)

(* After rewrite_operands no instruction mentions a virtual operand, and   *)
(* every callee-saved register it writes has been given a slot.            *)
CodeIsPhysical ==
  Finished =>
    \A n \in InstrNumbers :
      /\ Defs(InstrAt(n)) \cup Uses(InstrAt(n)) \subseteq Physical
      /\ Defs(InstrAt(n)) \cap CalleeSaved \subseteq DOMAIN saved_registers

(* A heavier operand is not sent to memory in favour of lighter ones: when *)
(* try_allocate gives up on an operand, no register of its class is held   *)
(* by conflicting operands that together weigh less.                       *)
BlockWeight(r) == block_weight_map[r.block] * r.instr_cnt

SpillWeight(a) ==   \* twice the weight, which is then a natural number
  MapThenSumSet(BlockWeight, live_ranges[a]) *
    (IF a \in DOMAIN coalesce_map THEN 3 ELSE IF a \in DOMAIN hint_map THEN 4 ELSE 2)

LighterLoses ==
  [][\A a \in DOMAIN alloc_status_map :
       alloc_status_map[a] = New /\ alloc_status_map'[a] = Split =>
         \A r \in Allocatable :
           Index(r) = Index(a) /\ ~HardConflict(r, a) =>
             SpillWeight(a) <=
               MapThenSumSet(SpillWeight,
                 {b \in occupied_map[r] : AnyConflict(live_ranges[a], live_ranges[b])})]_vars

(* How far the loop has got with an operand: no further than its status,   *)
(* or all the way, to a register or a slot.                                *)
Progress(a) ==
  IF a \in DOMAIN alloc_map \cup DOMAIN operand_spill_map THEN Spill + 1
  ELSE IF a \in DOMAIN alloc_status_map THEN alloc_status_map[a] ELSE New

(* What an operand was given it keeps; and a turn of the loop of           *)
(* allocate_register takes one operand of the queue further and leaves all *)
(* the others where they are.  An operand goes further three times at      *)
(* most, so there are only so many turns, in whatever order the entries    *)
(* come out of the queue.                                                  *)
QueueAdvances ==
  [][/\ \A a \in DOMAIN alloc_map :
          a \in DOMAIN alloc_map' /\ alloc_map'[a] = alloc_map[a]
     /\ \A a \in DOMAIN operand_spill_map :
          a \in DOMAIN operand_spill_map' /\ operand_spill_map'[a] = operand_spill_map[a]
     /\ pass = "allocate_register" /\ pass' = pass =>
          \E a \in Queued :
            /\ Progress(a)' > Progress(a)
            /\ \A b \in Allocs \ {a} : Progress(b)' = Progress(b)]_vars

(* The queue empties: every operand is tried, split and spilled at most    *)
(* once.                                                                   *)
AllocationTerminates == <>Finished
=============================================================================
