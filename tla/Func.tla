-------------------------------- MODULE Func --------------------------------
(***************************************************************************)
(* Func::passes (src/include/bkd_func.h) from the code instruction         *)
(* selection produced to the code that is printed but for the pseudo       *)
(* instructions: the analysis of module Liveness, then the allocation of   *)
(* module RegAlloc.  The two share the blocks, the numbering and the live  *)
(* ranges; allocate_hint, the first pass of the second, runs when the      *)
(* first is done.                                                          *)
(***************************************************************************)
EXTENDS MachineCode, StackFrame

CONSTANTS
  Functions,   \* what instruction selection may produce, see Liveness
  LocalFrames  \* the frames with the local variables of a function

ASSUME FunctionsAssumption ==
  \A f \in Functions :
    /\ IsSelected(f) /\ UnreachedIsEpilog(f)
    /\ \A b \in DOMAIN f : \A k \in DOMAIN f[b].body : IsSpillable(f[b].body[k])

(* What FrameLayout leaves, as FrameLayout_proofs shows.                   *)
ASSUME FramesAssumption == \A f \in LocalFrames : f \in Frames /\ Stacked(f)

ASSUME TempsAssumption == TempsAreFit

VARIABLES
  pass, blocks, num2instr, live_ranges,
  calls, visited, INs, OUTs, pending_blocks, cursor, range_buffer,
  frame, coalesce_map, hint_map, block_weight_map,
  alloc_status_map, alloc_map, occupied_map, occupied_range_map,
  alloc_priority_queue, operand_spill_map, used_temp_map,
  rewritten, saved_registers

Analysis == INSTANCE Liveness
Allocator == INSTANCE RegAlloc WITH Inputs <- {}

analysing == <<calls, visited, INs, OUTs, pending_blocks, cursor, range_buffer>>
allocating == <<frame, coalesce_map, hint_map, block_weight_map, alloc_status_map,
                alloc_map, occupied_map, occupied_range_map, alloc_priority_queue,
                operand_spill_map, used_temp_map, rewritten, saved_registers>>
vars == <<pass, blocks, num2instr, live_ranges, analysing, allocating>>

(* Every convert_alloca_instr has pushed its variable by now.              *)
Init ==
  /\ Analysis!Init
  /\ frame \in LocalFrames
  /\ Allocator!InitAllocator

Analyse == Analysis!Next /\ UNCHANGED allocating
Allocate == Allocator!Next /\ UNCHANGED analysing

Next == Analyse \/ Allocate

Spec == Init /\ [][Next]_vars

(* A compiler runs to its end.                                             *)
FairSpec == Spec /\ WF_vars(Next)
-----------------------------------------------------------------------------
(* No operand goes to memory to the benefit of lighter ones, weighed       *)
(* by the allocator's own spill weight: see RegAlloc.                      *)
LighterLoses == Allocator!LighterLoses
=============================================================================
