--------------------------- MODULE RegAlloc_proofs ---------------------------
(***************************************************************************)
(* Proofs about the register allocator, for every function, every set of   *)
(* registers and every set of live ranges in order.                        *)
(***************************************************************************)
EXTENDS RegAlloc, Lemmas, FiniteSetTheorems

(* The ranges are the input's and no pass changes them.                    *)
RangesOK == \A o \in Operands : InOrder(live_ranges[o])

IInv == TypeOK /\ RangesOK /\ AllocInv /\ NoClobber /\ SpilledUnderPressure

LEMMA AllocFacts ==
  /\ Allocs \subseteq Virtual
  /\ Allocs \subseteq Int
  /\ Virtual \subseteq Operands
  /\ Allocatable \subseteq Operands
<1>1. Virtual \subseteq Nat /\ REG_ALLOC \in Seq(Physical)
  BY OperandAssumption
<1>2. Allocs \subseteq Virtual
  BY DEF Allocs
<1>3. Allocatable \subseteq Physical
  BY <1>1 DEF Allocatable, ToSet
<1> QED
  BY <1>1, <1>2, <1>3 DEF Operands

LEMMA PrioritizedFields ==
  ASSUME NEW a, NEW status
  PROVE  Prioritized(a, status).alloc = a /\ Prioritized(a, status).status = status
BY DEF Prioritized

(* The numbers in a range of a virtual operand are indices of num2instr.   *)
RangesAreNumbered ==
  /\ Len(num2instr) \in Nat
  /\ \A o \in Virtual : \A r \in live_ranges[o] : IsNumbered(num2instr, r)

(* What allocate_hint begins with, in the code as in the module.           *)
HandedOver ==
  /\ pass = "allocate_hint" /\ InitAllocator
  /\ frame \in Frames /\ Stacked(frame)
  /\ IsAnalysed(blocks, num2instr, live_ranges)
  /\ \A o \in Virtual : \A r \in live_ranges[o] : IsNumbered(num2instr, r)
  /\ \A b \in DOMAIN blocks : \A k \in DOMAIN blocks[b].body : IsSpillable(blocks[b].body[k])

LEMMA InitHandedOver == Init => HandedOver
BY InputAssumption DEF Init, HandedOver

LEMMA InitInv == HandedOver => IInv
<1> SUFFICES ASSUME HandedOver
             PROVE  IInv
  OBVIOUS
<1> USE DEF HandedOver, InitAllocator
<1>1. TypeOK
  BY DEF TypeOK, Allocs
<1>2. RangesOK
  BY DEF RangesOK, IsAnalysed
<1>3. AllocInv
  BY DEF AllocInv, Bookkeeping, Placement, Allocating, Allocated, Queued
<1>4. NoClobber /\ SpilledUnderPressure
  BY DEF NoClobber, SpilledUnderPressure
<1> QED
  BY <1>1, <1>2, <1>3, <1>4 DEF IInv

-----------------------------------------------------------------------------
(* Every step of the allocator preserves IInv; one lemma per action, those *)
(* before the queue is filled together.                                    *)
LEMMA EarlyStep ==
  ASSUME IInv, AllocateHint \/ AllocateInit \/ AllocateWeight
  PROVE  IInv'
<1> USE DEF IInv
<1>1. /\ alloc_map' = alloc_map /\ operand_spill_map' = operand_spill_map
      /\ alloc_priority_queue' = alloc_priority_queue
      /\ live_ranges' = live_ranges /\ frame' = frame /\ rewritten' = rewritten
      /\ saved_registers' = saved_registers
      /\ ~Allocating /\ ~Allocating' /\ ~Allocated'
      /\ pass' \in {"allocate_init", "allocate_weight", "fill_queue"}
  BY DEF AllocateHint, AllocateInit, AllocateWeight, code, allocation, spilling,
         rewriting, Allocating, Allocated
<1>2. Allocs' = Allocs
  BY <1>1 DEF Allocs
<1>3. CASE AllocateInit
  <2>1. /\ alloc_status_map' = [a \in Allocs |-> New]
        /\ occupied_map' = [r \in Allocatable |-> {}]
        /\ occupied_range_map' = [r \in Allocatable |-> {}]
    BY <1>3 DEF AllocateInit
  <2>2. DOMAIN alloc_map = {} /\ alloc_priority_queue = {}
    BY <1>1 DEF AllocInv, Placement, Queued
  <2>3. TypeOK'
    BY <1>1, <1>2, <2>1 DEF TypeOK, New, Spill
  <2>4. AllocInv'
    BY <1>1, <1>2, <2>1, <2>2 DEF AllocInv, Bookkeeping, Placement, Queued
  <2>5. NoClobber' /\ SpilledUnderPressure'
    BY <1>1, <2>1, <2>2 DEF NoClobber, SpilledUnderPressure, New, Split, Spill
  <2> QED
    BY <1>1, <2>3, <2>4, <2>5 DEF RangesOK
<1>4. CASE AllocateHint \/ AllocateWeight
  <2>1. /\ alloc_status_map' = alloc_status_map
        /\ occupied_map' = occupied_map
        /\ occupied_range_map' = occupied_range_map
        /\ pass = "allocate_weight" \/ pass' = "allocate_init"
    BY <1>4 DEF AllocateHint, AllocateWeight, allocation
  <2>2. TypeOK'
    BY <1>1, <1>2, <2>1 DEF TypeOK
  <2>3. AllocInv'
    BY <1>1, <1>2, <2>1 DEF AllocInv, Bookkeeping, Placement, Queued
  <2>4. NoClobber' /\ SpilledUnderPressure'
    BY <1>1, <2>1 DEF NoClobber, SpilledUnderPressure
  <2> QED
    BY <1>1, <2>2, <2>3, <2>4 DEF RangesOK
<1> QED
  BY <1>3, <1>4

LEMMA FillQueueStep ==
  ASSUME IInv, FillQueue
  PROVE  IInv'
<1> USE DEF IInv
<1>1. /\ alloc_map' = alloc_map /\ operand_spill_map' = operand_spill_map
      /\ alloc_status_map' = alloc_status_map
      /\ occupied_map' = occupied_map /\ occupied_range_map' = occupied_range_map
      /\ live_ranges' = live_ranges /\ frame' = frame /\ rewritten' = rewritten
      /\ saved_registers' = saved_registers
      /\ pass = "fill_queue" /\ pass' = "allocate_register" /\ ~Allocating
      /\ alloc_priority_queue' = {Prioritized(a, alloc_status_map[a]) : a \in Allocs}
  BY DEF FillQueue, code, spilling, rewriting, Allocating
<1>2. Allocs' = Allocs
  BY <1>1 DEF Allocs
<1>3. Allocating' /\ ~Allocated'
  BY <1>1 DEF Allocating, Allocated
<1>4. DOMAIN alloc_map = {} /\ DOMAIN operand_spill_map = {}
  BY <1>1 DEF AllocInv, Placement
<1>5. Queued' = Allocs
  BY <1>1, PrioritizedFields DEF Queued
<1>6. \A e \in alloc_priority_queue' :
        e.alloc \in Allocs /\ e = Prioritized(e.alloc, alloc_status_map[e.alloc])
                           /\ e.status = alloc_status_map[e.alloc]
  BY <1>1, PrioritizedFields
<1>7. TypeOK'
  <2>1. DOMAIN alloc_status_map = Allocs
    BY <1>1 DEF AllocInv, Bookkeeping
  <2> QED
    BY <1>1, <1>2, <1>6, <2>1 DEF TypeOK
<1>8. AllocInv'
  <2>1. Bookkeeping'
    BY <1>1, <1>2, <1>6 DEF AllocInv, Bookkeeping
  <2>2. Placement'
    BY <1>1, <1>2, <1>3, <1>4, <1>5 DEF AllocInv, Placement
  <2> QED
    BY <2>1, <2>2 DEF AllocInv
<1>9. NoClobber' /\ SpilledUnderPressure'
  BY <1>1 DEF NoClobber, SpilledUnderPressure
<1> QED
  BY <1>1, <1>7, <1>8, <1>9 DEF RangesOK

(* The heart of it: a register that try_allocate finds free conflicts with *)
(* no operand it holds.  The scan sees only a part of the ranges.          *)
LEMMA FreeIsFree ==
  ASSUME IInv, NEW a \in Allocs, NEW reg \in Allocatable,
         NEW first \in FirstRanges(a), Free(reg, a, first),
         NEW b \in DOMAIN alloc_map, alloc_map[b] = reg
  PROVE  ~AnyConflict(live_ranges[a], live_ranges[b])
<1> USE DEF IInv
<1> DEFINE occupied == occupied_range_map[reg]
           S == live_ranges[a]
<1>1. DOMAIN alloc_map \subseteq Allocs
  BY DEF TypeOK
<1>2. \A x \in Allocs : x \in Int /\ InOrder(live_ranges[x])
  BY AllocFacts DEF RangesOK
<1>3. occupied = UNION {{AllocRange(q, x) : q \in live_ranges[x]} :
                          x \in {y \in DOMAIN alloc_map : alloc_map[y] = reg}}
  BY DEF AllocInv, Bookkeeping
<1>4. \A e \in occupied : /\ e.alloc \in DOMAIN alloc_map /\ alloc_map[e.alloc] = reg
                          /\ e.range \in live_ranges[e.alloc]
  BY <1>3 DEF AllocRange
<1>5. \A x \in DOMAIN alloc_map : \A q \in live_ranges[x] :
        alloc_map[x] = reg => AllocRange(q, x) \in occupied /\ AllocRange(q, x).range = q
  BY <1>3 DEF AllocRange
<1>6. WellOccupied(occupied)
  <2>1. \A e \in occupied : IsRange(e.range) /\ e.alloc \in Int
    BY <1>1, <1>2, <1>4 DEF InOrder
  <2>2. ASSUME NEW e \in occupied, NEW f \in occupied,
               e.alloc = f.alloc, Less(e.range, f.range)
        PROVE  e.range.toNum <= f.range.fromNum
    BY <1>1, <1>2, <1>4, <2>2 DEF InOrder
  <2>3. ASSUME NEW e \in occupied, NEW f \in occupied, e.alloc # f.alloc
        PROVE  ~conflict(f.range, e.range)
    BY <1>4, <2>3 DEF NoClobber, AnyConflict
  <2> QED
    BY <2>1, <2>2, <2>3 DEF WellOccupied
<1>7. occupied_map[reg] # {}
  BY DEF AllocInv, Bookkeeping
<1>8. \A e \in ScanFrom(occupied, AllocRange(first, a)) : ~AnyConflict(S, {e.range})
  BY <1>7 DEF Free, SoftConflict
<1>9. /\ first \in S /\ InOrder(S) /\ a \in Int
      /\ \A r \in S : first.fromNum <= r.fromNum
  BY <1>2 DEF FirstRanges
<1>10. \A e \in occupied : ~AnyConflict(S, {e.range})
  <2> HIDE DEF occupied, S
  <2> QED
    BY <1>6, <1>8, <1>9, ScanIsComplete
<1> QED
  BY <1>5, <1>10 DEF AnyConflict

LEMMA ConflictOfAllocs ==
  ASSUME RangesOK, NEW o \in Operands, NEW p \in Operands
  PROVE  AnyConflict(live_ranges[o], live_ranges[p]) <=>
           AnyConflict(live_ranges[p], live_ranges[o])
<1>1. \A a \in live_ranges[o], r \in live_ranges[p] : conflict(a, r) <=> conflict(r, a)
  BY ConflictSymmetric DEF RangesOK, InOrder
<1> QED
  BY <1>1 DEF AnyConflict

(* try_allocate gives e.alloc the free register reg.                       *)
LEMMA AssignStep ==
  ASSUME IInv, pass = "allocate_register", NEW e \in alloc_priority_queue,
         NEW first \in FirstRanges(e.alloc), NEW reg \in Allocatable,
         Free(reg, e.alloc, first), AssignRegister(e.alloc, reg),
         alloc_priority_queue' = alloc_priority_queue \ {e},
         UNCHANGED <<pass, code, frame, spilling, rewriting>>
  PROVE  IInv'
<1> USE DEF IInv
<1> DEFINE a == e.alloc
<1>1. /\ occupied_map' = [occupied_map EXCEPT ![reg] = @ \cup {a}]
      /\ occupied_range_map' = [occupied_range_map EXCEPT
            ![reg] = @ \cup {AllocRange(r, a) : r \in live_ranges[a]}]
      /\ alloc_map' = [x \in DOMAIN alloc_map \cup {a} |->
                         IF x = a THEN reg ELSE alloc_map[x]]
      /\ alloc_status_map' = [alloc_status_map EXCEPT ![a] = Assign]
  BY DEF AssignRegister, AllocRanges
<1>2. /\ pass' = pass /\ live_ranges' = live_ranges /\ frame' = frame
      /\ operand_spill_map' = operand_spill_map /\ rewritten' = rewritten
      /\ saved_registers' = saved_registers
  BY DEF code, spilling, rewriting
<1>3. Allocs' = Allocs
  BY <1>2 DEF Allocs
<1>4. a \in Allocs /\ a \in Queued
  BY DEF TypeOK, Queued
<1>5. a \notin DOMAIN alloc_map /\ a \notin DOMAIN operand_spill_map
  BY <1>4 DEF AllocInv, Placement
<1>6. Queued' = Queued \ {a}
  BY DEF Queued, AllocInv, Bookkeeping
<1>7. Allocating /\ Allocating' /\ ~Allocated'
  BY <1>2 DEF Allocating, Allocated
<1>8. Index(reg) = Index(a) /\ ~AnyConflict(live_ranges[a], live_ranges[reg])
  BY DEF Free, HardConflict
<1>9. \A x \in DOMAIN alloc_map : alloc_map'[x] = alloc_map[x]
  BY <1>1, <1>5
<1>10. DOMAIN alloc_map' = DOMAIN alloc_map \cup {a} /\ alloc_map'[a] = reg
  BY <1>1
<1> HIDE DEF a
<1>11. TypeOK'
  <2>1. /\ DOMAIN alloc_map' \subseteq Allocs
        /\ \A x \in DOMAIN alloc_map' : alloc_map'[x] \in Allocatable
    BY <1>4, <1>9, <1>10 DEF TypeOK
  <2>2. /\ DOMAIN alloc_status_map' \subseteq Allocs
        /\ \A x \in DOMAIN alloc_status_map' : alloc_status_map'[x] \in New..Spill
    BY <1>1 DEF TypeOK, New, Assign, Spill
  <2>3. /\ occupied_map' \in [Allocatable -> SUBSET Allocs]
        /\ DOMAIN occupied_range_map' = Allocatable
    BY <1>1, <1>4 DEF TypeOK
  <2> QED
    BY <1>2, <1>3, <2>1, <2>2, <2>3 DEF TypeOK
<1>12. Bookkeeping'
  <2>1. ASSUME NEW r \in Allocatable
        PROVE  occupied_map'[r] = {x \in DOMAIN alloc_map' : alloc_map'[x] = r}
    <3>1. occupied_map[r] = {x \in DOMAIN alloc_map : alloc_map[x] = r}
      BY DEF AllocInv, Bookkeeping
    <3>2. {x \in DOMAIN alloc_map' : alloc_map'[x] = r}
            = {x \in DOMAIN alloc_map : alloc_map[x] = r} \cup
                (IF r = reg THEN {a} ELSE {})
      BY <1>5, <1>9, <1>10
    <3>3. occupied_map'[r] = occupied_map[r] \cup (IF r = reg THEN {a} ELSE {})
      BY <1>1 DEF TypeOK
    <3> QED
      BY <3>1, <3>2, <3>3
  <2>2. ASSUME NEW r \in Allocatable
        PROVE  occupied_range_map'[r] =
                 UNION {{AllocRange(q, x) : q \in live_ranges'[x]} : x \in occupied_map'[r]}
    <3>1. occupied_range_map[r] =
            UNION {{AllocRange(q, x) : q \in live_ranges[x]} : x \in occupied_map[r]}
      BY DEF AllocInv, Bookkeeping
    <3>2. CASE r = reg
      <4>1. occupied_map'[r] = occupied_map[r] \cup {a}
        BY <1>1, <3>2 DEF TypeOK
      <4>2. occupied_range_map'[r] = occupied_range_map[r]
                                       \cup {AllocRange(q, a) : q \in live_ranges[a]}
        BY <1>1, <3>2 DEF TypeOK
      <4> QED
        BY <1>2, <3>1, <4>1, <4>2
    <3>3. CASE r # reg
      BY <1>1, <1>2, <3>1, <3>3 DEF TypeOK
    <3> QED
      BY <3>2, <3>3
  <2>3. \A f, g \in alloc_priority_queue' : f.alloc = g.alloc => f = g
    BY DEF AllocInv, Bookkeeping
  <2>4. DOMAIN alloc_status_map' = Allocs'
    BY <1>1, <1>3 DEF AllocInv, Bookkeeping
  <2>5. \A f \in alloc_priority_queue' : f.status = alloc_status_map'[f.alloc]
    BY <1>1, <2>4, <1>3 DEF AllocInv, Bookkeeping, TypeOK, a
  <2> QED
    BY <2>1, <2>2, <2>3, <2>4, <2>5 DEF Bookkeeping
<1>13. Placement'
  BY <1>2, <1>3, <1>4, <1>5, <1>6, <1>7, <1>8, <1>9, <1>10 DEF AllocInv, Placement
<1>14. NoClobber'
  <2>1. ASSUME NEW b \in DOMAIN alloc_map, alloc_map[b] = reg
        PROVE  /\ ~AnyConflict(live_ranges[a], live_ranges[b])
               /\ ~AnyConflict(live_ranges[b], live_ranges[a])
    <3>1. a \in Operands /\ b \in Operands
      BY <1>4, AllocFacts DEF TypeOK
    <3>2. ~AnyConflict(live_ranges[a], live_ranges[b])
      BY <1>4, <2>1, FreeIsFree DEF a
    <3> QED
      BY <3>1, <3>2, ConflictOfAllocs
  <2> QED
    BY <1>2, <1>8, <1>9, <1>10, <2>1 DEF NoClobber
<1>15. SpilledUnderPressure'
  <2>1. \A x \in DOMAIN alloc_status_map' :
          /\ x \in DOMAIN alloc_status_map
          /\ alloc_status_map'[x] \in {Split, Spill} =>
               alloc_status_map[x] \in {Split, Spill}
    BY <1>1 DEF New, Assign, Split, Spill
  <2> QED
    BY <1>2, <1>9, <1>10, <2>1 DEF SpilledUnderPressure
<1> QED
  BY <1>2, <1>11, <1>12, <1>13, <1>14, <1>15 DEF RangesOK, AllocInv

(* e.alloc goes back to the queue with the next status: no register was    *)
(* free in try_allocate, or try_split had its turn.                        *)
LEMMA RequeueStep ==
  ASSUME IInv, pass = "allocate_register", NEW e \in alloc_priority_queue,
         NEW status \in {Split, Spill},
         \A r \in Allocatable :
           Index(r) = Index(e.alloc) =>
             \/ AnyConflict(live_ranges[e.alloc], live_ranges[r])
             \/ \E b \in DOMAIN alloc_map :
                  alloc_map[b] = r /\ AnyConflict(live_ranges[e.alloc], live_ranges[b]),
         alloc_status_map' = [alloc_status_map EXCEPT ![e.alloc] = status],
         alloc_priority_queue' =
           (alloc_priority_queue \ {e}) \cup {Prioritized(e.alloc, status)},
         UNCHANGED <<pass, code, frame, alloc_map, occupied_map, occupied_range_map,
                     spilling, rewriting>>
  PROVE  IInv'
<1> USE DEF IInv
<1> DEFINE a == e.alloc
<1>1. /\ pass' = pass /\ live_ranges' = live_ranges /\ frame' = frame
      /\ alloc_map' = alloc_map /\ operand_spill_map' = operand_spill_map
      /\ occupied_map' = occupied_map /\ occupied_range_map' = occupied_range_map
      /\ rewritten' = rewritten /\ saved_registers' = saved_registers
  BY DEF code, spilling, rewriting
<1>2. Allocs' = Allocs
  BY <1>1 DEF Allocs
<1>3. \A f \in alloc_priority_queue' :
        \/ f \in alloc_priority_queue /\ f # e
        \/ f = Prioritized(a, status) /\ f.alloc = a /\ f.status = status
  BY PrioritizedFields
<1>4. Prioritized(a, status) \in alloc_priority_queue' /\ Prioritized(a, status).alloc = a
  BY PrioritizedFields
<1>5. \A f \in alloc_priority_queue : f.alloc = a => f = e
  BY DEF AllocInv, Bookkeeping
<1>6. Queued' = Queued
  BY <1>3, <1>4 DEF Queued
<1>7. Allocating /\ Allocating' /\ ~Allocated'
  BY <1>1 DEF Allocating, Allocated
<1>8. status \in New..Spill
  BY DEF New, Split, Spill
<1>9. TypeOK'
  <2>1. a \in Allocs
    BY DEF TypeOK
  <2>2. \A f \in alloc_priority_queue' : f.alloc \in Allocs /\ f.status \in New..Spill
    BY <1>3, <1>8, <2>1 DEF TypeOK
  <2>3. \A x \in DOMAIN alloc_status_map' : alloc_status_map'[x] \in New..Spill
    BY <1>8 DEF TypeOK
  <2> QED
    BY <1>1, <1>2, <2>2, <2>3 DEF TypeOK
<1>10. Bookkeeping'
  <2>1. \A f, g \in alloc_priority_queue' : f.alloc = g.alloc => f = g
    BY <1>3, <1>5 DEF AllocInv, Bookkeeping
  <2>2. DOMAIN alloc_status_map = Allocs
    BY DEF AllocInv, Bookkeeping
  <2>3. \A f \in alloc_priority_queue' : f.status = alloc_status_map'[f.alloc]
    BY <1>3, <1>5, <2>2 DEF AllocInv, Bookkeeping, TypeOK
  <2> QED
    BY <1>1, <1>2, <2>1, <2>2, <2>3 DEF AllocInv, Bookkeeping
<1>11. Placement'
  BY <1>1, <1>2, <1>6, <1>7 DEF AllocInv, Placement
<1>12. NoClobber'
  BY <1>1 DEF NoClobber
<1>13. SpilledUnderPressure'
  BY <1>1 DEF SpilledUnderPressure
<1> QED
  BY <1>1, <1>9, <1>10, <1>11, <1>12, <1>13 DEF RangesOK, AllocInv

LEMMA TryAllocateStep ==
  ASSUME IInv, pass = "allocate_register", NEW e \in Top, TryAllocate(e)
  PROVE  IInv'
<1>1. e \in alloc_priority_queue
  BY DEF Top
<1>2. PICK first \in FirstRanges(e.alloc) :
        LET free == {r \in Allocatable : Free(r, e.alloc, first)}
        IN  \/ \E reg \in free :
                 /\ \A other \in free : Tried(e.alloc, reg) <= Tried(e.alloc, other)
                 /\ AssignRegister(e.alloc, reg)
                 /\ alloc_priority_queue' = alloc_priority_queue \ {e}
            \/ /\ free = {}
               /\ alloc_status_map' = [alloc_status_map EXCEPT ![e.alloc] = Split]
               /\ alloc_priority_queue' =
                    (alloc_priority_queue \ {e}) \cup {Prioritized(e.alloc, Split)}
               /\ UNCHANGED <<hint_map, alloc_map, occupied_map, occupied_range_map>>
  BY DEF TryAllocate
<1>3. UNCHANGED <<pass, code, frame, coalesce_map, block_weight_map, spilling, rewriting>>
  BY DEF TryAllocate
<1>4. ASSUME NEW reg \in Allocatable, Free(reg, e.alloc, first),
             AssignRegister(e.alloc, reg),
             alloc_priority_queue' = alloc_priority_queue \ {e}
      PROVE  IInv'
  BY <1>1, <1>3, <1>4, AssignStep
<1>5. ASSUME \A r \in Allocatable : ~Free(r, e.alloc, first),
             alloc_status_map' = [alloc_status_map EXCEPT ![e.alloc] = Split],
             alloc_priority_queue' =
               (alloc_priority_queue \ {e}) \cup {Prioritized(e.alloc, Split)},
             UNCHANGED <<hint_map, alloc_map, occupied_map, occupied_range_map>>
      PROVE  IInv'
  <2>1. ASSUME NEW r \in Allocatable, Index(r) = Index(e.alloc),
               ~AnyConflict(live_ranges[e.alloc], live_ranges[r])
        PROVE  \E b \in DOMAIN alloc_map :
                 alloc_map[b] = r /\ AnyConflict(live_ranges[e.alloc], live_ranges[b])
    <3>1. SoftConflict(r, e.alloc, first)
      BY <1>5, <2>1 DEF Free, HardConflict
    <3>2. PICK f \in occupied_range_map[r] : AnyConflict(live_ranges[e.alloc], {f.range})
      BY <3>1 DEF SoftConflict, ScanFrom
    <3>3. /\ f.alloc \in DOMAIN alloc_map /\ alloc_map[f.alloc] = r
          /\ f.range \in live_ranges[f.alloc]
      BY DEF IInv, AllocInv, Bookkeeping, AllocRange
    <3> QED
      BY <3>2, <3>3 DEF AnyConflict
  <2> QED
    BY <1>1, <1>3, <1>5, <2>1, RequeueStep
<1> QED
  BY <1>2, <1>4, <1>5

LEMMA TrySplitStep ==
  ASSUME IInv, pass = "allocate_register", NEW e \in Top, TrySplit(e)
  PROVE  IInv'
<1>1. e \in alloc_priority_queue /\ e.status = Split
  BY DEF Top, TrySplit
<1>2. e.alloc \in DOMAIN alloc_status_map /\ alloc_status_map[e.alloc] = Split
  BY <1>1 DEF IInv, AllocInv, Bookkeeping, TypeOK
<1>3. \A r \in Allocatable :
        Index(r) = Index(e.alloc) =>
          \/ AnyConflict(live_ranges[e.alloc], live_ranges[r])
          \/ \E b \in DOMAIN alloc_map :
               alloc_map[b] = r /\ AnyConflict(live_ranges[e.alloc], live_ranges[b])
  BY <1>2 DEF IInv, SpilledUnderPressure
<1> QED
  BY <1>1, <1>3, RequeueStep DEF TrySplit

LEMMA SpillOperandStep ==
  ASSUME IInv, pass = "allocate_register", NEW e \in Top, SpillOperand(e)
  PROVE  IInv'
<1> USE DEF IInv
<1> DEFINE a == e.alloc
<1>1. /\ pass' = pass /\ live_ranges' = live_ranges /\ alloc_map' = alloc_map
      /\ alloc_status_map' = alloc_status_map
      /\ occupied_map' = occupied_map /\ occupied_range_map' = occupied_range_map
      /\ rewritten' = rewritten /\ saved_registers' = saved_registers
      /\ frame' = Push(frame, 8)
      /\ operand_spill_map' = [x \in DOMAIN operand_spill_map \cup {a} |->
                                 IF x = a THEN PushedIndex(frame) ELSE operand_spill_map[x]]
      /\ DOMAIN operand_spill_map' = DOMAIN operand_spill_map \cup {a}
      /\ alloc_priority_queue' = alloc_priority_queue \ {e}
  BY DEF SpillOperand, rewriting
<1>2. Allocs' = Allocs
  BY <1>1 DEF Allocs
<1>3. e \in alloc_priority_queue /\ a \in Allocs /\ a \in Queued
  BY DEF Top, TypeOK, Queued
<1>4. Queued' = Queued \ {a}
  BY <1>1, <1>3 DEF Queued, AllocInv, Bookkeeping
<1>5. Allocating /\ Allocating' /\ ~Allocated'
  BY <1>1 DEF Allocating, Allocated
<1> HIDE DEF a
<1>6. TypeOK'
  <2>1. /\ frame' \in Frames /\ Len(frame'.locals) = Len(frame.locals) + 1
        /\ Len(frame.locals) \in Nat
    BY <1>1, PushStacks, FrameFacts DEF TypeOK
  <2>2. \A x \in DOMAIN operand_spill_map' :
          operand_spill_map'[x] \in 1..Len(frame'.locals)
    BY <1>1, <2>1 DEF TypeOK, PushedIndex
  <2>3. \A r \in DOMAIN saved_registers' :
          saved_registers'[r] \in 1..Len(frame'.locals)
    BY <1>1, <2>1 DEF TypeOK
  <2> QED
    BY <1>1, <1>2, <1>3, <2>1, <2>2, <2>3 DEF TypeOK
<1>7. Bookkeeping'
  BY <1>1, <1>2 DEF AllocInv, Bookkeeping
<1>8. Placement'
  BY <1>1, <1>2, <1>3, <1>4, <1>5 DEF AllocInv, Placement
<1>9. NoClobber' /\ SpilledUnderPressure'
  BY <1>1 DEF NoClobber, SpilledUnderPressure
<1> QED
  BY <1>1, <1>6, <1>7, <1>8, <1>9 DEF RangesOK, AllocInv

LEMMA LateStep ==
  ASSUME IInv, AllocateRegisterReturns \/ RewriteOperand \/ RewriteOperandsReturns
  PROVE  IInv'
<1> USE DEF IInv
<1>1. /\ live_ranges' = live_ranges /\ alloc_map' = alloc_map
      /\ alloc_status_map' = alloc_status_map
      /\ occupied_map' = occupied_map /\ occupied_range_map' = occupied_range_map
      /\ operand_spill_map' = operand_spill_map
      /\ alloc_priority_queue' = alloc_priority_queue
  BY DEF AllocateRegisterReturns, RewriteOperand, RewriteOperandsReturns,
         code, allocation, spilling
<1>2. Allocs' = Allocs
  BY <1>1 DEF Allocs
<1>3. /\ pass' \in {"rewrite_operands", "generate_prolog"}
      /\ pass \notin {"allocate_hint", "allocate_init"}
      /\ Allocating /\ Allocating' /\ Queued = {}
  BY DEF AllocateRegisterReturns, RewriteOperand, RewriteOperandsReturns,
         Allocating, Allocated, AllocInv, Placement, Queued
<1>4. /\ frame' \in Frames
      /\ DOMAIN saved_registers' \subseteq CalleeSaved
      /\ \A r \in DOMAIN saved_registers' : saved_registers'[r] \in 1..Len(frame'.locals)
      /\ \A a \in DOMAIN operand_spill_map :
           operand_spill_map[a] \in 1..Len(frame'.locals)
  <2>1. CASE UNCHANGED <<frame, saved_registers>>
    BY <2>1 DEF TypeOK
  <2>2. CASE \E reg \in CalleeSaved :
               /\ frame' = Push(frame, 8)
               /\ saved_registers' = [r \in DOMAIN saved_registers \cup {reg} |->
                    IF r = reg THEN PushedIndex(frame) ELSE saved_registers[r]]
    <3>1. /\ frame \in Frames /\ Len(frame.locals) \in Nat
          /\ frame' = Push(frame, 8)
      BY <2>2, FrameFacts DEF TypeOK
    <3>2. frame' \in Frames /\ Len(frame'.locals) = Len(frame.locals) + 1
      BY <3>1, PushStacks
    <3> QED
      BY <2>2, <3>1, <3>2 DEF TypeOK, PushedIndex
  <2> QED
    BY <2>1, <2>2 DEF AllocateRegisterReturns, RewriteOperand, RewriteOperandsReturns,
       AddSavedRegister, rewriting
<1>5. rewritten' \subseteq Allocs
  BY DEF AllocateRegisterReturns, RewriteOperand, RewriteOperandsReturns, rewriting, TypeOK
<1>6. TypeOK'
  BY <1>1, <1>2, <1>3, <1>4, <1>5 DEF TypeOK
<1>7. AllocInv'
  <2>1. Queued' = {}
    BY <1>1, <1>3 DEF Queued
  <2>2. Placement'
    BY <1>1, <1>2, <1>3, <2>1 DEF AllocInv, Placement
  <2>3. Bookkeeping'
    BY <1>1, <1>2, <1>3 DEF AllocInv, Bookkeeping
  <2> QED
    BY <2>2, <2>3 DEF AllocInv
<1>8. NoClobber' /\ SpilledUnderPressure'
  BY <1>1 DEF NoClobber, SpilledUnderPressure
<1> QED
  BY <1>1, <1>6, <1>7, <1>8 DEF RangesOK

LEMMA NextInv == IInv /\ [Next]_vars => IInv'
<1> SUFFICES ASSUME IInv, [Next]_vars
             PROVE  IInv'
  OBVIOUS
<1>1. CASE AllocateHint \/ AllocateInit \/ AllocateWeight
  BY <1>1, EarlyStep
<1>2. CASE FillQueue
  BY <1>2, FillQueueStep
<1>3. CASE AllocateRegister
  <2>1. pass = "allocate_register"
    BY <1>3 DEF AllocateRegister
  <2>2. PICK e \in Top : TryAllocate(e) \/ TrySplit(e) \/ SpillOperand(e)
    BY <1>3 DEF AllocateRegister
  <2> QED
    BY <2>1, <2>2, TryAllocateStep, TrySplitStep, SpillOperandStep
<1>4. CASE AllocateRegisterReturns \/ RewriteOperand \/ RewriteOperandsReturns
  BY <1>4, LateStep
<1>5. CASE UNCHANGED vars
  <2>1. /\ pass' = pass /\ live_ranges' = live_ranges /\ frame' = frame
        /\ alloc_map' = alloc_map /\ alloc_status_map' = alloc_status_map
        /\ occupied_map' = occupied_map /\ occupied_range_map' = occupied_range_map
        /\ operand_spill_map' = operand_spill_map /\ rewritten' = rewritten
        /\ saved_registers' = saved_registers
        /\ alloc_priority_queue' = alloc_priority_queue
    BY <1>5 DEF vars, code, allocation, spilling, rewriting
  <2>2. Allocs' = Allocs /\ Queued' = Queued /\ Allocating' = Allocating
          /\ Allocated' = Allocated
    BY <2>1 DEF Allocs, Queued, Allocating, Allocated
  <2>3. TypeOK' /\ RangesOK' /\ NoClobber' /\ SpilledUnderPressure'
    BY <2>1, <2>2 DEF IInv, TypeOK, RangesOK, NoClobber, SpilledUnderPressure
  <2>4. AllocInv'
    BY <2>1, <2>2 DEF IInv, AllocInv, Bookkeeping, Placement
  <2> QED
    BY <2>3, <2>4 DEF IInv
<1> QED
  BY <1>1, <1>2, <1>3, <1>4, <1>5 DEF Next

-----------------------------------------------------------------------------
LEMMA Invariance == Spec => []IInv
<1> QED
  BY InitHandedOver, InitInv, NextInv, PTL DEF Spec

(* Every map of the allocator stays within its type.                       *)
THEOREM TypeCorrect == Spec => []TypeOK
<1>1. IInv => TypeOK
  BY DEF IInv
<1> QED
  BY <1>1, Invariance, PTL

(* The allocator's maps agree with one another, and every operand is in    *)
(* one place.                                                              *)
THEOREM AllocInvariant == Spec => []AllocInv
<1>1. IInv => AllocInv
  BY DEF IInv
<1> QED
  BY <1>1, Invariance, PTL

(* No two operands live at the same time ever share a register, although   *)
(* try_allocate looks only at a part of the ranges the register holds.     *)
THEOREM NoClobberHolds == Spec => []NoClobber
<1>1. IInv => NoClobber
  BY DEF IInv
<1> QED
  BY <1>1, Invariance, PTL

(* An operand is sent to memory only if no register of its class is free.  *)
THEOREM SpillsOnlyUnderPressure == Spec => []SpilledUnderPressure
<1>1. IInv => SpilledUnderPressure
  BY DEF IInv
<1> QED
  BY <1>1, Invariance, PTL

(* When allocate_register returns, every operand has a register of its     *)
(* class or a slot, and not both.                                          *)
THEOREM AllPlaced == Spec => []EveryOperandPlaced
<1>1. IInv => EveryOperandPlaced
  BY DEF IInv, AllocInv, Placement, EveryOperandPlaced, Allocating, Allocated
<1> QED
  BY <1>1, Invariance, PTL

-----------------------------------------------------------------------------
(* The slots of the frame: every push makes a new one, and the frame stays *)
(* well laid out.                                                          *)
SlotsInv ==
  /\ Stacked(frame)
  /\ IsFiniteSet(DOMAIN operand_spill_map) /\ IsInjective(operand_spill_map)
  /\ IsFiniteSet(DOMAIN saved_registers) /\ IsInjective(saved_registers)
  /\ \A a \in DOMAIN operand_spill_map, r \in DOMAIN saved_registers :
       operand_spill_map[a] # saved_registers[r]

LEMMA InitSlots == HandedOver => SlotsInv
<1> SUFFICES ASSUME HandedOver PROVE SlotsInv
  OBVIOUS
<1>1. Stacked(frame)
  BY DEF HandedOver
<1>2. /\ operand_spill_map = <<>> /\ saved_registers = <<>>
      /\ DOMAIN operand_spill_map = {} /\ DOMAIN saved_registers = {}
  BY DEF HandedOver, InitAllocator
<1> QED
  BY <1>1, <1>2, FS_EmptySet DEF SlotsInv, IsInjective

(* An entry for a slot just pushed keeps a map into the slots injective.   *)
LEMMA NewSlot ==
  ASSUME NEW map, NEW n \in Nat, NEW x,
         IsFiniteSet(DOMAIN map), IsInjective(map), \A a \in DOMAIN map : map[a] \in 1..n
  PROVE  LET new == [a \in DOMAIN map \cup {x} |-> IF a = x THEN n + 1 ELSE map[a]]
         IN  IsFiniteSet(DOMAIN new) /\ IsInjective(new)
<1> DEFINE new == [a \in DOMAIN map \cup {x} |-> IF a = x THEN n + 1 ELSE map[a]]
<1>1. DOMAIN new = DOMAIN map \cup {x}
  OBVIOUS
<1>2. IsFiniteSet(DOMAIN new)
  BY <1>1, FS_AddElement
<1>3. \A a \in DOMAIN map : map[a] # n + 1
  OBVIOUS
<1>4. IsInjective(new)
  BY <1>3 DEF IsInjective
<1> QED
  BY <1>2, <1>4

LEMMA NextSlots == TypeOK /\ SlotsInv /\ [Next]_vars => SlotsInv'
<1> SUFFICES ASSUME TypeOK, SlotsInv, [Next]_vars PROVE SlotsInv'
  OBVIOUS
<1> DEFINE n == Len(frame.locals)
<1>1. /\ frame \in Frames /\ n \in Nat
      /\ \A a \in DOMAIN operand_spill_map : operand_spill_map[a] \in 1..n
      /\ \A r \in DOMAIN saved_registers : saved_registers[r] \in 1..n
  BY FrameFacts DEF TypeOK
<1>2. Stacked(Push(frame, 8)) /\ PushedIndex(frame) = n + 1
  BY <1>1, PushStacks DEF SlotsInv, PushedIndex
<1> HIDE DEF n
<1>3. CASE UNCHANGED <<frame, operand_spill_map, saved_registers>>
  BY <1>3 DEF SlotsInv
<1>4. ASSUME NEW a, frame' = Push(frame, 8), UNCHANGED saved_registers,
             operand_spill_map' = [x \in DOMAIN operand_spill_map \cup {a} |->
                                     IF x = a THEN n + 1 ELSE operand_spill_map[x]]
      PROVE  SlotsInv'
  <2>1. IsFiniteSet(DOMAIN operand_spill_map') /\ IsInjective(operand_spill_map')
    <3> DEFINE new == [x \in DOMAIN operand_spill_map \cup {a} |->
                         IF x = a THEN n + 1 ELSE operand_spill_map[x]]
    <3>1. IsFiniteSet(DOMAIN operand_spill_map) /\ IsInjective(operand_spill_map)
      BY DEF SlotsInv
    <3>2. IsFiniteSet(DOMAIN new) /\ IsInjective(new)
      BY <1>1, <3>1, NewSlot
    <3> QED
      BY <1>4, <3>2
  <2>2. \A x \in DOMAIN operand_spill_map', r \in DOMAIN saved_registers :
          operand_spill_map'[x] # saved_registers[r]
    <3>1. \A r \in DOMAIN saved_registers : saved_registers[r] # n + 1
      BY <1>1
    <3> QED
      BY <1>4, <3>1 DEF SlotsInv
  <2> QED
    BY <1>2, <1>4, <2>1, <2>2 DEF SlotsInv
<1>5. ASSUME NEW reg, frame' = Push(frame, 8), UNCHANGED operand_spill_map,
             saved_registers' = [r \in DOMAIN saved_registers \cup {reg} |->
                                   IF r = reg THEN n + 1 ELSE saved_registers[r]]
      PROVE  SlotsInv'
  <2>1. IsFiniteSet(DOMAIN saved_registers') /\ IsInjective(saved_registers')
    <3> DEFINE new == [r \in DOMAIN saved_registers \cup {reg} |->
                         IF r = reg THEN n + 1 ELSE saved_registers[r]]
    <3>1. IsFiniteSet(DOMAIN saved_registers) /\ IsInjective(saved_registers)
      BY DEF SlotsInv
    <3>2. IsFiniteSet(DOMAIN new) /\ IsInjective(new)
      BY <1>1, <3>1, NewSlot
    <3> QED
      BY <1>5, <3>2
  <2>2. \A a \in DOMAIN operand_spill_map, r \in DOMAIN saved_registers' :
          operand_spill_map[a] # saved_registers'[r]
    <3>1. \A a \in DOMAIN operand_spill_map : operand_spill_map[a] # n + 1
      BY <1>1
    <3> QED
      BY <1>5, <3>1 DEF SlotsInv
  <2> QED
    BY <1>2, <1>5, <2>1, <2>2 DEF SlotsInv
<1>6. CASE AllocateHint \/ AllocateInit \/ AllocateWeight \/ FillQueue
           \/ AllocateRegisterReturns \/ RewriteOperandsReturns
  BY <1>3, <1>6 DEF AllocateHint, AllocateInit, AllocateWeight, FillQueue,
     AllocateRegisterReturns, RewriteOperandsReturns, spilling, rewriting
<1>7. CASE AllocateRegister
  <2>1. PICK e \in Top : TryAllocate(e) \/ TrySplit(e) \/ SpillOperand(e)
    BY <1>7 DEF AllocateRegister
  <2>2. CASE TryAllocate(e) \/ TrySplit(e)
    BY <1>3, <2>2 DEF TryAllocate, TrySplit, spilling, rewriting
  <2>3. CASE SpillOperand(e)
    BY <1>2, <1>4, <2>3 DEF SpillOperand, rewriting
  <2> QED
    BY <2>1, <2>2, <2>3
<1>8. CASE RewriteOperand
  <2>1. UNCHANGED operand_spill_map /\ \E reg : AddSavedRegister(reg)
    BY <1>8 DEF RewriteOperand, spilling
  <2> QED
    BY <1>2, <1>3, <1>5, <2>1 DEF AddSavedRegister
<1>9. CASE UNCHANGED vars
  BY <1>3, <1>9 DEF vars, spilling, rewriting
<1> QED
  BY <1>6, <1>7, <1>8, <1>9 DEF Next

(* As many slots as entries: the maps are injective and apart.             *)
LEMMA ImageCardinality ==
  ASSUME NEW f, IsFiniteSet(DOMAIN f), IsInjective(f)
  PROVE  LET image == {f[x] : x \in DOMAIN f}
         IN  IsFiniteSet(image) /\ Cardinality(image) = Cardinality(DOMAIN f)
<1> DEFINE image == {f[x] : x \in DOMAIN f}
           g == [x \in DOMAIN f |-> f[x]]
<1>1. g \in Bijection(DOMAIN f, image)
  BY DEF Bijection, Injection, Surjection, IsInjective
<1>2. ExistsBijection(DOMAIN f, image)
  BY <1>1 DEF ExistsBijection
<1> QED
  BY <1>2, FS_Bijection

(* What lies where it is stacked shares no byte.                           *)
LEMMA StackedApart ==
  ASSUME NEW f \in Frames, Stacked(f), NEW i \in DOMAIN f.locals
  PROVE  LET Bytes(o) == (o.offset - o.size)..(o.offset - 1)
         IN  /\ Bytes(f.locals[i]) \cap Bytes(RA) = {}
             /\ \A j \in DOMAIN f.locals \ {i} :
                  Bytes(f.locals[i]) \cap Bytes(f.locals[j]) = {}
<1> DEFINE Bytes(o) == (o.offset - o.size)..(o.offset - 1)
<1>1. \A j \in DOMAIN f.locals :
        j \in Nat /\ f.locals[j].offset \in Nat /\ f.locals[j].size \in Nat
  BY FrameFacts
<1>2. Bytes(f.locals[i]) \cap Bytes(RA) = {}
  <2>1. f.locals[i].offset - f.locals[i].size >= 8
    BY DEF Stacked
  <2> QED
    BY <1>1, <2>1 DEF RA
<1>3. ASSUME NEW j \in DOMAIN f.locals \ {i}
      PROVE  Bytes(f.locals[i]) \cap Bytes(f.locals[j]) = {}
  <2>1. i < j \/ j < i
    BY <1>1
  <2>2. \/ f.locals[i].offset <= f.locals[j].offset - f.locals[j].size
        \/ f.locals[j].offset <= f.locals[i].offset - f.locals[i].size
    BY <2>1 DEF Stacked
  <2> QED
    BY <1>1, <2>2
<1> QED
  BY <1>2, <1>3

LEMMA SlotsInvApart == TypeOK /\ SlotsInv => SlotsApart
<1> SUFFICES ASSUME TypeOK, SlotsInv PROVE SlotsApart
  OBVIOUS
<1> DEFINE spilled == {operand_spill_map[a] : a \in DOMAIN operand_spill_map}
           saved == {saved_registers[r] : r \in DOMAIN saved_registers}
           Bytes(o) == (o.offset - o.size)..(o.offset - 1)
<1>1. /\ IsFiniteSet(spilled) /\ Cardinality(spilled) = Cardinality(DOMAIN operand_spill_map)
      /\ IsFiniteSet(saved) /\ Cardinality(saved) = Cardinality(DOMAIN saved_registers)
  BY ImageCardinality DEF SlotsInv
<1>2. spilled \cap saved = {}
  BY DEF SlotsInv
<1>3. spilled \cup saved \subseteq DOMAIN frame.locals
  BY FrameFacts DEF TypeOK
<1>4. ASSUME NEW i \in spilled \cup saved
      PROVE  /\ Bytes(frame.locals[i]) \cap Bytes(RA) = {}
             /\ \A j \in DOMAIN frame.locals \ {i} :
                  Bytes(frame.locals[i]) \cap Bytes(frame.locals[j]) = {}
  BY <1>3, <1>4, StackedApart DEF TypeOK, SlotsInv
<1>5. Cardinality(spilled \cup saved) =
        Cardinality(DOMAIN operand_spill_map) + Cardinality(DOMAIN saved_registers)
  <2> HIDE DEF spilled, saved
  <2>1. /\ Cardinality(spilled \cup saved) =
             Cardinality(spilled) + Cardinality(saved) - Cardinality({})
        /\ Cardinality({}) = 0
    BY <1>1, <1>2, FS_Union, FS_EmptySet
  <2>2. Cardinality(spilled) \in Nat /\ Cardinality(saved) \in Nat
    BY <1>1, FS_CardinalityType
  <2> QED
    BY <1>1, <2>1, <2>2
<1> QED
  BY <1>4, <1>5 DEF SlotsApart

(* No spilled operand or saved register shares a byte with anything else   *)
(* in the frame, whatever was in it before.                                *)
THEOREM SlotsStayApart == Spec => []SlotsApart
<1>1. Init => IInv /\ SlotsInv
  BY InitHandedOver, InitInv, InitSlots
<1>2. IInv /\ SlotsInv /\ [Next]_vars => (IInv /\ SlotsInv)'
  BY NextInv, NextSlots DEF IInv
<1>3. IInv /\ SlotsInv => SlotsApart
  BY SlotsInvApart DEF IInv
<1> QED
  BY <1>1, <1>2, <1>3, PTL DEF Spec

-----------------------------------------------------------------------------
(* The code while the allocator rewrites it: the instructions with a       *)
(* number keep their place, ...                                            *)
Accesses == [slot : Nat, reg : Physical]
CodeInstrs ==
  [def : Seq(Operands), use : Seq(Operands), label : Nat, mv : BOOLEAN,
   number : Int, before : Seq(Accesses), after : Seq(Accesses)]

InPlace(n) ==
  LET b == num2instr[n + 1][1]
  IN  /\ b \in DOMAIN blocks /\ "body" \in DOMAIN blocks[b]
      /\ num2instr[n + 1][2] \in DOMAIN blocks[b].body
      /\ InstrAt(n) \in CodeInstrs /\ InstrAt(n).number = n

Reads(n) == Uses(InstrAt(n)) \cap Virtual
Mentioned(n) == (Defs(InstrAt(n)) \cup Uses(InstrAt(n))) \cap Virtual

(* ... a virtual operand in one of them is still to be replaced, and will  *)
(* be, as a range of it leads there, ...                                   *)
ToBeReplaced(n) ==
  \A o \in Mentioned(n) :
    Visits(o, n) \in 1..2 /\ o \notin DOMAIN operand_spill_map \cup rewritten

(* ... the temporaries in use are the first ones, one for every load in    *)
(* front, and those left are enough for what may still be spilled.         *)
Used(n) == IF pass \in {"allocate_hint", "allocate_init"} THEN 0 ELSE used_temp_map[n]

Reloads(n) ==
  /\ Used(n) \in 0..3 /\ Len(InstrAt(n).before) = Used(n)
  /\ \A j \in 1..Used(n) : \E a \in DOMAIN operand_spill_map :
       /\ InstrAt(n).before[j] = Access(operand_spill_map[a], Temps(a)[j])
       /\ j <= 2 \/ a \in Float

EnoughTemps(n) ==
  \/ \E o \in Operands : Reads(n) \subseteq {o} /\ (o \in Reads(n) => Used(n) = 0)
  \/ /\ \A o \in Reads(n) : Visits(o, n) = 1
     /\ Used(n) + Cardinality(Reads(n)) <= IF Reads(n) \subseteq Float THEN 3 ELSE 2

SavesWhatItWrites(n) == Defs(InstrAt(n)) \cap CalleeSaved \subseteq DOMAIN saved_registers

CodeInv ==
  /\ Finished => rewritten = DOMAIN alloc_map
  /\ \A n \in InstrNumbers :
       InPlace(n) /\ ToBeReplaced(n) /\ Reloads(n) /\ EnoughTemps(n) /\ SavesWhatItWrites(n)

LEMMA ReplaceAllElements ==
  ASSUME NEW S, NEW s \in Seq(S), NEW old, NEW new \in S
  PROVE  /\ ReplaceAll(s, old, new) \in Seq(S)
         /\ ToSet(ReplaceAll(s, old, new)) =
              IF old \in ToSet(s) THEN (ToSet(s) \ {old}) \cup {new} ELSE ToSet(s)
<1> DEFINE t == ReplaceAll(s, old, new)
<1>1. /\ Len(s) \in Nat /\ DOMAIN s = 1..Len(s) /\ \A i \in 1..Len(s) : s[i] \in S
  BY LenProperties, ElementOfSeq
<1>2. t \in [1..Len(s) -> S] /\ \A i \in 1..Len(s) : t[i] = IF s[i] = old THEN new ELSE s[i]
  BY <1>1 DEF ReplaceAll
<1> HIDE DEF t
<1>3. t \in Seq(S)
  BY <1>1, <1>2, FunctionIsSeq
<1>4. ToSet(t) = {t[i] : i \in 1..Len(s)} /\ ToSet(s) = {s[i] : i \in 1..Len(s)}
  BY <1>1, <1>2 DEF ToSet
<1>5. ASSUME old \in ToSet(s)
      PROVE  ToSet(t) = (ToSet(s) \ {old}) \cup {new}
  <2>1. PICK k \in 1..Len(s) : s[k] = old
    BY <1>4, <1>5
  <2>2. t[k] = new
    BY <1>2, <2>1
  <2> QED
    BY <1>2, <1>4, <2>1, <2>2
<1>6. ASSUME old \notin ToSet(s)
      PROVE  ToSet(t) = ToSet(s)
  BY <1>2, <1>4, <1>6
<1> QED
  BY <1>3, <1>5, <1>6 DEF t

LEMMA ReplaceInInstr ==
  ASSUME NEW i \in CodeInstrs, NEW a, NEW o \in Operands
  PROVE  LET Without(s) == IF a \in s THEN (s \ {a}) \cup {o} ELSE s
         IN  /\ ReplaceDef(i, a, o) \in CodeInstrs
             /\ Defs(ReplaceDef(i, a, o)) = Without(Defs(i))
             /\ Uses(ReplaceDef(i, a, o)) = Uses(i)
             /\ ReplaceDef(i, a, o).number = i.number
             /\ ReplaceDef(i, a, o).before = i.before
             /\ ReplaceUse(i, a, o) \in CodeInstrs
             /\ Uses(ReplaceUse(i, a, o)) = Without(Uses(i))
             /\ Defs(ReplaceUse(i, a, o)) = Defs(i)
             /\ ReplaceUse(i, a, o).number = i.number
             /\ ReplaceUse(i, a, o).before = i.before
<1>1. i.def \in Seq(Operands) /\ i.use \in Seq(Operands)
  BY DEF CodeInstrs
<1>2. /\ ReplaceAll(i.def, a, o) \in Seq(Operands)
      /\ ReplaceAll(i.use, a, o) \in Seq(Operands)
      /\ ToSet(ReplaceAll(i.def, a, o)) =
           IF a \in ToSet(i.def) THEN (ToSet(i.def) \ {a}) \cup {o} ELSE ToSet(i.def)
      /\ ToSet(ReplaceAll(i.use, a, o)) =
           IF a \in ToSet(i.use) THEN (ToSet(i.use) \ {a}) \cup {o} ELSE ToSet(i.use)
  <2> DEFINE d == i.def
             u == i.use
  <2>1. d \in Seq(Operands) /\ u \in Seq(Operands)
    BY <1>1
  <2> HIDE DEF d, u
  <2>2. /\ ReplaceAll(d, a, o) \in Seq(Operands)
        /\ ToSet(ReplaceAll(d, a, o)) =
             IF a \in ToSet(d) THEN (ToSet(d) \ {a}) \cup {o} ELSE ToSet(d)
    BY <2>1, ReplaceAllElements
  <2>3. /\ ReplaceAll(u, a, o) \in Seq(Operands)
        /\ ToSet(ReplaceAll(u, a, o)) =
             IF a \in ToSet(u) THEN (ToSet(u) \ {a}) \cup {o} ELSE ToSet(u)
    BY <2>1, ReplaceAllElements
  <2> QED
    BY <2>2, <2>3 DEF d, u
<1> DEFINE d == ReplaceDef(i, a, o)
           u == ReplaceUse(i, a, o)
<1>3. /\ d \in CodeInstrs /\ d.def = ReplaceAll(i.def, a, o) /\ d.use = i.use
      /\ d.number = i.number /\ d.before = i.before
  BY <1>2 DEF ReplaceDef, CodeInstrs
<1>4. /\ u \in CodeInstrs /\ u.use = ReplaceAll(i.use, a, o) /\ u.def = i.def
      /\ u.number = i.number /\ u.before = i.before
  BY <1>2 DEF ReplaceUse, CodeInstrs
<1> HIDE DEF d, u
<1>5. /\ Defs(d) = ToSet(ReplaceAll(i.def, a, o)) /\ Uses(d) = Uses(i)
      /\ Uses(u) = ToSet(ReplaceAll(i.use, a, o)) /\ Defs(u) = Defs(i)
  BY <1>3, <1>4 DEF Defs, Uses
<1> QED
  BY <1>2, <1>3, <1>4, <1>5 DEF Defs, Uses, d, u

LEMMA TempsProperties ==
  ASSUME NEW a, NEW j \in 1..3
  PROVE  /\ Temps(a)[j] \in Physical \ (Allocatable \cup CalleeSaved)
         /\ j <= 2 \/ a \in Float => Index(Temps(a)[j]) = Index(a)
         /\ \A b, k : k \in 1..3 /\ k # j => Temps(a)[j] # Temps(b)[k]
<1>1. \A b : Temps(b) = IF b \in Float THEN FloatTemps ELSE IntTemps
  BY DEF Temps, Index
<1>2. j <= 2 => j \in 1..2
  OBVIOUS
<1> QED
  BY <1>1, <1>2, TempsAssumption DEF TempsAreFit, Index

(* What spill does to one instruction.                                     *)
LEMMA SpillEffect ==
  ASSUME NEW i \in CodeInstrs, NEW a \in Virtual, NEW slot \in Nat, NEW v \in Nat, NEW used \in Nat,
         v = Visits(a, i.number), used = used_temp_map[i.number],
         a \in Defs(i) \cup Uses(i) => v # 0, a \in Uses(i) => used + v <= 3
  PROVE  LET j == SpillInstr(i, a, slot)
         IN  /\ j \in CodeInstrs /\ j.number = i.number
             /\ a \notin Defs(j) \cup Uses(j)
             /\ Defs(j) \ {Temps(a)[1]} \subseteq Defs(i)
             /\ Uses(j) \ Physical \subseteq Uses(i)
             /\ a \notin Uses(i) => j.before = i.before
             /\ a \in Uses(i) =>
                  /\ Len(j.before) = Len(i.before) + v
                  /\ \A k \in 1..Len(i.before) : j.before[k] = i.before[k]
                  /\ \A k \in 1..v : j.before[Len(i.before) + k] =
                                       Access(slot, Temps(a)[used + k])
<1> DEFINE t == Temps(a)[1]
           stores == [k \in 1..v |-> Access(slot, t)]
           d == SpillDef(i, a, slot, v)
           loads == [k \in 1..v |-> Access(slot, Temps(a)[used + k])]
           u == SpillUse(d, a, slot, v, used)
<1>1. /\ t \in Physical \ (Allocatable \cup CalleeSaved) /\ t \in Operands /\ a # t
      /\ Virtual \cap Physical = {}
  <2>1. t \in Physical \ (Allocatable \cup CalleeSaved)
    BY TempsProperties
  <2> QED
    BY <2>1, OperandAssumption DEF Operands
<1> HIDE DEF t
<1>2. stores \in Seq(Accesses)
  <2>1. stores \in [1..v -> Accesses]
    BY <1>1 DEF Access, Accesses
  <2> HIDE DEF stores
  <2> QED
    BY <2>1, FunctionIsSeq
<1>3. /\ d \in CodeInstrs /\ d.number = i.number /\ d.before = i.before
      /\ a \notin Defs(d) /\ Defs(d) \ {t} \subseteq Defs(i) /\ Uses(d) = Uses(i)
  <2>1. CASE a \notin Defs(i)
    BY <2>1 DEF SpillDef
  <2>2. CASE a \in Defs(i)
    <3> DEFINE r == ReplaceDef(i, a, t)
    <3>1. /\ r \in CodeInstrs /\ Defs(r) = (Defs(i) \ {a}) \cup {t} /\ Uses(r) = Uses(i)
          /\ r.number = i.number /\ r.before = i.before
      BY <1>1, <2>2, ReplaceInInstr
    <3>2. d = [r EXCEPT !.after = stores \o @]
      BY <2>2 DEF SpillDef, t
    <3> HIDE DEF d, r, stores
    <3>3. r.after \in Seq(Accesses) /\ stores \o r.after \in Seq(Accesses)
      BY <1>2, <3>1 DEF CodeInstrs
    <3>4. /\ d \in CodeInstrs /\ d.number = r.number /\ d.before = r.before
          /\ d.def = r.def /\ d.use = r.use
      BY <3>1, <3>2, <3>3 DEF CodeInstrs
    <3>5. Defs(d) = Defs(r) /\ Uses(d) = Uses(r)
      BY <3>4 DEF Defs, Uses
    <3> QED
      BY <1>1, <3>1, <3>4, <3>5
  <2> QED
    BY <2>1, <2>2
<1> HIDE DEF d
<1>4. CASE a \notin Uses(i)
  <2>1. u = d
    BY <1>3, <1>4 DEF SpillUse
  <2>2. SpillInstr(i, a, slot) = u \/ (v = 0 /\ SpillInstr(i, a, slot) = i)
    BY <1>3 DEF SpillInstr, d
  <2>3. CASE v = 0
    BY <1>3, <1>4, <2>1, <2>2, <2>3 DEF t
  <2>4. CASE v # 0
    BY <1>3, <1>4, <2>1, <2>2, <2>4 DEF t
  <2> QED
    BY <2>3, <2>4
<1>5. CASE a \in Uses(i)
  <2>1. v # 0 /\ used + v <= 3 /\ used + 1 \in 1..3
    BY <1>5
  <2>2. \A k \in 1..v : used + k \in 1..3
    BY <2>1
  <2>3. loads \in Seq(Accesses) /\ Len(loads) = v
    <3>1. \A k \in 1..v : Access(slot, Temps(a)[used + k]) \in Accesses
      BY <2>2, TempsProperties DEF Access, Accesses
    <3>2. loads \in [1..v -> Accesses]
      BY <3>1
    <3> HIDE DEF loads
    <3> QED
      BY <3>2, FunctionIsSeq
  <2> DEFINE s == Temps(a)[used + 1]
             r == ReplaceUse(d, a, s)
  <2>4. s \in Physical /\ s \in Operands /\ a # s
    BY <1>1, <2>1, TempsProperties DEF Operands
  <2> HIDE DEF s
  <2>5. /\ r \in CodeInstrs /\ Uses(r) = (Uses(i) \ {a}) \cup {s} /\ Defs(r) = Defs(d)
        /\ r.number = i.number /\ r.before = i.before
    BY <1>3, <1>5, <2>4, ReplaceInInstr
  <2>6. u = [r EXCEPT !.before = @ \o loads]
    BY <1>3, <1>5 DEF SpillUse, s
  <2>7. SpillInstr(i, a, slot) = u
    BY <2>1 DEF SpillInstr, d
  <2>8. \A k \in 1..v : loads[k] = Access(slot, Temps(a)[used + k])
    OBVIOUS
  <2> HIDE DEF u, r, loads
  <2>9. r.before \in Seq(Accesses) /\ r.before \o loads \in Seq(Accesses)
    BY <2>3, <2>5 DEF CodeInstrs
  <2>10. /\ u \in CodeInstrs /\ u.number = r.number /\ u.before = r.before \o loads
         /\ u.def = r.def /\ u.use = r.use
    BY <2>5, <2>6, <2>9 DEF CodeInstrs
  <2>11. Defs(u) = Defs(r) /\ Uses(u) = Uses(r)
    BY <2>10 DEF Defs, Uses
  <2>12. /\ Len(u.before) = Len(i.before) + v
         /\ \A k \in 1..Len(i.before) : u.before[k] = i.before[k]
         /\ \A k \in 1..v : u.before[Len(i.before) + k] = loads[k]
    <3> DEFINE b == i.before
    <3>1. b \in Seq(Accesses) /\ u.before = b \o loads /\ Len(b) \in Nat
      BY <2>5, <2>9, <2>10, LenProperties
    <3> HIDE DEF b
    <3>2. /\ Len(u.before) = Len(b) + v
          /\ \A k \in 1..(Len(b) + v) :
               u.before[k] = IF k <= Len(b) THEN b[k] ELSE loads[k - Len(b)]
      <4> DEFINE c == b \o loads
      <4>1. loads \in Seq(Accesses)
        BY <2>3
      <4>2. Len(c) = Len(b) + Len(loads)
        BY <3>1, <4>1, ConcatProperties
      <4>3. \A k \in 1..Len(c) : c[k] = IF k <= Len(b) THEN b[k] ELSE loads[k - Len(b)]
        BY <3>1, <4>1, ConcatProperties
      <4> QED
        BY <2>3, <3>1, <4>2, <4>3
    <3>3. \A k \in 1..Len(b) : k \in 1..(Len(b) + v) /\ k <= Len(b)
      BY <3>1
    <3>4. \A k \in 1..v : /\ Len(b) + k \in 1..(Len(b) + v) /\ ~(Len(b) + k <= Len(b))
                          /\ (Len(b) + k) - Len(b) = k
      BY <3>1
    <3> QED
      BY <3>2, <3>3, <3>4 DEF b
  <2> QED
    BY <1>1, <1>3, <1>5, <2>4, <2>5, <2>7, <2>8, <2>10, <2>11, <2>12 DEF t
<1> QED
  BY <1>4, <1>5

LEMMA SomeVisit ==
  ASSUME NEW S, IsFiniteSet(S), NEW n, Covering(S, n) # {}
  PROVE  Cardinality(Covering(S, n)) \in Nat \ {0}
<1>1. IsFiniteSet(Covering(S, n))
  BY FS_Subset DEF Covering
<1> QED
  BY <1>1, FS_CardinalityType, FS_EmptySet

LEMMA FiniteElements ==
  ASSUME NEW S, NEW s \in Seq(S)
  PROVE  IsFiniteSet(ToSet(s))
<1>1. DOMAIN s = 1..Len(s) /\ Len(s) \in Nat /\ s \in [1..Len(s) -> ToSet(s)]
  <2>1. DOMAIN s = 1..Len(s) /\ Len(s) \in Nat /\ s \in [1..Len(s) -> S]
    BY LenProperties
  <2> QED
    BY <2>1 DEF ToSet
<1>2. IsFiniteSet(1..Len(s))
  BY <1>1, FS_Interval
<1>3. s \in Surjection(1..Len(s), ToSet(s))
  BY <1>1 DEF Surjection, ToSet
<1> QED
  BY <1>2, <1>3, FS_Surjection

LEMMA InitCode == HandedOver => CodeInv
<1> SUFFICES ASSUME HandedOver PROVE CodeInv
  OBVIOUS
<1>1. /\ IsAnalysed(blocks, num2instr, live_ranges)
      /\ \A b \in DOMAIN blocks : \A k \in DOMAIN blocks[b].body : IsSpillable(blocks[b].body[k])
      /\ pass = "allocate_hint" /\ operand_spill_map = <<>> /\ rewritten = {}
      /\ saved_registers = <<>>
  BY DEF HandedOver, InitAllocator
<1>2. ASSUME NEW n \in InstrNumbers
      PROVE  InPlace(n) /\ ToBeReplaced(n) /\ Reloads(n) /\ EnoughTemps(n) /\ SavesWhatItWrites(n)
  <2> DEFINE b == num2instr[n + 1][1]
             k == num2instr[n + 1][2]
             i == InstrAt(n)
  <2>1. b \in DOMAIN blocks
    <3>1. num2instr \in Seq((DOMAIN blocks) \X Nat) /\ n + 1 \in 1..Len(num2instr)
      BY <1>1 DEF IsAnalysed, InstrNumbers
    <3>2. num2instr[n + 1] \in (DOMAIN blocks) \X Nat
      BY <3>1, ElementOfSeq
    <3> QED
      BY <3>2
  <2>2. blocks[b] \in MachineBlocks(DOMAIN blocks)
    BY <1>1, <2>1 DEF IsAnalysed
  <2>3. k \in DOMAIN blocks[b].body /\ i.number = n /\ i = blocks[b].body[k]
    BY <1>1 DEF IsAnalysed, InstrNumbers, InstrAt, InstrNumbered
  <2>4. i \in MachineInstrs(DOMAIN blocks)
    <3>1. blocks[b].body \in Seq(MachineInstrs(DOMAIN blocks))
      BY <2>2 DEF MachineBlocks
    <3> QED
      BY <2>3, <3>1
  <2>5. ASSUME NEW o \in Operands
        PROVE  /\ o \in Defs(i) \cup Uses(i) => Visits(o, n) \in Nat \ {0}
               /\ o \in Defs(i) => Visits(o, n) <= 2
               /\ o \notin Defs(i) => Visits(o, n) <= 1
    <3>1. /\ IsFiniteSet(live_ranges[o])
          /\ o \in Defs(i) \cup Uses(i) => Covering(live_ranges[o], n) # {}
          /\ Cardinality(Covering(live_ranges[o], n)) <= IF o \in Defs(i) THEN 2 ELSE 1
      BY <1>1 DEF IsAnalysed, InstrNumbers, InstrAt
    <3> QED
      BY <3>1, SomeVisit DEF Visits
  <2>6. IsSpillable(i)
    BY <1>1, <2>1, <2>3
  <2>7. "body" \in DOMAIN blocks[b] /\ i \in CodeInstrs /\ i.before = <<>>
    <3>1. DOMAIN blocks \subseteq Nat
      BY <1>1, LenProperties DEF IsAnalysed
    <3> HIDE DEF b, k, i
    <3>2. "body" \in DOMAIN blocks[b]
      BY <2>2 DEF MachineBlocks
    <3>3. {NoLabel} \cup DOMAIN blocks \subseteq Nat
      BY <3>1 DEF NoLabel
    <3>4. {<<>>} \subseteq Seq(Accesses)
      OBVIOUS
    <3>5. i \in CodeInstrs /\ i.before = <<>>
      BY <2>4, <3>3, <3>4 DEF CodeInstrs, MachineInstrs
    <3> QED
      BY <3>2, <3>5
  <2>8. InPlace(n)
    BY <2>1, <2>3, <2>7 DEF InPlace
  <2> HIDE DEF i
  <2>9. Mentioned(n) = (Defs(i) \cup Uses(i)) \cap Virtual /\ Reads(n) = Uses(i) \cap Virtual
    BY DEF Mentioned, Reads, i
  <2>10. ToBeReplaced(n)
    BY <1>1, <2>5, <2>9 DEF ToBeReplaced, Operands
  <2>11. Used(n) = 0
    BY <1>1 DEF Used
  <2>12. Reloads(n)
    BY <2>7, <2>11 DEF Reloads, i
  <2>13. EnoughTemps(n)
    <3>1. CASE \E o \in Operands : Reads(n) \subseteq {o}
      BY <2>11, <3>1 DEF EnoughTemps
    <3>2. CASE /\ Reads(n) \cap Defs(i) = {}
               /\ Cardinality(Reads(n)) <= IF Reads(n) \subseteq Float THEN 3 ELSE 2
      <4>1. \A o \in Reads(n) : Visits(o, n) = 1
        <5> SUFFICES ASSUME NEW o \in Reads(n) PROVE Visits(o, n) = 1
          OBVIOUS
        <5>1. o \in Operands /\ o \in Uses(i) /\ o \notin Defs(i)
          BY <2>9, <3>2 DEF Operands
        <5>2. Visits(o, n) \in Nat \ {0} /\ Visits(o, n) <= 1
          BY <2>5, <5>1
        <5> QED
          BY <5>2
      <4>2. 0 + Cardinality(Reads(n)) <= IF Reads(n) \subseteq Float THEN 3 ELSE 2
        <5>1. i.use \in Seq(Operands)
          BY <2>7 DEF CodeInstrs
        <5>2. IsFiniteSet(ToSet(i.use))
          BY <5>1, FiniteElements
        <5>3. IsFiniteSet(Reads(n))
          BY <2>9, <5>2, FS_Subset DEF Uses
        <5> QED
          BY <3>2, <5>3, FS_CardinalityType
      <4> QED
        BY <2>11, <4>1, <4>2 DEF EnoughTemps
    <3> QED
      BY <2>6, <2>9, <3>1, <3>2 DEF IsSpillable
  <2>14. SavesWhatItWrites(n)
    BY <2>6 DEF IsSpillable, SavesWhatItWrites, i
  <2> QED
    BY <2>8, <2>10, <2>12, <2>13, <2>14
<1> QED
  BY <1>1, <1>2 DEF CodeInv, Finished

LEMMA FewerReads ==
  ASSUME NEW n, EnoughTemps(n), IsFiniteSet(Reads(n)), Used(n) \in Nat, Used(n)' = Used(n),
         \A o : Visits(o, n)' = Visits(o, n), Reads(n)' \subseteq Reads(n)
  PROVE  EnoughTemps(n)'
<1>1. CASE \E o \in Operands : Reads(n) \subseteq {o} /\ (o \in Reads(n) => Used(n) = 0)
  BY <1>1 DEF EnoughTemps
<1>2. CASE /\ \A o \in Reads(n) : Visits(o, n) = 1
           /\ Used(n) + Cardinality(Reads(n)) <= IF Reads(n) \subseteq Float THEN 3 ELSE 2
  <2>1. /\ IsFiniteSet(Reads(n)') /\ Cardinality(Reads(n)') <= Cardinality(Reads(n))
        /\ Cardinality(Reads(n)') \in Nat /\ Cardinality(Reads(n)) \in Nat
    BY FS_Subset, FS_CardinalityType
  <2>2. Used(n)' + Cardinality(Reads(n)') <= Used(n) + Cardinality(Reads(n))
    BY <2>1
  <2>3. Reads(n) \subseteq Float => Reads(n)' \subseteq Float
    OBVIOUS
  <2>4. Used(n)' + Cardinality(Reads(n)') <= IF Reads(n)' \subseteq Float THEN 3 ELSE 2
    BY <1>2, <2>1, <2>2, <2>3
  <2>5. \A o \in Reads(n)' : Visits(o, n)' = 1
    BY <1>2
  <2> QED
    BY <2>4, <2>5 DEF EnoughTemps
<1> QED
  BY <1>1, <1>2 DEF EnoughTemps

(* What does not touch the code, the slots or the temporaries.             *)
LEMMA SameCode ==
  ASSUME CodeInv, UNCHANGED <<code, operand_spill_map, rewriting>>,
         \A n \in InstrNumbers : Used(n)' = Used(n),
         Finished' => rewritten' = DOMAIN alloc_map'
  PROVE  CodeInv'
<1>1. /\ InstrNumbers' = InstrNumbers
      /\ \A n \in InstrNumbers : InstrAt(n)' = InstrAt(n)
      /\ blocks' = blocks /\ num2instr' = num2instr /\ live_ranges' = live_ranges
      /\ operand_spill_map' = operand_spill_map /\ rewritten' = rewritten
      /\ saved_registers' = saved_registers
  BY DEF code, rewriting, InstrNumbers, InstrAt
<1>2. ASSUME NEW n \in InstrNumbers
      PROVE  (InPlace(n) /\ ToBeReplaced(n) /\ Reloads(n) /\ EnoughTemps(n)
                /\ SavesWhatItWrites(n))'
  <2>1. InPlace(n) /\ ToBeReplaced(n) /\ Reloads(n) /\ EnoughTemps(n) /\ SavesWhatItWrites(n)
    BY DEF CodeInv
  <2>2. Used(n)' = Used(n) /\ InstrAt(n)' = InstrAt(n)
    BY <1>1
  <2>3. InPlace(n)' /\ SavesWhatItWrites(n)'
    BY <1>1, <2>1, <2>2 DEF InPlace, SavesWhatItWrites
  <2>4. ToBeReplaced(n)'
    BY <1>1, <2>1, <2>2 DEF ToBeReplaced, Mentioned, Visits
  <2>5. Reloads(n)'
    BY <1>1, <2>1, <2>2 DEF Reloads
  <2>6. EnoughTemps(n)'
    BY <1>1, <2>1, <2>2 DEF EnoughTemps, Reads, Visits
  <2> QED
    BY <2>3, <2>4, <2>5, <2>6
<1> QED
  BY <1>1, <1>2 DEF CodeInv

LEMMA FiniteReads ==
  ASSUME NEW n, InPlace(n)
  PROVE  IsFiniteSet(Reads(n)) /\ Cardinality(Reads(n)) \in Nat
<1>1. InstrAt(n).use \in Seq(Operands)
  BY DEF CodeInstrs, InPlace
<1>2. IsFiniteSet(Uses(InstrAt(n)))
  BY <1>1, FiniteElements DEF Uses
<1>3. IsFiniteSet(Reads(n))
  BY <1>2, FS_Subset DEF Reads
<1> QED
  BY <1>3, FS_CardinalityType

(* What spill still needs is there: an operand that is read fits into the  *)
(* temporaries left.                                                       *)
LEMMA TemporaryIsLeft ==
  ASSUME NEW n, InPlace(n), ToBeReplaced(n), Reloads(n), EnoughTemps(n),
         pass = "allocate_register", NEW a \in Virtual
  PROVE  LET v    == Visits(a, n)
             used == used_temp_map[n]
         IN  /\ used \in 0..3 /\ Len(InstrAt(n).before) = used
             /\ a \in Mentioned(n) => v \in 1..2
             /\ a \in Reads(n) => /\ used + v <= 3
                                  /\ \A k \in 1..v : used + k <= 2 \/ a \in Float
<1> DEFINE v == Visits(a, n)
           used == used_temp_map[n]
<1>1. Used(n) = used /\ used \in 0..3 /\ Len(InstrAt(n).before) = used
  BY DEF Used, Reloads
<1>2. a \in Mentioned(n) => v \in 1..2
  BY DEF ToBeReplaced
<1>3. IsFiniteSet(Reads(n)) /\ Cardinality(Reads(n)) \in Nat
  BY FiniteReads
<1>4. a \in Reads(n) => used + v <= 3 /\ \A k \in 1..v : used + k <= 2 \/ a \in Float
  <2> SUFFICES ASSUME a \in Reads(n)
               PROVE  used + v <= 3 /\ \A k \in 1..v : used + k <= 2 \/ a \in Float
    OBVIOUS
  <2>1. v \in 1..2
    BY <1>2 DEF Reads, Mentioned
  <2> HIDE DEF v, used
  <2>2. CASE \E o \in Operands : Reads(n) \subseteq {o} /\ (o \in Reads(n) => Used(n) = 0)
    <3>1. used = 0
      BY <1>1, <2>2
    <3> QED
      BY <2>1, <3>1
  <2>3. CASE /\ \A o \in Reads(n) : Visits(o, n) = 1
             /\ Used(n) + Cardinality(Reads(n)) <= IF Reads(n) \subseteq Float THEN 3 ELSE 2
    <3>1. v = 1
      BY <2>3 DEF v
    <3>2. Cardinality(Reads(n)) # 0
      BY <1>3, FS_EmptySet
    <3>3. CASE Reads(n) \subseteq Float
      BY <1>1, <1>3, <2>3, <3>1, <3>2, <3>3
    <3>4. CASE ~(Reads(n) \subseteq Float)
      BY <1>1, <1>3, <2>3, <3>1, <3>2, <3>4
    <3> QED
      BY <3>3, <3>4
  <2> QED
    BY <2>2, <2>3 DEF EnoughTemps
<1> QED
  BY <1>1, <1>2, <1>4

LEMMA SpillCode ==
  ASSUME TypeOK, Placement, CodeInv, pass = "allocate_register",
         NEW e \in alloc_priority_queue, SpillOperand(e)
  PROVE  CodeInv'
<1> DEFINE a == e.alloc
           slot == PushedIndex(frame)
<1>1. a \in Virtual /\ a \notin DOMAIN operand_spill_map /\ slot \in Nat
  <2>1. a \in Allocs /\ a \in Queued /\ frame \in Frames
    BY DEF TypeOK, Queued
  <2> QED
    BY <2>1, FrameFacts, AllocFacts DEF Placement, PushedIndex
<1> HIDE DEF slot
<1>2. /\ operand_spill_map' = [x \in DOMAIN operand_spill_map \cup {a} |->
                                 IF x = a THEN slot ELSE operand_spill_map[x]]
      /\ blocks' = [b \in DOMAIN blocks |->
           [blocks[b] EXCEPT !.body = [k \in DOMAIN @ |-> SpillInstr(@[k], a, slot)]]]
      /\ used_temp_map' = [n \in InstrNumbers |->
           used_temp_map[n] + IF a \in Uses(InstrAt(n)) THEN Visits(a, n) ELSE 0]
      /\ pass' = pass /\ num2instr' = num2instr /\ live_ranges' = live_ranges
      /\ rewritten' = rewritten /\ saved_registers' = saved_registers
  BY DEF SpillOperand, rewriting, slot
<1> HIDE DEF a
<1>3. InstrNumbers' = InstrNumbers
  BY <1>2 DEF InstrNumbers
<1>4. ASSUME NEW n \in InstrNumbers
      PROVE  (InPlace(n) /\ ToBeReplaced(n) /\ Reloads(n) /\ EnoughTemps(n)
                /\ SavesWhatItWrites(n))'
  <2> DEFINE i == InstrAt(n)
             j == SpillInstr(i, a, slot)
             v == Visits(a, n)
             used == used_temp_map[n]
  <2>1. InPlace(n) /\ ToBeReplaced(n) /\ Reloads(n) /\ EnoughTemps(n) /\ SavesWhatItWrites(n)
    BY DEF CodeInv
  <2>2. i \in CodeInstrs /\ i.number = n
    BY <2>1 DEF InPlace
  <2>3. InstrAt(n)' = j
    BY <1>2, <2>1 DEF InPlace, InstrAt, InstrNumbered
  <2>4. Used(n) = used /\ used \in 0..3 /\ Len(i.before) = used
    BY <2>1 DEF Used, Reloads
  <2>5. Used(n)' = used + (IF a \in Uses(i) THEN v ELSE 0)
    BY <1>2 DEF Used
  <2>6. Visits(a, n)' = v /\ \A o : Visits(o, n)' = Visits(o, n)
    BY <1>2 DEF Visits
  <2>7. a \in Uses(i) => a \in Reads(n)
    BY <1>1 DEF Reads
  <2>8. a \in Defs(i) \cup Uses(i) => v \in 1..2
    BY <1>1, <2>1 DEF ToBeReplaced, Mentioned
  <2>9. IsFiniteSet(Reads(n)) /\ Cardinality(Reads(n)) \in Nat
    BY <2>1, FiniteReads
  <2>10. a \in Uses(i) =>
           /\ used + v <= 3
           /\ \A k \in 1..v : used + k <= 2 \/ a \in Float
    BY <1>1, <2>1, <2>7, TemporaryIsLeft
  <2> HIDE DEF i, j
  <2>11. /\ j \in CodeInstrs /\ j.number = n
         /\ a \notin Defs(j) \cup Uses(j)
         /\ Defs(j) \ {Temps(a)[1]} \subseteq Defs(i)
         /\ Uses(j) \ Physical \subseteq Uses(i)
         /\ a \notin Uses(i) => j.before = i.before
         /\ a \in Uses(i) =>
              /\ Len(j.before) = Len(i.before) + v
              /\ \A k \in 1..Len(i.before) : j.before[k] = i.before[k]
              /\ \A k \in 1..v : j.before[Len(i.before) + k] = Access(slot, Temps(a)[used + k])
    <3>1. CASE a \in Defs(i) \cup Uses(i)
      <4>1. v \in Nat /\ used \in Nat /\ v # 0 /\ v = Visits(a, i.number)
              /\ used = used_temp_map[i.number]
        BY <2>2, <2>4, <2>8, <3>1
      <4> HIDE DEF v, used
      <4> QED
        BY <1>1, <2>2, <2>10, <4>1, SpillEffect DEF j
    <3>2. CASE a \notin Defs(i) \cup Uses(i)
      <4>1. j = i
        BY <3>2 DEF j, SpillInstr, SpillUse, SpillDef
      <4> QED
        BY <2>2, <3>2, <4>1
    <3> QED
      BY <3>1, <3>2
  <2> HIDE DEF v, used
  <2>12. InPlace(n)'
    BY <1>2, <2>1, <2>3, <2>11 DEF InPlace
  <2>13. Temps(a)[1] \in Physical \ CalleeSaved
    <3>1. 1 \in 1..3
      OBVIOUS
    <3>2. Temps(a)[1] \in Physical \ (Allocatable \cup CalleeSaved)
      BY <3>1, TempsProperties
    <3> QED
      BY <3>2
  <2>14. Reads(n)' \subseteq Reads(n) \ {a} /\ Mentioned(n)' \subseteq Mentioned(n) \ {a}
    <3>1. Virtual \cap Physical = {}
      BY OperandAssumption
    <3> QED
      BY <2>3, <2>11, <2>13, <3>1 DEF Reads, Mentioned, i
  <2>15. ToBeReplaced(n)'
    BY <1>2, <2>1, <2>6, <2>14 DEF ToBeReplaced
  <2>16. SavesWhatItWrites(n)'
    BY <1>2, <2>1, <2>3, <2>11, <2>13 DEF SavesWhatItWrites, i
  <2>17. EnoughTemps(n)'
    <3>1. CASE a \notin Uses(i)
      <4>1. Used(n)' = Used(n) /\ Used(n) \in Nat
        BY <2>4, <2>5, <3>1 DEF i
      <4> QED
        BY <2>1, <2>6, <2>9, <2>14, <4>1, FewerReads
    <3>2. CASE a \in Uses(i)
      <4>1. a \in Reads(n) /\ Used(n)' = Used(n) + v
        BY <2>4, <2>5, <2>7, <3>2 DEF i
      <4>2. CASE \E o \in Operands : Reads(n) \subseteq {o} /\ (o \in Reads(n) => Used(n) = 0)
        <5>1. Reads(n)' = {} /\ a \in Operands
          BY <1>1, <2>14, <4>1, <4>2, AllocFacts
        <5> QED
          BY <5>1 DEF EnoughTemps
      <4>3. CASE /\ \A o \in Reads(n) : Visits(o, n) = 1
                 /\ Used(n) + Cardinality(Reads(n)) <= IF Reads(n) \subseteq Float THEN 3 ELSE 2
        <5>1. v = 1
          BY <4>1, <4>3 DEF v
        <5>2. Cardinality(Reads(n) \ {a}) = Cardinality(Reads(n)) - 1
          BY <2>9, <4>1, FS_RemoveElement
        <5>3. /\ IsFiniteSet(Reads(n)') /\ Cardinality(Reads(n)') \in Nat
              /\ Cardinality(Reads(n)') <= Cardinality(Reads(n)) - 1
          <6>1. IsFiniteSet(Reads(n) \ {a})
            BY <2>9, FS_Subset
          <6> QED
            BY <2>14, <5>2, <6>1, FS_Subset, FS_CardinalityType
        <5>4. Used(n) \in Nat
          BY <2>4
        <5>5. Used(n)' + Cardinality(Reads(n)') <= Used(n) + Cardinality(Reads(n))
          BY <2>9, <4>1, <5>1, <5>3, <5>4
        <5>6. Reads(n) \subseteq Float => Reads(n)' \subseteq Float
          BY <2>14
        <5>7. Used(n)' + Cardinality(Reads(n)') <= IF Reads(n)' \subseteq Float THEN 3 ELSE 2
          BY <2>9, <4>1, <4>3, <5>1, <5>3, <5>4, <5>5, <5>6
        <5>8. \A o \in Reads(n)' : Visits(o, n)' = 1
          BY <2>6, <2>14, <4>3
        <5> QED
          BY <5>7, <5>8 DEF EnoughTemps
      <4> QED
        BY <2>1, <4>2, <4>3 DEF EnoughTemps
    <3> QED
      BY <3>1, <3>2
  <2>18. Reloads(n)'
    <3>1. ASSUME NEW k \in 1..used
          PROVE  \E x \in DOMAIN operand_spill_map' :
                   /\ i.before[k] = Access(operand_spill_map'[x], Temps(x)[k])
                   /\ k <= 2 \/ x \in Float
      <4>1. PICK x \in DOMAIN operand_spill_map :
              /\ i.before[k] = Access(operand_spill_map[x], Temps(x)[k])
              /\ k <= 2 \/ x \in Float
        BY <2>1, <2>4 DEF Reloads, i
      <4> QED
        BY <1>1, <1>2, <4>1
    <3>2. CASE a \notin Uses(i)
      <4>1. Used(n)' = used /\ InstrAt(n)'.before = i.before
        BY <2>3, <2>4, <2>5, <2>11, <3>2 DEF i
      <4> QED
        BY <2>4, <3>1, <4>1 DEF Reloads
    <3>3. CASE a \in Uses(i)
      <4>1. Used(n)' = used + v /\ used + v \in 0..3 /\ v \in 1..2
        BY <2>4, <2>5, <2>8, <2>10, <3>3 DEF i
      <4>2. Len(j.before) = used + v
        BY <2>4, <2>11, <3>3
      <4>3. ASSUME NEW k \in 1..(used + v)
            PROVE  \E x \in DOMAIN operand_spill_map' :
                     /\ j.before[k] = Access(operand_spill_map'[x], Temps(x)[k])
                     /\ k <= 2 \/ x \in Float
        <5>1. CASE k \in 1..used
          BY <2>4, <2>11, <3>1, <3>3, <5>1
        <5>2. CASE k \notin 1..used
          <6>1. k - used \in 1..v /\ used + (k - used) = k
            BY <2>4, <4>1, <5>2
          <6>2. j.before[k] = Access(slot, Temps(a)[k]) /\ (k <= 2 \/ a \in Float)
            BY <2>4, <2>10, <2>11, <3>3, <6>1
          <6>3. a \in DOMAIN operand_spill_map' /\ operand_spill_map'[a] = slot
            BY <1>2
          <6> QED
            BY <6>2, <6>3
        <5> QED
          BY <5>1, <5>2
      <4> QED
        BY <2>3, <4>1, <4>2, <4>3 DEF Reloads
    <3> QED
      BY <3>2, <3>3
  <2> QED
    BY <2>12, <2>15, <2>16, <2>17, <2>18
<1>5. ~Finished'
  BY <1>2 DEF Finished
<1> QED
  BY <1>3, <1>4, <1>5 DEF CodeInv

(* rewrite_operands puts the register of an operand in its place.          *)
LEMMA RewriteEffect ==
  ASSUME NEW i \in CodeInstrs, NEW a \in Virtual, NEW reg \in Physical,
         a \in Defs(i) \cup Uses(i) => Visits(a, i.number) # 0
  PROVE  LET j == RewriteInstr(i, a, reg)
         IN  /\ j \in CodeInstrs /\ j.number = i.number /\ j.before = i.before
             /\ a \notin Defs(j) \cup Uses(j)
             /\ Defs(j) \subseteq Defs(i) \cup {reg} /\ Uses(j) \subseteq Uses(i) \cup {reg}
<1>1. reg \in Operands /\ a # reg
  BY OperandAssumption DEF Operands
<1>2. CASE Visits(a, i.number) = 0
  BY <1>2 DEF RewriteInstr
<1>3. CASE Visits(a, i.number) # 0
  <2> DEFINE d == ReplaceDef(i, a, reg)
             u == ReplaceUse(d, a, reg)
  <2>1. /\ d \in CodeInstrs /\ d.number = i.number /\ d.before = i.before
        /\ Defs(d) = IF a \in Defs(i) THEN (Defs(i) \ {a}) \cup {reg} ELSE Defs(i)
        /\ Uses(d) = Uses(i)
    BY <1>1, ReplaceInInstr
  <2> HIDE DEF d
  <2>2. /\ u \in CodeInstrs /\ u.number = d.number /\ u.before = d.before
        /\ Uses(u) = IF a \in Uses(d) THEN (Uses(d) \ {a}) \cup {reg} ELSE Uses(d)
        /\ Defs(u) = Defs(d)
    BY <1>1, <2>1, ReplaceInInstr
  <2>3. RewriteInstr(i, a, reg) = u
    BY <1>3 DEF RewriteInstr, d
  <2> HIDE DEF u
  <2> QED
    BY <1>1, <2>1, <2>2, <2>3
<1> QED
  BY <1>2, <1>3

LEMMA RewriteCode ==
  ASSUME TypeOK, CodeInv, RewriteOperand
  PROVE  CodeInv'
<1>1. PICK a \in DOMAIN alloc_map \ rewritten :
        /\ blocks' = [b \in DOMAIN blocks |->
             [blocks[b] EXCEPT !.body =
                [k \in DOMAIN @ |-> RewriteInstr(@[k], a, alloc_map[a])]]]
        /\ AddSavedRegister(alloc_map[a])
        /\ rewritten' = rewritten \cup {a}
  BY DEF RewriteOperand
<1> DEFINE reg == alloc_map[a]
<1>2. /\ pass' = pass /\ num2instr' = num2instr /\ live_ranges' = live_ranges
      /\ used_temp_map' = used_temp_map /\ operand_spill_map' = operand_spill_map
      /\ InstrNumbers' = InstrNumbers /\ ~Finished'
  BY DEF RewriteOperand, spilling, InstrNumbers, Finished
<1>3. a \in Virtual /\ reg \in Physical
  <2>1. a \in Allocs /\ reg \in Allocatable
    BY DEF TypeOK
  <2> QED
    BY <2>1, OperandAssumption DEF Allocs, Allocatable, ToSet
<1>4. DOMAIN saved_registers \cup ({reg} \cap CalleeSaved) \subseteq DOMAIN saved_registers'
  BY <1>1 DEF AddSavedRegister
<1> HIDE DEF reg
<1>5. ASSUME NEW n \in InstrNumbers
      PROVE  (InPlace(n) /\ ToBeReplaced(n) /\ Reloads(n) /\ EnoughTemps(n)
                /\ SavesWhatItWrites(n))'
  <2> DEFINE i == InstrAt(n)
             j == RewriteInstr(i, a, reg)
  <2>1. InPlace(n) /\ ToBeReplaced(n) /\ Reloads(n) /\ EnoughTemps(n) /\ SavesWhatItWrites(n)
    BY DEF CodeInv
  <2>2. i \in CodeInstrs /\ i.number = n
    BY <2>1 DEF InPlace
  <2>3. InstrAt(n)' = j
    BY <1>1, <1>2, <2>1 DEF InPlace, InstrAt, InstrNumbered, reg
  <2>4. \A o : Visits(o, n)' = Visits(o, n)
    BY <1>2 DEF Visits
  <2>5. a \in Defs(i) \cup Uses(i) => Visits(a, i.number) # 0
    BY <1>3, <2>1, <2>2 DEF ToBeReplaced, Mentioned
  <2>6. IsFiniteSet(Reads(n)) /\ Used(n)' = Used(n) /\ Used(n) \in Nat
    <3>1. i.use \in Seq(Operands)
      BY <2>2 DEF CodeInstrs
    <3>2. IsFiniteSet(Uses(i))
      BY <3>1, FiniteElements DEF Uses
    <3>3. IsFiniteSet(Reads(n))
      BY <3>2, FS_Subset DEF Reads
    <3> QED
      BY <1>2, <2>1, <3>3 DEF Used, Reloads
  <2> HIDE DEF i, j
  <2>7. /\ j \in CodeInstrs /\ j.number = n /\ j.before = i.before
        /\ a \notin Defs(j) \cup Uses(j)
        /\ Defs(j) \subseteq Defs(i) \cup {reg} /\ Uses(j) \subseteq Uses(i) \cup {reg}
    BY <1>3, <2>2, <2>5, RewriteEffect DEF j
  <2>8. InPlace(n)'
    BY <1>1, <1>2, <2>1, <2>3, <2>7 DEF InPlace
  <2>9. Reads(n)' \subseteq Reads(n) /\ Mentioned(n)' \subseteq Mentioned(n) \ {a}
    <3>1. Virtual \cap Physical = {}
      BY OperandAssumption
    <3> QED
      BY <1>3, <2>3, <2>7, <3>1 DEF Reads, Mentioned, i
  <2>10. ToBeReplaced(n)'
    BY <1>1, <1>2, <2>1, <2>4, <2>9 DEF ToBeReplaced
  <2>11. Reloads(n)'
    BY <1>2, <2>1, <2>3, <2>6, <2>7 DEF Reloads, i
  <2>12. EnoughTemps(n)'
    BY <2>1, <2>4, <2>6, <2>9, FewerReads
  <2>13. SavesWhatItWrites(n)'
    BY <1>4, <2>1, <2>3, <2>7 DEF SavesWhatItWrites, i
  <2> QED
    BY <2>8, <2>10, <2>11, <2>12, <2>13
<1> QED
  BY <1>2, <1>5 DEF CodeInv

LEMMA NextCode == IInv /\ CodeInv /\ [Next]_vars => CodeInv'
<1> SUFFICES ASSUME IInv, CodeInv, [Next]_vars PROVE CodeInv'
  OBVIOUS
<1>1. TypeOK /\ Placement
  BY DEF IInv, AllocInv
<1>2. CASE AllocateHint \/ AllocateWeight \/ FillQueue \/ AllocateRegisterReturns
  <2>1. /\ UNCHANGED <<code, operand_spill_map, rewriting>> /\ ~Finished'
        /\ \A n \in InstrNumbers : Used(n)' = Used(n)
    BY <1>2 DEF AllocateHint, AllocateWeight, FillQueue, AllocateRegisterReturns, spilling,
       Finished, Used
  <2> QED
    BY <2>1, SameCode
<1>3. CASE AllocateInit
  <2>1. /\ UNCHANGED <<code, operand_spill_map, rewriting>> /\ ~Finished'
        /\ \A n \in InstrNumbers : Used(n)' = Used(n)
    BY <1>3 DEF AllocateInit, Finished, Used
  <2> QED
    BY <2>1, SameCode
<1>4. CASE AllocateRegister
  <2>1. PICK e \in Top : TryAllocate(e) \/ TrySplit(e) \/ SpillOperand(e)
    BY <1>4 DEF AllocateRegister
  <2>2. CASE TryAllocate(e) \/ TrySplit(e)
    <3>1. /\ UNCHANGED <<code, operand_spill_map, rewriting>> /\ ~Finished'
          /\ \A n \in InstrNumbers : Used(n)' = Used(n)
      BY <1>4, <2>2 DEF AllocateRegister, TryAllocate, TrySplit, spilling, Finished, Used
    <3> QED
      BY <3>1, SameCode
  <2>3. CASE SpillOperand(e)
    <3>1. pass = "allocate_register" /\ e \in alloc_priority_queue
      BY <1>4 DEF AllocateRegister, Top
    <3> QED
      BY <1>1, <2>3, <3>1, SpillCode
  <2> QED
    BY <2>1, <2>2, <2>3
<1>5. CASE RewriteOperand
  BY <1>1, <1>5, RewriteCode
<1>6. CASE RewriteOperandsReturns
  <2>1. /\ UNCHANGED <<code, operand_spill_map, rewriting>>
        /\ rewritten' = DOMAIN alloc_map'
        /\ \A n \in InstrNumbers : Used(n)' = Used(n)
    BY <1>6 DEF RewriteOperandsReturns, spilling, allocation, rewriting, Used
  <2> QED
    BY <2>1, SameCode
<1>7. CASE UNCHANGED vars
  <2>1. /\ UNCHANGED <<code, operand_spill_map, rewriting>>
        /\ Finished' => rewritten' = DOMAIN alloc_map'
        /\ \A n \in InstrNumbers : Used(n)' = Used(n)
    BY <1>7 DEF vars, spilling, allocation, rewriting, Used, Finished, CodeInv
  <2> QED
    BY <2>1, SameCode
<1> QED
  BY <1>2, <1>3, <1>4, <1>5, <1>6, <1>7 DEF Next

LEMMA CodeInvariance == Spec => [](IInv /\ SlotsInv /\ CodeInv)
<1>1. Init => IInv /\ SlotsInv /\ CodeInv
  BY InitHandedOver, InitInv, InitSlots, InitCode
<1>2. IInv /\ SlotsInv /\ CodeInv /\ [Next]_vars => (IInv /\ SlotsInv /\ CodeInv)'
  BY NextInv, NextSlots, NextCode DEF IInv
<1> QED
  BY <1>1, <1>2, PTL DEF Spec

LEMMA CodeInvPhysical == IInv /\ CodeInv => CodeIsPhysical
<1> SUFFICES ASSUME IInv, CodeInv, Finished, NEW n \in InstrNumbers
             PROVE  /\ Defs(InstrAt(n)) \cup Uses(InstrAt(n)) \subseteq Physical
                    /\ Defs(InstrAt(n)) \cap CalleeSaved \subseteq DOMAIN saved_registers
  BY DEF CodeIsPhysical
<1>1. /\ InPlace(n) /\ ToBeReplaced(n) /\ SavesWhatItWrites(n)
      /\ rewritten = DOMAIN alloc_map
  BY DEF CodeInv
<1>2. Allocs = DOMAIN alloc_map \cup DOMAIN operand_spill_map
  BY DEF IInv, AllocInv, Placement, Finished, Allocating, Allocated
<1>3. ASSUME NEW o \in Mentioned(n) PROVE FALSE
  <2>1. Visits(o, n) \in 1..2 /\ o \notin Allocs
    BY <1>1, <1>2 DEF ToBeReplaced
  <2>2. live_ranges[o] = {}
    BY <2>1 DEF Mentioned, Allocs
  <2>3. Visits(o, n) = 0
    BY <2>2, FS_EmptySet DEF Visits, Covering
  <2> QED
    BY <2>1, <2>3
<1>4. Defs(InstrAt(n)) \cup Uses(InstrAt(n)) \subseteq Operands
  BY <1>1 DEF InPlace, CodeInstrs, Defs, Uses, ToSet
<1> QED
  BY <1>1, <1>3, <1>4 DEF Mentioned, SavesWhatItWrites, Operands

(* When rewrite_operands is done no instruction mentions a virtual operand *)
(* and the callee-saved registers written are the saved ones: the loops    *)
(* over live ranges in spill and rewrite_operands miss no instruction.     *)
THEOREM CodeBecomesPhysical == Spec => []CodeIsPhysical
BY CodeInvPhysical, CodeInvariance, PTL

LEMMA CodeInvReloads == IInv /\ SlotsInv /\ CodeInv => ReloadsApart
<1> SUFFICES ASSUME IInv, SlotsInv, CodeInv, NEW n \in InstrNumbers
             PROVE  LET before == InstrAt(n).before
                    IN  /\ \A i, j \in DOMAIN before : i # j => before[i].reg # before[j].reg
                        /\ \A i \in DOMAIN before : before[i].reg \notin Allocatable
                        /\ \A a \in DOMAIN operand_spill_map : \A i \in DOMAIN before :
                             before[i].slot = operand_spill_map[a] =>
                               Index(before[i].reg) = Index(a)
  BY DEF ReloadsApart
<1> DEFINE before == InstrAt(n).before
<1>1. InPlace(n) /\ Reloads(n)
  BY DEF CodeInv
<1>2. before \in Seq(Accesses) /\ Len(before) = Used(n) /\ Used(n) \in 0..3
  BY <1>1 DEF InPlace, Reloads, CodeInstrs
<1>3. DOMAIN before = 1..Used(n) /\ DOMAIN before \subseteq 1..3
  <2> HIDE DEF before
  <2> QED
    BY <1>2, LenProperties
<1>4. \A j \in DOMAIN before : \E a \in DOMAIN operand_spill_map :
        /\ before[j].slot = operand_spill_map[a] /\ before[j].reg = Temps(a)[j]
        /\ j <= 2 \/ a \in Float
  <2> SUFFICES ASSUME NEW j \in DOMAIN before
               PROVE  \E a \in DOMAIN operand_spill_map :
                        /\ before[j].slot = operand_spill_map[a]
                        /\ before[j].reg = Temps(a)[j]
                        /\ j <= 2 \/ a \in Float
    OBVIOUS
  <2>1. j \in 1..Used(n)
    BY <1>3
  <2> HIDE DEF before
  <2>2. PICK a \in DOMAIN operand_spill_map :
          before[j] = Access(operand_spill_map[a], Temps(a)[j]) /\ (j <= 2 \/ a \in Float)
    BY <1>1, <2>1 DEF Reloads, before
  <2> QED
    BY <2>2 DEF Access
<1> HIDE DEF before
<1>5. ASSUME NEW i \in DOMAIN before, NEW j \in DOMAIN before, i # j
      PROVE  before[i].reg # before[j].reg
  <2>1. PICK a, b : before[i].reg = Temps(a)[i] /\ before[j].reg = Temps(b)[j]
    BY <1>4
  <2>2. i \in 1..3 /\ j \in 1..3
    BY <1>3
  <2>3. Temps(a)[i] # Temps(b)[j]
    BY <1>5, <2>2, TempsProperties
  <2> QED
    BY <2>1, <2>3
<1>6. ASSUME NEW i \in DOMAIN before
      PROVE  before[i].reg \notin Allocatable
  <2>1. PICK a : before[i].reg = Temps(a)[i]
    BY <1>4
  <2>2. i \in 1..3
    BY <1>3
  <2>3. Temps(a)[i] \notin Allocatable
    BY <2>2, TempsProperties
  <2> QED
    BY <2>1, <2>3
<1>7. ASSUME NEW a \in DOMAIN operand_spill_map, NEW i \in DOMAIN before,
             before[i].slot = operand_spill_map[a]
      PROVE  Index(before[i].reg) = Index(a)
  <2>1. PICK b \in DOMAIN operand_spill_map :
          /\ before[i].slot = operand_spill_map[b] /\ before[i].reg = Temps(b)[i]
          /\ i <= 2 \/ b \in Float
    BY <1>4
  <2>2. a = b
    BY <1>7, <2>1 DEF SlotsInv, IsInjective
  <2> QED
    BY <1>3, <2>1, <2>2, TempsProperties
<1> QED
  BY <1>5, <1>6, <1>7 DEF before

(* The reloads before an instruction never overwrite one another, however  *)
(* many operands are spilled: the temporaries do not run out.              *)
THEOREM ReloadsStayApart == Spec => []ReloadsApart
BY CodeInvReloads, CodeInvariance, PTL

-----------------------------------------------------------------------------
(* What has become of P, an instruction before the allocation: the one     *)
(* numbered n reads a spilled operand from a register that a load in front *)
(* of it fills from the slot, writes it to a temporary that is stored to   *)
(* the slot, and has the registers of the operands that are rewritten.     *)
(* Nothing else is stored.                                                 *)
Spilled == DOMAIN operand_spill_map

ReadsAs(P, i, j) ==
  LET o == P.use[j]
  IN  IF o \in Spilled
        THEN Access(operand_spill_map[o], i.use[j]) \in ToSet(i.before)
        ELSE i.use[j] = IF o \in rewritten THEN alloc_map[o] ELSE o

WritesAs(P, i, j) ==
  LET o == P.def[j]
  IN  IF o \in Spilled
        THEN /\ i.def[j] = Temps(o)[1]
             /\ Access(operand_spill_map[o], i.def[j]) \in ToSet(i.after)
        ELSE i.def[j] = IF o \in rewritten THEN alloc_map[o] ELSE o

StoresOnly(P, i) ==
  ToSet(i.after) \subseteq
    {Access(operand_spill_map[o], Temps(o)[1]) : o \in Defs(P) \cap Spilled}

CompiledTo(P, i) ==
  /\ i.label = P.label /\ i.mv = P.mv
  /\ Len(i.use) = Len(P.use) /\ Len(i.def) = Len(P.def)
  /\ \A j \in 1..Len(P.use) : ReadsAs(P, i, j)
  /\ \A j \in 1..Len(P.def) : WritesAs(P, i, j)
  /\ StoresOnly(P, i)

RewrittenOK ==
  /\ rewritten \subseteq DOMAIN alloc_map
  /\ rewritten # {} => Allocated

LEMMA ReplaceEach ==
  ASSUME NEW S, NEW s \in Seq(S), NEW old, NEW new \in S
  PROVE  LET t == ReplaceAll(s, old, new)
         IN  /\ Len(t) = Len(s)
             /\ \A k \in 1..Len(s) : t[k] = IF s[k] = old THEN new ELSE s[k]
<1> DEFINE t == ReplaceAll(s, old, new)
<1>1. Len(s) \in Nat /\ \A k \in 1..Len(s) : s[k] \in S
  BY LenProperties, ElementOfSeq
<1>2. t \in [1..Len(s) -> S] /\ \A k \in 1..Len(s) : t[k] = IF s[k] = old THEN new ELSE s[k]
  BY <1>1 DEF ReplaceAll
<1> HIDE DEF t
<1>3. Len(t) = Len(s)
  BY <1>1, <1>2, FunctionIsSeq
<1> QED
  BY <1>2, <1>3 DEF t

(* An operand that is replaced in every place, or is in none.              *)
Replaced(t, s, old, new) ==
  /\ Len(t) = Len(s)
  /\ \A k \in 1..Len(s) : t[k] = IF s[k] = old THEN new ELSE s[k]

LEMMA ReplacedInDef ==
  ASSUME NEW i \in CodeInstrs, NEW a, NEW o \in Operands
  PROVE  LET j == ReplaceDef(i, a, o)
         IN  /\ Replaced(j.def, i.def, a, o)
             /\ j.use = i.use /\ j.label = i.label /\ j.mv = i.mv /\ j.number = i.number
             /\ j.before = i.before /\ j.after = i.after
<1> DEFINE j == ReplaceDef(i, a, o)
           d == i.def
<1>1. d \in Seq(Operands)
  BY DEF CodeInstrs
<1>2. /\ j.def = ReplaceAll(d, a, o)
      /\ j.use = i.use /\ j.label = i.label /\ j.mv = i.mv /\ j.number = i.number
      /\ j.before = i.before /\ j.after = i.after
  BY DEF ReplaceDef, CodeInstrs
<1> HIDE DEF j, d
<1>3. Replaced(j.def, d, a, o)
  BY <1>1, <1>2, ReplaceEach DEF Replaced
<1> QED
  BY <1>2, <1>3 DEF d, j

LEMMA ReplacedInUse ==
  ASSUME NEW i \in CodeInstrs, NEW a, NEW o \in Operands
  PROVE  LET j == ReplaceUse(i, a, o)
         IN  /\ Replaced(j.use, i.use, a, o)
             /\ j.def = i.def /\ j.label = i.label /\ j.mv = i.mv /\ j.number = i.number
             /\ j.before = i.before /\ j.after = i.after
<1> DEFINE j == ReplaceUse(i, a, o)
           u == i.use
<1>1. u \in Seq(Operands)
  BY DEF CodeInstrs
<1>2. /\ j.use = ReplaceAll(u, a, o)
      /\ j.def = i.def /\ j.label = i.label /\ j.mv = i.mv /\ j.number = i.number
      /\ j.before = i.before /\ j.after = i.after
  BY DEF ReplaceUse, CodeInstrs
<1> HIDE DEF j, u
<1>3. Replaced(j.use, u, a, o)
  BY <1>1, <1>2, ReplaceEach DEF Replaced
<1> QED
  BY <1>2, <1>3 DEF u, j

LEMMA NothingReplaced ==
  ASSUME NEW i \in CodeInstrs, NEW a, NEW o
  PROVE  /\ a \notin Defs(i) => Replaced(i.def, i.def, a, o)
         /\ a \notin Uses(i) => Replaced(i.use, i.use, a, o)
<1>1. i.def \in Seq(Operands) /\ i.use \in Seq(Operands)
  BY DEF CodeInstrs
<1>2. DOMAIN i.def = 1..Len(i.def) /\ DOMAIN i.use = 1..Len(i.use)
  BY <1>1, LenProperties
<1> QED
  BY <1>2 DEF Replaced, Defs, Uses, ToSet

(* spill on one instruction, field by field.                               *)
LEMMA SpillFields ==
  ASSUME NEW i \in CodeInstrs, NEW a \in Virtual, NEW slot \in Nat, NEW v \in Nat, NEW used \in Nat,
         v = Visits(a, i.number), used = used_temp_map[i.number],
         a \in Defs(i) \cup Uses(i) => v # 0, a \in Uses(i) => used + v <= 3
  PROVE  LET j == SpillInstr(i, a, slot)
         IN  /\ j.label = i.label /\ j.mv = i.mv
             /\ Replaced(j.def, i.def, a, Temps(a)[1])
             /\ Replaced(j.use, i.use, a, Temps(a)[used + 1])
             /\ j.after = IF a \in Defs(i)
                            THEN [k \in 1..v |-> Access(slot, Temps(a)[1])] \o i.after
                            ELSE i.after
             /\ j.before = IF a \in Uses(i)
                             THEN i.before \o [k \in 1..v |-> Access(slot, Temps(a)[used + k])]
                             ELSE i.before
<1> DEFINE t == Temps(a)[1]
           s == Temps(a)[used + 1]
           stores == [k \in 1..v |-> Access(slot, t)]
           loads == [k \in 1..v |-> Access(slot, Temps(a)[used + k])]
           d == SpillDef(i, a, slot, v)
           u == SpillUse(d, a, slot, v, used)
           j == SpillInstr(i, a, slot)
<1>1. t \in Operands /\ a # t /\ t \in Physical
  <2>1. 1 \in 1..3
    OBVIOUS
  <2>2. t \in Physical
    BY <2>1, TempsProperties
  <2> QED
    BY <2>2, OperandAssumption DEF Operands
<1>2. stores \in Seq(Accesses)
  <2>1. stores \in [1..v -> Accesses]
    BY <1>1 DEF Access, Accesses
  <2> HIDE DEF stores
  <2> QED
    BY <2>1, FunctionIsSeq
<1> HIDE DEF t, stores
<1>3. /\ d \in CodeInstrs /\ Replaced(d.def, i.def, a, t) /\ d.use = i.use
      /\ d.label = i.label /\ d.mv = i.mv /\ d.before = i.before
      /\ d.after = IF a \in Defs(i) THEN stores \o i.after ELSE i.after
  <2>1. CASE a \notin Defs(i)
    BY <2>1, NothingReplaced DEF SpillDef
  <2>2. CASE a \in Defs(i)
    <3> DEFINE r == ReplaceDef(i, a, t)
    <3>1. /\ r \in CodeInstrs /\ Replaced(r.def, i.def, a, t) /\ r.use = i.use
          /\ r.label = i.label /\ r.mv = i.mv /\ r.before = i.before /\ r.after = i.after
      BY <1>1, ReplaceInInstr, ReplacedInDef
    <3>2. d = [r EXCEPT !.after = stores \o @]
      BY <2>2 DEF SpillDef, t, stores
    <3> HIDE DEF d, r
    <3>3. r.after \in Seq(Accesses) /\ stores \o r.after \in Seq(Accesses)
      BY <1>2, <3>1 DEF CodeInstrs
    <3>4. /\ d \in CodeInstrs /\ d.def = r.def /\ d.use = r.use /\ d.label = r.label
          /\ d.mv = r.mv /\ d.before = r.before /\ d.after = stores \o r.after
      BY <3>1, <3>2, <3>3 DEF CodeInstrs
    <3> QED
      BY <2>2, <3>1, <3>4
  <2> QED
    BY <2>1, <2>2
<1> HIDE DEF d
<1>4. Uses(d) = Uses(i)
  BY <1>3 DEF Uses
<1>5. /\ u.def = d.def /\ u.label = d.label /\ u.mv = d.mv /\ u.after = d.after
      /\ Replaced(u.use, d.use, a, s)
      /\ u.before = IF a \in Uses(i) THEN d.before \o loads ELSE d.before
  <2>1. CASE a \notin Uses(i)
    BY <1>3, <1>4, <2>1, NothingReplaced DEF SpillUse
  <2>2. CASE a \in Uses(i)
    <3> DEFINE r == ReplaceUse(d, a, s)
    <3>1. used + 1 \in 1..3
      BY <2>2
    <3>2. s \in Operands
      BY <3>1, TempsProperties DEF Operands
    <3> HIDE DEF s
    <3>3. /\ r \in CodeInstrs /\ Replaced(r.use, d.use, a, s) /\ r.def = d.def
          /\ r.label = d.label /\ r.mv = d.mv /\ r.before = d.before /\ r.after = d.after
      BY <1>3, <3>2, ReplaceInInstr, ReplacedInUse
    <3>4. u = [r EXCEPT !.before = @ \o loads]
      BY <1>4, <2>2 DEF SpillUse, s
    <3> HIDE DEF u, r, loads
    <3>5. /\ u.def = r.def /\ u.use = r.use /\ u.label = r.label
          /\ u.mv = r.mv /\ u.after = r.after /\ u.before = r.before \o loads
      BY <3>3, <3>4 DEF CodeInstrs
    <3> QED
      BY <2>2, <3>3, <3>5
  <2> QED
    BY <2>1, <2>2
<1>6. CASE v = 0
  <2>1. a \notin Defs(i) /\ a \notin Uses(i) /\ j = i
    BY <1>6 DEF SpillInstr
  <2> QED
    BY <2>1, NothingReplaced
<1>7. CASE v # 0
  <2>1. j = u
    BY <1>7 DEF SpillInstr, d
  <2> HIDE DEF j, u, loads, s
  <2> QED
    BY <1>3, <1>5, <2>1 DEF j, loads, s, t, stores
<1> QED
  BY <1>6, <1>7

LEMMA RewriteFields ==
  ASSUME NEW i \in CodeInstrs, NEW a \in Virtual, NEW reg \in Physical,
         a \in Defs(i) \cup Uses(i) => Visits(a, i.number) # 0
  PROVE  LET j == RewriteInstr(i, a, reg)
         IN  /\ j.label = i.label /\ j.mv = i.mv /\ j.before = i.before /\ j.after = i.after
             /\ Replaced(j.def, i.def, a, reg) /\ Replaced(j.use, i.use, a, reg)
<1>1. reg \in Operands
  BY DEF Operands
<1>2. CASE Visits(a, i.number) = 0
  BY <1>2, NothingReplaced DEF RewriteInstr
<1>3. CASE Visits(a, i.number) # 0
  <2> DEFINE d == ReplaceDef(i, a, reg)
             u == ReplaceUse(d, a, reg)
  <2>1. /\ d \in CodeInstrs /\ Replaced(d.def, i.def, a, reg) /\ d.use = i.use
        /\ d.label = i.label /\ d.mv = i.mv /\ d.before = i.before /\ d.after = i.after
    BY <1>1, ReplaceInInstr, ReplacedInDef
  <2> HIDE DEF d
  <2>2. /\ Replaced(u.use, d.use, a, reg) /\ u.def = d.def
        /\ u.label = d.label /\ u.mv = d.mv /\ u.before = d.before /\ u.after = d.after
    BY <1>1, <2>1, ReplacedInUse
  <2>3. RewriteInstr(i, a, reg) = u
    BY <1>3 DEF RewriteInstr, d
  <2> HIDE DEF u
  <2> QED
    BY <2>1, <2>2, <2>3
<1> QED
  BY <1>2, <1>3

LEMMA SpillSets ==
  ASSUME NEW i \in CodeInstrs, NEW a \in Virtual, NEW slot \in Nat,
         a \in Defs(i) \cup Uses(i) => Visits(a, i.number) \in 1..2,
         used_temp_map[i.number] \in 0..3,
         a \in Uses(i) => used_temp_map[i.number] + Visits(a, i.number) <= 3
  PROVE  LET j == SpillInstr(i, a, slot)
             t == Temps(a)[1]
             s == Temps(a)[used_temp_map[i.number] + 1]
         IN  /\ j.label = i.label /\ j.mv = i.mv
             /\ Replaced(j.def, i.def, a, t) /\ Replaced(j.use, i.use, a, s)
             /\ ToSet(i.after) \subseteq ToSet(j.after)
             /\ ToSet(j.after) \subseteq ToSet(i.after) \cup {Access(slot, t)}
             /\ a \in Defs(i) => Access(slot, t) \in ToSet(j.after)
             /\ a \notin Defs(i) => j.after = i.after
             /\ ToSet(i.before) \subseteq ToSet(j.before)
             /\ a \in Uses(i) => Access(slot, s) \in ToSet(j.before)
<1> DEFINE v == Visits(a, i.number)
           used == used_temp_map[i.number]
           t == Temps(a)[1]
           s == Temps(a)[used + 1]
           stores == [k \in 1..v |-> Access(slot, t)]
           loads == [k \in 1..v |-> Access(slot, Temps(a)[used + k])]
           j == SpillInstr(i, a, slot)
<1>1. CASE a \notin Defs(i) \cup Uses(i)
  <2>1. j = i
    BY <1>1 DEF SpillInstr, SpillDef, SpillUse
  <2>2. Replaced(i.def, i.def, a, t) /\ Replaced(i.use, i.use, a, s)
    BY <1>1, NothingReplaced
  <2> HIDE DEF j, t, s
  <2> QED
    BY <1>1, <2>1, <2>2 DEF j, t, s
<1>2. CASE a \in Defs(i) \cup Uses(i)
  <2>1. v \in Nat /\ v # 0 /\ used \in Nat /\ 1 \in 1..v
    BY <1>2
  <2>2. /\ j.label = i.label /\ j.mv = i.mv
        /\ Replaced(j.def, i.def, a, t) /\ Replaced(j.use, i.use, a, s)
        /\ j.after = IF a \in Defs(i) THEN stores \o i.after ELSE i.after
        /\ j.before = IF a \in Uses(i) THEN i.before \o loads ELSE i.before
    <3> HIDE DEF j
    <3> QED
      BY <2>1, SpillFields DEF j
  <2>3. i.after \in Seq(Accesses) /\ i.before \in Seq(Accesses)
    BY DEF CodeInstrs
  <2>4. \A k \in 1..3 : Access(slot, Temps(a)[k]) \in Accesses
    BY TempsProperties DEF Access, Accesses
  <2>5. stores \in Seq(Accesses) /\ ToSet(stores) = {Access(slot, t)}
    <3>1. stores \in [1..v -> Accesses]
      BY <2>4
    <3>2. ToSet(stores) = {Access(slot, t)}
      BY <2>1 DEF ToSet
    <3> HIDE DEF stores
    <3> QED
      BY <2>1, <3>1, <3>2, FunctionIsSeq
  <2>6. a \in Uses(i) => loads \in Seq(Accesses) /\ Access(slot, s) \in ToSet(loads)
    <3> SUFFICES ASSUME a \in Uses(i)
                 PROVE  loads \in Seq(Accesses) /\ Access(slot, s) \in ToSet(loads)
      OBVIOUS
    <3>1. loads \in [1..v -> Accesses]
      <4>1. \A k \in 1..v : used + k \in 1..3
        BY <2>1
      <4> QED
        BY <2>4, <4>1
    <3>2. loads[1] = Access(slot, s) /\ 1 \in DOMAIN loads
      BY <2>1
    <3> HIDE DEF loads
    <3> QED
      BY <2>1, <3>1, <3>2, FunctionIsSeq DEF ToSet
  <2> DEFINE before == i.before
             after == i.after
  <2>7. ToSet(stores \o after) = {Access(slot, t)} \cup ToSet(after)
    <3> HIDE DEF stores, after
    <3> QED
      BY <2>3, <2>5, ConcatElements DEF after
  <2>8. a \in Uses(i) => ToSet(before \o loads) = ToSet(before) \cup ToSet(loads)
    <3> HIDE DEF loads, before
    <3> QED
      BY <2>3, <2>6, ConcatElements DEF before
  <2> HIDE DEF j, t, s, stores, loads
  <2> QED
    BY <2>2, <2>5, <2>6, <2>7, <2>8 DEF j, t, s
<1> QED
  BY <1>1, <1>2

(* An operand in P that is not spilled is in the instruction as it is or   *)
(* as its register; a spilled one is not in it any more.                   *)
LEMMA WhereItWas ==
  ASSUME TypeOK, NEW P \in CodeInstrs, NEW i \in CodeInstrs, CompiledTo(P, i),
         NEW a \in Virtual, a \notin rewritten, rewritten \subseteq DOMAIN alloc_map
  PROVE  /\ \A k \in 1..Len(P.use) : i.use[k] = a <=> P.use[k] = a /\ a \notin Spilled
         /\ \A k \in 1..Len(P.def) : i.def[k] = a <=> P.def[k] = a /\ a \notin Spilled
         /\ a \in Defs(i) => a \in Defs(P)
<1>1. a \notin Physical
  BY OperandAssumption
<1>2. \A o \in rewritten : alloc_map[o] \in Physical
  BY OperandAssumption DEF TypeOK, Allocatable, ToSet
<1>3. /\ i.before \in Seq(Accesses) /\ i.def \in Seq(Operands) /\ P.def \in Seq(Operands)
  BY DEF CodeInstrs
<1>4. \A x \in ToSet(i.before) : x.reg \in Physical
  <2> DEFINE b == i.before
  <2>1. b \in Seq(Accesses)
    BY <1>3
  <2> HIDE DEF b
  <2>2. \A x \in ToSet(b) : x \in Accesses
    BY <2>1, ElementOfSeq, LenProperties DEF ToSet
  <2> QED
    BY <2>2 DEF b, Accesses
<1>5. \A o : Temps(o)[1] \in Physical
  <2>1. 1 \in 1..3
    OBVIOUS
  <2> QED
    BY <2>1, TempsProperties
<1>6. ASSUME NEW k \in 1..Len(P.use)
      PROVE  i.use[k] = a <=> P.use[k] = a /\ a \notin Spilled
  <2>1. ReadsAs(P, i, k)
    BY DEF CompiledTo
  <2>2. CASE P.use[k] \in Spilled
    <3>1. Access(operand_spill_map[P.use[k]], i.use[k]) \in ToSet(i.before)
      BY <2>1, <2>2 DEF ReadsAs
    <3>2. i.use[k] \in Physical
      BY <1>4, <3>1 DEF Access
    <3> QED
      BY <1>1, <2>2, <3>2
  <2>3. CASE P.use[k] \notin Spilled
    BY <1>1, <1>2, <2>1, <2>3 DEF ReadsAs
  <2> QED
    BY <2>2, <2>3
<1>7. ASSUME NEW k \in 1..Len(P.def)
      PROVE  i.def[k] = a <=> P.def[k] = a /\ a \notin Spilled
  <2>1. WritesAs(P, i, k)
    BY DEF CompiledTo
  <2> QED
    BY <1>1, <1>2, <1>5, <2>1 DEF WritesAs
<1>8. ASSUME a \in Defs(i) PROVE a \in Defs(P)
  <2>1. DOMAIN i.def = 1..Len(P.def) /\ DOMAIN P.def = 1..Len(P.def)
    BY <1>3, LenProperties DEF CompiledTo
  <2> QED
    BY <1>7, <1>8, <2>1 DEF Defs, ToSet
<1> QED
  BY <1>6, <1>7, <1>8

LEMMA SpillKeepsCompiled ==
  ASSUME TypeOK, Placement, CodeInv, RewrittenOK, pass = "allocate_register",
         NEW e \in alloc_priority_queue, SpillOperand(e),
         NEW n \in InstrNumbers, NEW P \in CodeInstrs, CompiledTo(P, InstrAt(n))
  PROVE  CompiledTo(P, InstrAt(n))'
<1> DEFINE a == e.alloc
           slot == PushedIndex(frame)
           i == InstrAt(n)
           j == SpillInstr(i, a, slot)
           t == Temps(a)[1]
           s == Temps(a)[used_temp_map[n] + 1]
<1>1. a \in Virtual /\ a \notin Spilled /\ slot \in Nat /\ rewritten = {}
  <2>1. a \in Allocs /\ a \in Queued /\ frame \in Frames
    BY DEF TypeOK, Queued
  <2> QED
    BY <2>1, FrameFacts, AllocFacts DEF Placement, PushedIndex, Spilled, RewrittenOK, Allocated
<1> HIDE DEF slot
<1>2. /\ operand_spill_map' = [x \in Spilled \cup {a} |->
                                 IF x = a THEN slot ELSE operand_spill_map[x]]
      /\ blocks' = [b \in DOMAIN blocks |->
           [blocks[b] EXCEPT !.body = [k \in DOMAIN @ |-> SpillInstr(@[k], a, slot)]]]
      /\ num2instr' = num2instr /\ rewritten' = {}
  BY <1>1 DEF SpillOperand, rewriting, slot, Spilled
<1> HIDE DEF a
<1>3. /\ Spilled' = Spilled \cup {a} /\ operand_spill_map'[a] = slot
      /\ \A o \in Spilled : operand_spill_map'[o] = operand_spill_map[o]
  BY <1>1, <1>2 DEF Spilled
<1>4. InPlace(n) /\ ToBeReplaced(n) /\ Reloads(n) /\ EnoughTemps(n)
  BY DEF CodeInv
<1>5. i \in CodeInstrs /\ i.number = n
  BY <1>4 DEF InPlace
<1>6. InstrAt(n)' = j
  BY <1>2, <1>4 DEF InPlace, InstrAt, InstrNumbered
<1>7. /\ used_temp_map[n] \in 0..3
      /\ a \in Defs(i) \cup Uses(i) => Visits(a, n) \in 1..2
      /\ a \in Uses(i) => used_temp_map[n] + Visits(a, n) <= 3
  BY <1>1, <1>4, TemporaryIsLeft DEF Mentioned, Reads
<1> HIDE DEF i, j, t, s
<1>8. /\ j.label = i.label /\ j.mv = i.mv
      /\ Replaced(j.def, i.def, a, t) /\ Replaced(j.use, i.use, a, s)
      /\ ToSet(i.after) \subseteq ToSet(j.after)
      /\ ToSet(j.after) \subseteq ToSet(i.after) \cup {Access(slot, t)}
      /\ a \in Defs(i) => Access(slot, t) \in ToSet(j.after)
      /\ a \notin Defs(i) => j.after = i.after
      /\ ToSet(i.before) \subseteq ToSet(j.before)
      /\ a \in Uses(i) => Access(slot, s) \in ToSet(j.before)
  BY <1>1, <1>5, <1>7, SpillSets DEF j, t, s
<1>9. /\ \A k \in 1..Len(P.use) : i.use[k] = a <=> P.use[k] = a
      /\ \A k \in 1..Len(P.def) : i.def[k] = a <=> P.def[k] = a
      /\ a \in Defs(i) => a \in Defs(P)
  BY <1>1, <1>5, WhereItWas DEF i
<1>10. /\ CompiledTo(P, i)
       /\ DOMAIN i.use = 1..Len(P.use) /\ DOMAIN i.def = 1..Len(P.def)
  <2>1. i.use \in Seq(Operands) /\ i.def \in Seq(Operands)
    BY <1>5 DEF CodeInstrs
  <2> QED
    BY <2>1, LenProperties DEF CompiledTo, i
<1>11. ASSUME NEW k \in 1..Len(P.use) PROVE ReadsAs(P, InstrAt(n), k)'
  <2> DEFINE o == P.use[k]
  <2>1. ReadsAs(P, i, k) /\ j.use[k] = IF i.use[k] = a THEN s ELSE i.use[k]
    BY <1>8, <1>10 DEF CompiledTo, Replaced
  <2>2. CASE o = a
    <3>1. a \in Uses(i) /\ j.use[k] = s
      BY <1>9, <1>10, <2>1, <2>2 DEF Uses, ToSet
    <3> QED
      BY <1>3, <1>6, <1>8, <2>2, <3>1 DEF ReadsAs
  <2>3. CASE o # a
    <3>1. j.use[k] = i.use[k]
      BY <1>9, <2>1, <2>3
    <3> QED
      BY <1>1, <1>2, <1>3, <1>6, <1>8, <2>1, <2>3, <3>1 DEF ReadsAs
  <2> QED
    BY <2>2, <2>3
<1>12. ASSUME NEW k \in 1..Len(P.def) PROVE WritesAs(P, InstrAt(n), k)'
  <2> DEFINE o == P.def[k]
  <2>1. WritesAs(P, i, k) /\ j.def[k] = IF i.def[k] = a THEN t ELSE i.def[k]
    BY <1>8, <1>10 DEF CompiledTo, Replaced
  <2>2. CASE o = a
    <3>1. a \in Defs(i) /\ j.def[k] = t
      BY <1>9, <1>10, <2>1, <2>2 DEF Defs, ToSet
    <3>2. \A x : Temps(x)' = Temps(x)
      BY DEF Temps
    <3> QED
      BY <1>3, <1>6, <1>8, <2>2, <3>1, <3>2 DEF WritesAs, t
  <2>3. CASE o # a
    <3>1. j.def[k] = i.def[k]
      BY <1>9, <2>1, <2>3
    <3> QED
      BY <1>1, <1>2, <1>3, <1>6, <1>8, <2>1, <2>3, <3>1 DEF WritesAs, Temps
  <2> QED
    BY <2>2, <2>3
<1>13. StoresOnly(P, InstrAt(n))'
  <2>1. ToSet(i.after) \subseteq
          {Access(operand_spill_map[o], Temps(o)[1]) : o \in Defs(P) \cap Spilled}
    BY <1>10 DEF CompiledTo, StoresOnly
  <2>2. ASSUME NEW x \in ToSet(j.after)
        PROVE  \E o \in Defs(P) \cap Spilled' : x = Access(operand_spill_map'[o], Temps(o)[1])
    <3>1. CASE x \in ToSet(i.after)
      BY <1>3, <2>1, <3>1
    <3>2. CASE x \notin ToSet(i.after)
      <4>1. a \in Defs(P) /\ x = Access(slot, t)
        BY <1>8, <1>9, <3>2
      <4> QED
        BY <1>3, <4>1 DEF t
    <3> QED
      BY <3>1, <3>2
  <2> QED
    BY <1>6, <2>2 DEF StoresOnly
<1>14. /\ j.label = P.label /\ j.mv = P.mv
       /\ Len(j.use) = Len(P.use) /\ Len(j.def) = Len(P.def)
  BY <1>8, <1>10 DEF CompiledTo, Replaced
<1> QED
  BY <1>6, <1>11, <1>12, <1>13, <1>14 DEF CompiledTo

LEMMA RewriteKeepsCompiled ==
  ASSUME TypeOK, Placement, CodeInv, RewrittenOK, RewriteOperand,
         NEW n \in InstrNumbers, NEW P \in CodeInstrs, CompiledTo(P, InstrAt(n))
  PROVE  CompiledTo(P, InstrAt(n))'
<1>1. PICK a \in DOMAIN alloc_map \ rewritten :
        /\ blocks' = [b \in DOMAIN blocks |->
             [blocks[b] EXCEPT !.body =
                [k \in DOMAIN @ |-> RewriteInstr(@[k], a, alloc_map[a])]]]
        /\ rewritten' = rewritten \cup {a}
  BY DEF RewriteOperand
<1> DEFINE reg == alloc_map[a]
           i == InstrAt(n)
           j == RewriteInstr(i, a, reg)
<1>2. /\ num2instr' = num2instr /\ operand_spill_map' = operand_spill_map
      /\ alloc_map' = alloc_map /\ Spilled' = Spilled /\ \A x : Temps(x)' = Temps(x)
  BY DEF RewriteOperand, spilling, allocation, Spilled, Temps
<1>3. a \in Virtual /\ a \notin Spilled /\ reg \in Physical
  <2>1. a \in Allocs /\ reg \in Allocatable
    BY DEF TypeOK
  <2> QED
    BY <2>1, OperandAssumption DEF Allocs, Allocatable, ToSet, Placement, Spilled
<1> HIDE DEF reg
<1>4. InPlace(n) /\ ToBeReplaced(n)
  BY DEF CodeInv
<1>5. i \in CodeInstrs /\ i.number = n
  BY <1>4 DEF InPlace
<1>6. InstrAt(n)' = j
  BY <1>1, <1>2, <1>4 DEF InPlace, InstrAt, InstrNumbered, reg
<1>7. a \in Defs(i) \cup Uses(i) => Visits(a, i.number) # 0
  BY <1>3, <1>4, <1>5 DEF ToBeReplaced, Mentioned
<1> HIDE DEF i, j
<1>8. /\ j.label = i.label /\ j.mv = i.mv /\ j.before = i.before /\ j.after = i.after
      /\ Replaced(j.def, i.def, a, reg) /\ Replaced(j.use, i.use, a, reg)
  BY <1>3, <1>5, <1>7, RewriteFields DEF j
<1>9. /\ \A k \in 1..Len(P.use) : i.use[k] = a <=> P.use[k] = a
      /\ \A k \in 1..Len(P.def) : i.def[k] = a <=> P.def[k] = a
  BY <1>3, <1>5, WhereItWas DEF i, RewrittenOK
<1>10. CompiledTo(P, i)
  BY DEF i
<1>11. ASSUME NEW k \in 1..Len(P.use) PROVE ReadsAs(P, InstrAt(n), k)'
  <2>1. ReadsAs(P, i, k) /\ j.use[k] = IF P.use[k] = a THEN reg ELSE i.use[k]
    BY <1>8, <1>9, <1>10 DEF CompiledTo, Replaced
  <2> QED
    BY <1>1, <1>2, <1>3, <1>6, <1>8, <2>1 DEF ReadsAs, reg
<1>12. ASSUME NEW k \in 1..Len(P.def) PROVE WritesAs(P, InstrAt(n), k)'
  <2>1. WritesAs(P, i, k) /\ j.def[k] = IF P.def[k] = a THEN reg ELSE i.def[k]
    BY <1>8, <1>9, <1>10 DEF CompiledTo, Replaced
  <2> QED
    BY <1>1, <1>2, <1>3, <1>6, <1>8, <2>1 DEF WritesAs, reg
<1>13. StoresOnly(P, InstrAt(n))'
  BY <1>2, <1>6, <1>8, <1>10 DEF CompiledTo, StoresOnly
<1>14. /\ j.label = P.label /\ j.mv = P.mv
       /\ Len(j.use) = Len(P.use) /\ Len(j.def) = Len(P.def)
  BY <1>8, <1>10 DEF CompiledTo, Replaced
<1> QED
  BY <1>6, <1>11, <1>12, <1>13, <1>14 DEF CompiledTo

(* Nothing else touches the code.                                          *)
LEMMA NextKeepsCompiled ==
  ASSUME IInv, CodeInv, RewrittenOK, [Next]_vars,
         NEW n \in InstrNumbers, NEW P \in CodeInstrs, CompiledTo(P, InstrAt(n))
  PROVE  CompiledTo(P, InstrAt(n))'
<1>1. TypeOK /\ Placement
  BY DEF IInv, AllocInv
<1>2. ASSUME UNCHANGED <<blocks, num2instr, operand_spill_map, rewritten>>,
             \A o \in rewritten : alloc_map'[o] = alloc_map[o]
      PROVE  CompiledTo(P, InstrAt(n))'
  <2>1. /\ InstrAt(n)' = InstrAt(n) /\ Spilled' = Spilled /\ \A x : Temps(x)' = Temps(x)
    BY <1>2 DEF InstrAt, InstrNumbered, Spilled, Temps
  <2>2. ASSUME NEW k \in 1..Len(P.use) PROVE ReadsAs(P, InstrAt(n), k)'
    <3>1. ReadsAs(P, InstrAt(n), k)
      BY DEF CompiledTo
    <3> QED
      BY <1>2, <2>1, <3>1 DEF ReadsAs
  <2>3. ASSUME NEW k \in 1..Len(P.def) PROVE WritesAs(P, InstrAt(n), k)'
    <3>1. WritesAs(P, InstrAt(n), k)
      BY DEF CompiledTo
    <3> QED
      BY <1>2, <2>1, <3>1 DEF WritesAs
  <2>4. StoresOnly(P, InstrAt(n))'
    BY <1>2, <2>1 DEF CompiledTo, StoresOnly
  <2> QED
    BY <2>1, <2>2, <2>3, <2>4 DEF CompiledTo
<1>3. CASE AllocateHint \/ AllocateInit \/ AllocateWeight \/ FillQueue
           \/ AllocateRegisterReturns \/ RewriteOperandsReturns
  BY <1>2, <1>3 DEF AllocateHint, AllocateInit, AllocateWeight, FillQueue,
     AllocateRegisterReturns, RewriteOperandsReturns, code, allocation, spilling, rewriting
<1>4. CASE AllocateRegister
  <2>1. PICK e \in Top : TryAllocate(e) \/ TrySplit(e) \/ SpillOperand(e)
    BY <1>4 DEF AllocateRegister
  <2>2. pass = "allocate_register" /\ e \in alloc_priority_queue /\ rewritten = {}
    BY <1>4 DEF AllocateRegister, Top, RewrittenOK, Allocated
  <2>3. CASE TryAllocate(e) \/ TrySplit(e)
    BY <1>2, <2>2, <2>3 DEF TryAllocate, TrySplit, code, spilling, rewriting
  <2>4. CASE SpillOperand(e)
    BY <1>1, <2>2, <2>4, SpillKeepsCompiled
  <2> QED
    BY <2>1, <2>3, <2>4
<1>5. CASE RewriteOperand
  BY <1>1, <1>5, RewriteKeepsCompiled
<1>6. CASE UNCHANGED vars
  BY <1>2, <1>6 DEF vars, code, allocation, spilling, rewriting
<1> QED
  BY <1>3, <1>4, <1>5, <1>6 DEF Next

LEMMA NextRewritten == IInv /\ RewrittenOK /\ [Next]_vars => RewrittenOK'
<1> SUFFICES ASSUME IInv, RewrittenOK, [Next]_vars PROVE RewrittenOK'
  OBVIOUS
<1> USE DEF RewrittenOK, Allocated
<1>1. CASE AllocateHint \/ AllocateInit \/ AllocateWeight \/ FillQueue
           \/ AllocateRegisterReturns \/ RewriteOperandsReturns
  BY <1>1 DEF AllocateHint, AllocateInit, AllocateWeight, FillQueue,
     AllocateRegisterReturns, RewriteOperandsReturns, allocation, rewriting
<1>2. CASE AllocateRegister
  <2>1. rewritten = {}
    BY <1>2 DEF AllocateRegister
  <2> QED
    BY <1>2, <2>1 DEF AllocateRegister, TryAllocate, TrySplit, SpillOperand, rewriting
<1>3. CASE RewriteOperand
  BY <1>3 DEF RewriteOperand, allocation
<1>4. CASE UNCHANGED vars
  BY <1>4 DEF vars, allocation, rewriting
<1> QED
  BY <1>1, <1>2, <1>3, <1>4 DEF Next

(* What allocate_hint is given is what it has been compiled to so far.     *)
LEMMA InitCompiled ==
  ASSUME HandedOver, NEW n \in InstrNumbers, NEW P,
         InstrAt(n).def = P.def, InstrAt(n).use = P.use,
         InstrAt(n).label = P.label, InstrAt(n).mv = P.mv, InstrAt(n).after = <<>>
  PROVE  CompiledTo(P, InstrAt(n)) /\ RewrittenOK
<1>1. Spilled = {} /\ rewritten = {}
  BY DEF HandedOver, InitAllocator, Spilled
<1>2. ToSet(InstrAt(n).after) = {}
  BY DEF ToSet
<1> QED
  BY <1>1, <1>2 DEF CompiledTo, ReadsAs, WritesAs, StoresOnly, RewrittenOK

(* The allocator has its own passes, and does not come back to the first.  *)
Passes == {"allocate_hint", "allocate_init", "allocate_weight", "fill_queue",
           "allocate_register", "rewrite_operands", "generate_prolog"}

LEMMA NextPass ==
  Next => pass \in Passes \ {"generate_prolog"} /\ pass' \in Passes \ {"allocate_hint"}
<1>1. \A e : TryAllocate(e) \/ TrySplit(e) \/ SpillOperand(e) => pass' = pass
  BY DEF TryAllocate, TrySplit, SpillOperand
<1>2. AllocateRegister => pass = "allocate_register" /\ pass' = pass
  BY <1>1 DEF AllocateRegister
<1> QED
  BY <1>2 DEF Next, Passes, AllocateHint, AllocateInit, AllocateWeight, FillQueue,
     AllocateRegisterReturns, RewriteOperand, RewriteOperandsReturns

(* No pass moves an instruction or renumbers it.                           *)
IsMap(f) == f = [x \in DOMAIN f |-> f[x]]

LEMMA NextKeepsPlaces ==
  ASSUME [Next]_vars
  PROVE  /\ UNCHANGED <<num2instr, live_ranges>>
         /\ DOMAIN blocks' = DOMAIN blocks
         /\ IsMap(blocks) => IsMap(blocks')
         /\ \A b \in DOMAIN blocks :
              "body" \in DOMAIN blocks[b] =>
                /\ "body" \in DOMAIN blocks'[b]
                /\ DOMAIN blocks'[b].body = DOMAIN blocks[b].body
                /\ IsMap(blocks[b].body) => IsMap(blocks'[b].body)
<1>1. CASE UNCHANGED code
  BY <1>1 DEF code
<1>2. CASE AllocateHint \/ AllocateInit \/ AllocateWeight \/ FillQueue
           \/ AllocateRegisterReturns \/ RewriteOperandsReturns
  BY <1>1, <1>2 DEF AllocateHint, AllocateInit, AllocateWeight, FillQueue,
     AllocateRegisterReturns, RewriteOperandsReturns
<1>3. CASE AllocateRegister
  <2>1. PICK e \in Top : TryAllocate(e) \/ TrySplit(e) \/ SpillOperand(e)
    BY <1>3 DEF AllocateRegister
  <2>2. CASE TryAllocate(e) \/ TrySplit(e)
    BY <1>1, <2>2 DEF TryAllocate, TrySplit
  <2>3. CASE SpillOperand(e)
    <3>1. /\ UNCHANGED <<num2instr, live_ranges>>
          /\ blocks' = [b \in DOMAIN blocks |-> [blocks[b] EXCEPT !.body =
               [k \in DOMAIN @ |-> SpillInstr(@[k], e.alloc, PushedIndex(frame))]]]
      BY <2>3 DEF SpillOperand
    <3>2. ASSUME NEW b \in DOMAIN blocks, "body" \in DOMAIN blocks[b]
          PROVE  /\ "body" \in DOMAIN blocks'[b]
                 /\ blocks'[b].body = [k \in DOMAIN blocks[b].body |->
                      SpillInstr(blocks[b].body[k], e.alloc, PushedIndex(frame))]
      BY <3>1, <3>2
    <3>3. IsMap(blocks') /\ DOMAIN blocks' = DOMAIN blocks
      BY <3>1 DEF IsMap
    <3> QED
      BY <3>1, <3>2, <3>3 DEF IsMap
  <2> QED
    BY <2>1, <2>2, <2>3
<1>4. CASE RewriteOperand
  <2>1. PICK a \in DOMAIN alloc_map \ rewritten :
          blocks' = [b \in DOMAIN blocks |-> [blocks[b] EXCEPT !.body =
            [k \in DOMAIN @ |-> RewriteInstr(@[k], a, alloc_map[a])]]]
    BY <1>4 DEF RewriteOperand
  <2>2. UNCHANGED <<num2instr, live_ranges>>
    BY <1>4 DEF RewriteOperand
  <2>3. ASSUME NEW b \in DOMAIN blocks, "body" \in DOMAIN blocks[b]
        PROVE  /\ "body" \in DOMAIN blocks'[b]
               /\ blocks'[b].body = [k \in DOMAIN blocks[b].body |->
                    RewriteInstr(blocks[b].body[k], a, alloc_map[a])]
    BY <2>1, <2>3
  <2>4. IsMap(blocks') /\ DOMAIN blocks' = DOMAIN blocks
    BY <2>1 DEF IsMap
  <2> QED
    BY <2>2, <2>3, <2>4 DEF IsMap
<1>5. CASE UNCHANGED vars
  BY <1>1, <1>5 DEF vars
<1> QED
  BY <1>2, <1>3, <1>4, <1>5 DEF Next
-----------------------------------------------------------------------------
(* How the loop of allocate_register comes to its end.                     *)
Kept(f, g) == \A x \in DOMAIN f : x \in DOMAIN g /\ g[x] = f[x]

(* One operand of the queue goes further, the others stay.                 *)
MovedOn(a) ==
  /\ a \in Queued
  /\ Progress(a)' > Progress(a)
  /\ \A b \in Allocs \ {a} : Progress(b)' = Progress(b)

Advances ==
  /\ Kept(alloc_map, alloc_map')
  /\ Kept(operand_spill_map, operand_spill_map')
  /\ pass = "allocate_register" /\ pass' = pass => \E a \in Queued : MovedOn(a)

(* An operand of the queue is where its status says, and has gone no       *)
(* further.                                                                *)
LEMMA ProgressOfQueued ==
  ASSUME IInv, NEW e \in alloc_priority_queue
  PROVE  /\ e.alloc \in Queued /\ e.alloc \in Allocs
         /\ e.alloc \notin DOMAIN alloc_map \cup DOMAIN operand_spill_map
         /\ e.alloc \in DOMAIN alloc_status_map
         /\ Progress(e.alloc) = e.status
         /\ e.status \in New..Spill
<1>1. e.alloc \in Queued /\ e.alloc \in Allocs /\ e.status \in New..Spill
  BY DEF IInv, TypeOK, Queued
<1>2. e.alloc \notin DOMAIN alloc_map \cup DOMAIN operand_spill_map
  BY <1>1 DEF IInv, AllocInv, Placement
<1>3. e.alloc \in DOMAIN alloc_status_map /\ alloc_status_map[e.alloc] = e.status
  <2>1. pass \notin {"allocate_hint", "allocate_init"}
    BY <1>1 DEF IInv, AllocInv, Placement, Allocating
  <2> QED
    BY <1>1, <2>1 DEF IInv, AllocInv, Bookkeeping
<1> QED
  BY <1>1, <1>2, <1>3 DEF Progress

LEMMA AssignAdvances ==
  ASSUME IInv, NEW e \in alloc_priority_queue, NEW reg, AssignRegister(e.alloc, reg),
         UNCHANGED <<operand_spill_map, live_ranges>>
  PROVE  Kept(alloc_map, alloc_map') /\ MovedOn(e.alloc)
<1> DEFINE a == e.alloc
<1>1. /\ a \in Queued /\ a \notin DOMAIN alloc_map /\ Progress(a) = e.status
      /\ a \in DOMAIN alloc_status_map /\ e.status \in New..Spill
  BY ProgressOfQueued
<1>2. /\ alloc_map' = [x \in DOMAIN alloc_map \cup {a} |->
                          IF x = a THEN reg ELSE alloc_map[x]]
      /\ alloc_status_map' = [alloc_status_map EXCEPT ![a] = Assign]
      /\ operand_spill_map' = operand_spill_map
  BY DEF AssignRegister
<1> HIDE DEF a
<1>3. /\ DOMAIN alloc_map' = DOMAIN alloc_map \cup {a}
      /\ \A x \in DOMAIN alloc_map : x # a => alloc_map'[x] = alloc_map[x]
      /\ DOMAIN alloc_status_map' = DOMAIN alloc_status_map
      /\ \A x \in DOMAIN alloc_status_map : x # a => alloc_status_map'[x] = alloc_status_map[x]
  BY <1>2
<1>4. Progress(a)' = Spill + 1
  BY <1>3 DEF Progress
<1>5. \A b \in Allocs \ {a} : Progress(b)' = Progress(b)
  BY <1>2, <1>3 DEF Progress
<1>6. Progress(a)' > Progress(a)
  BY <1>1, <1>4 DEF New, Spill, a
<1>7. Kept(alloc_map, alloc_map')
  BY <1>1, <1>3 DEF Kept, a
<1> QED
  BY <1>1, <1>5, <1>6, <1>7 DEF MovedOn, a

LEMMA RequeueAdvances ==
  ASSUME IInv, NEW e \in alloc_priority_queue, NEW status \in New..Spill, e.status < status,
         alloc_status_map' = [alloc_status_map EXCEPT ![e.alloc] = status],
         UNCHANGED <<alloc_map, operand_spill_map, live_ranges>>
  PROVE  MovedOn(e.alloc)
<1> DEFINE a == e.alloc
<1>1. /\ a \in Queued /\ a \notin DOMAIN alloc_map \cup DOMAIN operand_spill_map
      /\ Progress(a) = e.status /\ a \in DOMAIN alloc_status_map /\ e.status \in New..Spill
  BY ProgressOfQueued
<1> HIDE DEF a
<1>2. /\ DOMAIN alloc_status_map' = DOMAIN alloc_status_map
      /\ alloc_status_map'[a] = status
      /\ \A x \in DOMAIN alloc_status_map : x # a => alloc_status_map'[x] = alloc_status_map[x]
  BY <1>1 DEF a
<1>3. Progress(a)' = status
  BY <1>1, <1>2 DEF Progress
<1>4. \A b \in Allocs \ {a} : Progress(b)' = Progress(b)
  BY <1>2 DEF Progress
<1> QED
  BY <1>1, <1>3, <1>4 DEF MovedOn, a

LEMMA SpillAdvances ==
  ASSUME IInv, NEW e \in alloc_priority_queue, SpillOperand(e)
  PROVE  Kept(operand_spill_map, operand_spill_map') /\ MovedOn(e.alloc)
<1> DEFINE a == e.alloc
<1>1. /\ a \in Queued /\ a \notin DOMAIN operand_spill_map
      /\ Progress(a) = e.status /\ e.status \in New..Spill
  BY ProgressOfQueued
<1>2. /\ operand_spill_map' = [x \in DOMAIN operand_spill_map \cup {a} |->
                                 IF x = a THEN PushedIndex(frame) ELSE operand_spill_map[x]]
      /\ alloc_map' = alloc_map /\ alloc_status_map' = alloc_status_map
  BY DEF SpillOperand
<1> HIDE DEF a
<1>3. /\ DOMAIN operand_spill_map' = DOMAIN operand_spill_map \cup {a}
      /\ \A x \in DOMAIN operand_spill_map : x # a => operand_spill_map'[x] = operand_spill_map[x]
  BY <1>2
<1>4. Progress(a)' = Spill + 1
  BY <1>3 DEF Progress
<1>5. \A b \in Allocs \ {a} : Progress(b)' = Progress(b)
  BY <1>2, <1>3 DEF Progress
<1>6. Progress(a)' > Progress(a)
  BY <1>1, <1>4 DEF New, Spill
<1>7. Kept(operand_spill_map, operand_spill_map')
  BY <1>1, <1>3 DEF Kept
<1> QED
  BY <1>1, <1>5, <1>6, <1>7 DEF MovedOn, a

LEMMA NextAdvances == IInv /\ Next => Advances
<1> SUFFICES ASSUME IInv, Next PROVE Advances
  OBVIOUS
<1>1. CASE AllocateHint \/ AllocateWeight \/ FillQueue \/ AllocateRegisterReturns
           \/ RewriteOperand \/ RewriteOperandsReturns
  <2>1. UNCHANGED <<alloc_map, operand_spill_map>> /\ (pass = "allocate_register" => pass' # pass)
    BY <1>1 DEF AllocateHint, AllocateWeight, FillQueue, AllocateRegisterReturns,
       RewriteOperand, RewriteOperandsReturns, allocation, spilling
  <2> QED
    BY <2>1 DEF Advances, Kept
<1>2. CASE AllocateInit
  <2>1. UNCHANGED <<alloc_map, operand_spill_map>> /\ pass # "allocate_register"
    BY <1>2 DEF AllocateInit
  <2> QED
    BY <2>1 DEF Advances, Kept
<1>3. CASE AllocateRegister
  <2>1. PICK e \in Top : TryAllocate(e) \/ TrySplit(e) \/ SpillOperand(e)
    BY <1>3 DEF AllocateRegister
  <2>2. e \in alloc_priority_queue /\ e.alloc \in Queued
    BY <2>1 DEF Top, Queued
  <2>3. CASE SpillOperand(e)
    <3>1. alloc_map' = alloc_map
      BY <2>3 DEF SpillOperand
    <3> QED
      BY <2>2, <2>3, <3>1, SpillAdvances DEF Advances, Kept
  <2>4. CASE TrySplit(e)
    <3>1. /\ e.status = Split /\ UNCHANGED <<alloc_map, operand_spill_map, live_ranges>>
          /\ alloc_status_map' = [alloc_status_map EXCEPT ![e.alloc] = Spill]
      BY <2>4 DEF TrySplit, code, spilling
    <3>2. Spill \in New..Spill /\ e.status < Spill
      BY <3>1 DEF New, Split, Spill
    <3>3. MovedOn(e.alloc)
      BY <2>2, <3>1, <3>2, RequeueAdvances
    <3> QED
      BY <2>2, <3>1, <3>3 DEF Advances, Kept
  <2>5. CASE TryAllocate(e)
    <3>1. e.status = New /\ UNCHANGED <<operand_spill_map, live_ranges>>
      BY <2>5 DEF TryAllocate, code, spilling
    <3>2. CASE \E reg : AssignRegister(e.alloc, reg)
      BY <2>2, <3>1, <3>2, AssignAdvances DEF Advances, Kept
    <3>3. CASE /\ alloc_status_map' = [alloc_status_map EXCEPT ![e.alloc] = Split]
               /\ alloc_map' = alloc_map
      <4>1. Split \in New..Spill /\ e.status < Split
        BY <3>1 DEF New, Split, Spill
      <4>2. MovedOn(e.alloc)
        BY <2>2, <3>1, <3>3, <4>1, RequeueAdvances
      <4> QED
        BY <2>2, <3>1, <3>3, <4>2 DEF Advances, Kept
    <3> QED
      BY <2>5, <3>2, <3>3 DEF TryAllocate
  <2> QED
    BY <2>1, <2>3, <2>4, <2>5
<1> QED
  BY <1>1, <1>2, <1>3 DEF Next

(* An operand that has a register or a slot keeps it, and every turn of    *)
(* the loop of allocate_register takes one operand further and none back:  *)
(* whatever the function, the loop cannot go round for ever.               *)
THEOREM QueueOnlyAdvances == Spec => QueueAdvances
<1>1. IInv /\ [Next]_vars =>
        [/\ \A a \in DOMAIN alloc_map :
              a \in DOMAIN alloc_map' /\ alloc_map'[a] = alloc_map[a]
         /\ \A a \in DOMAIN operand_spill_map :
              a \in DOMAIN operand_spill_map' /\ operand_spill_map'[a] = operand_spill_map[a]
         /\ pass = "allocate_register" /\ pass' = pass =>
              \E a \in Queued :
                /\ Progress(a)' > Progress(a)
                /\ \A b \in Allocs \ {a} : Progress(b)' = Progress(b)]_vars
  BY NextAdvances DEF Advances, Kept, MovedOn
<1> QED
  BY <1>1, Invariance, PTL DEF Spec, QueueAdvances
-----------------------------------------------------------------------------
(* spill and rewrite_operands index num2instr with every number in a range *)
(* of the operand they turn to, and with no other: with none outside of    *)
(* it, such as the -1 of an instruction number_instruction never came to.  *)
VisitsAreNumbered ==
  \A a \in Virtual : \A n \in Int \ InstrNumbers : Visits(a, n) = 0

LEMMA InitRangesNumbered == HandedOver => RangesAreNumbered
<1> SUFFICES ASSUME HandedOver PROVE RangesAreNumbered
  OBVIOUS
<1>1. num2instr \in Seq((DOMAIN blocks) \X Nat)
  BY DEF HandedOver, IsAnalysed
<1> QED
  BY <1>1, LenProperties DEF HandedOver, RangesAreNumbered

LEMMA NextRangesNumbered == RangesAreNumbered /\ [Next]_vars => RangesAreNumbered'
BY NextKeepsPlaces DEF RangesAreNumbered

LEMMA RangesNumberVisits == RangesOK /\ RangesAreNumbered => VisitsAreNumbered
<1> SUFFICES ASSUME RangesOK, RangesAreNumbered,
                    NEW a \in Virtual, NEW n \in Int \ InstrNumbers
             PROVE  Visits(a, n) = 0
  BY DEF VisitsAreNumbered
<1>1. a \in Operands
  BY DEF Operands
<1>2. ASSUME NEW r \in live_ranges[a], r.fromNum <= n, n <= r.toNum
      PROVE  FALSE
  <2>1. r.fromNum \in Int /\ r.toNum \in Int
    BY <1>1 DEF RangesOK, InOrder, IsRange
  <2>2. 0 <= r.fromNum /\ r.toNum < Len(num2instr) /\ Len(num2instr) \in Nat
    BY DEF RangesAreNumbered, IsNumbered
  <2> QED
    BY <1>2, <2>1, <2>2 DEF InstrNumbers
<1>3. Covering(live_ranges[a], n) = {}
  BY <1>2 DEF Covering
<1> QED
  BY <1>3, FS_EmptySet DEF Visits

(* For every function whose ranges are numbered, allocation indexes        *)
(* num2instr with nothing but the numbers of its instructions.             *)
THEOREM NoStrayVisits == Spec => []VisitsAreNumbered
<1>1. Init => IInv /\ RangesAreNumbered
  BY InitHandedOver, InitInv, InitRangesNumbered
<1>2. IInv /\ RangesAreNumbered => VisitsAreNumbered
  BY RangesNumberVisits DEF IInv
<1> QED
  BY <1>1, <1>2, NextInv, NextRangesNumbered, PTL DEF Spec
=============================================================================
