----------------------------- MODULE LiveRange -----------------------------
(***************************************************************************)
(* The live ranges of the register allocator (struct LiveRange and the     *)
(* AllocRange pairs, src/include/bkd_func.h).  A range lies inside one     *)
(* block and is a pair of instruction numbers: the value is written at     *)
(* fromNum (or enters the block there) and read for the last time at toNum *)
(* (or leaves the block there).  A range [n, n] is a definition nobody in  *)
(* the block reads, or a value read by the first instruction of the block. *)
(*                                                                         *)
(* The code keeps the ranges of an operand in a list, in which two may be  *)
(* equal.  The model keeps a set, and tells its members apart by `start':  *)
(* the position in the block of the write the range begins with, or 0 when *)
(* the value enters the block.                                             *)
(***************************************************************************)
EXTENDS Integers

LiveRanges ==
  [fromNum : Int, toNum : Int, instr_cnt : Nat, block : Nat, start : Nat]

(* A slip: the range that contains the other one is forgotten.             *)
conflictAtEnds(a, r) ==
  \/ a.fromNum >= r.fromNum /\ a.fromNum < r.toNum
  \/ a.toNum > r.fromNum /\ a.toNum <= r.toNum

(* LiveRange::conflict, the test as the code writes it.                    *)
conflict(a, r) ==
  \/ a.fromNum >= r.fromNum /\ a.fromNum < r.toNum
  \/ a.toNum > r.fromNum /\ a.toNum <= r.toNum
  \/ a.fromNum <= r.fromNum /\ a.toNum >= r.toNum

(* LiveRange::operator<.                                                   *)
Less(a, r) ==
  IF a.fromNum # r.fromNum THEN a.fromNum < r.fromNum ELSE a.toNum < r.toNum

(* A range does not end before it begins, and the ranges of one operand    *)
(* follow one another: they are kept in the order of operator<.            *)
IsRange(a) == a.fromNum \in Int /\ a.toNum \in Int /\ a.fromNum <= a.toNum

InOrder(S) ==
  /\ \A a \in S : IsRange(a)
  /\ \A a, r \in S : Less(a, r) => a.toNum <= r.fromNum

(* The ranges instruction n lies in.                                       *)
Covering(S, n) == {r \in S : r.fromNum <= n /\ n <= r.toNum}

(* The double loop of try_allocate over two range lists.                   *)
AnyConflict(S, T) == \E a \in S, r \in T : conflict(a, r)

(* An element of occupied_range_map: std::pair<LiveRange, int>, ordered    *)
(* first by the range and then by the number of the allocation.  Of two    *)
(* that are equal in this order the std::set keeps one, which conflicts    *)
(* with what the other would.                                              *)
AllocRange(r, a) == [range |-> r, alloc |-> a]

AllocLess(p, q) ==
  \/ Less(p.range, q.range)
  \/ ~Less(q.range, p.range) /\ p.alloc < q.alloc

(* The part of a register's ranges that try_allocate looks at: from the    *)
(* one before lower_bound(p) on.                                           *)
ScanFrom(occupied, p) ==
  {e \in occupied : ~\E f \in occupied : AllocLess(e, f) /\ AllocLess(f, p)}

-----------------------------------------------------------------------------
(* What conflict is meant to decide.  Count four quarter steps per         *)
(* instruction: a range holds its register from just after fromNum to just *)
(* before toNum, a point range just before and just after its instruction. *)
FirstHeld(a) == IF a.fromNum = a.toNum THEN 4 * a.fromNum - 1 ELSE 4 * a.fromNum + 1
LastHeld(a) == IF a.fromNum = a.toNum THEN 4 * a.toNum + 1 ELSE 4 * a.toNum - 1

Overlap(a, r) == FirstHeld(a) <= LastHeld(r) /\ FirstHeld(r) <= LastHeld(a)
=============================================================================
