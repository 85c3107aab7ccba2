------------------------------- MODULE Lemmas -------------------------------
(***************************************************************************)
(* Facts about the operators that the proofs of several components share:  *)
(* numbers and sequences, live ranges, the stack frame.                    *)
(***************************************************************************)
EXTENDS LiveRange, StackFrame, SequencesExt, SequenceTheorems,
        WellFoundedInduction, TLAPS

(***************************************************************************)
(* The induction theorems of the library quantify over an operator, which  *)
(* first-order provers cannot instantiate; here a property is the set of   *)
(* the numbers that have it.                                               *)
(***************************************************************************)
LEMMA NatLessWellFounded == IsWellFoundedOn({p \in Nat \X Nat : p[1] < p[2]}, Nat)
BY NatLessThanWellFounded DEF OpToRel

(* Induction: a set with 0 and with the successor of each of its numbers   *)
(* has every number.                                                       *)
LEMMA SetInduction ==
  ASSUME NEW S, 0 \in S, \A n \in Nat : n \in S => n + 1 \in S
  PROVE  \A n \in Nat : n \in S
<1> DEFINE R == {p \in Nat \X Nat : p[1] < p[2]}
           T == Nat \ S
<1> SUFFICES ASSUME T # {} PROVE FALSE
  OBVIOUS
<1>1. PICK x \in T : \A y \in T : ~(<<y, x>> \in R)
  <2>1. IsWellFoundedOn(R, Nat) /\ T \subseteq Nat
    BY NatLessWellFounded
  <2> HIDE DEF R, T
  <2> QED
    BY <2>1, WFMin
<1>2. x \in Nat \ {0}
  OBVIOUS
<1>3. <<x - 1, x>> \in R
  BY <1>2
<1>4. x - 1 \in Nat /\ x - 1 \notin T
  BY <1>1, <1>2, <1>3
<1> QED
  BY <1>2, <1>4

(* A set of indices has a greatest one.                                    *)
LEMMA MaxOfIndices ==
  ASSUME NEW n \in Nat, NEW I \in SUBSET (1..n), I # {}
  PROVE  Max(I) \in I
<1> DEFINE HasGreatest(m) ==
             \A J \in SUBSET (1..m) : J # {} => \E x \in J : \A y \in J : x >= y
           S == {m \in Nat : HasGreatest(m)}
<1>1. 0 \in S
  <2>1. 1..0 = {}
    OBVIOUS
  <2> QED
    BY <2>1
<1>2. ASSUME NEW m \in Nat, m \in S
      PROVE  m + 1 \in S
  <2> SUFFICES ASSUME NEW J \in SUBSET (1..(m + 1)), J # {}
               PROVE  \E x \in J : \A y \in J : x >= y
    OBVIOUS
  <2>1. CASE m + 1 \in J
    <3>1. \A y \in J : m + 1 >= y
      OBVIOUS
    <3> QED
      BY <2>1, <3>1
  <2>2. CASE m + 1 \notin J
    <3>1. J \in SUBSET (1..m)
      BY <2>2
    <3> QED
      BY <1>2, <3>1
  <2> QED
    BY <2>1, <2>2
<1> HIDE DEF S
<1>3. n \in S
  BY <1>1, <1>2, SetInduction
<1>4. \E x \in I : \A y \in I : x >= y
  BY <1>3 DEF S
<1> QED
  BY <1>4 DEF Max

-----------------------------------------------------------------------------
(* Concatenation, in terms of the elements.                                *)
LEMMA ConcatElements ==
  ASSUME NEW S, NEW s \in Seq(S), NEW t \in Seq(S)
  PROVE  ToSet(s \o t) = ToSet(s) \cup ToSet(t)
<1>1. /\ s \o t \in Seq(S) /\ Len(s \o t) = Len(s) + Len(t)
      /\ Len(s) \in Nat /\ Len(t) \in Nat
      /\ \A i \in 1..Len(s \o t) :
           (s \o t)[i] = IF i <= Len(s) THEN s[i] ELSE t[i - Len(s)]
  BY ConcatProperties, LenProperties
<1>2. /\ DOMAIN (s \o t) = 1..(Len(s) + Len(t))
      /\ DOMAIN s = 1..Len(s) /\ DOMAIN t = 1..Len(t)
  BY <1>1, LenProperties
<1>3. ASSUME NEW i \in 1..Len(t)
      PROVE  Len(s) + i \in 1..(Len(s) + Len(t)) /\ (s \o t)[Len(s) + i] = t[i]
  BY <1>1
<1>4. ASSUME NEW i \in 1..Len(s)
      PROVE  i \in 1..(Len(s) + Len(t)) /\ (s \o t)[i] = s[i]
  BY <1>1
<1>5. ASSUME NEW i \in 1..(Len(s) + Len(t))
      PROVE  (s \o t)[i] \in ToSet(s) \cup ToSet(t)
  <2>1. CASE i <= Len(s)
    BY <1>1, <1>2, <2>1 DEF ToSet
  <2>2. CASE ~(i <= Len(s))
    <3>1. i - Len(s) \in 1..Len(t) /\ (s \o t)[i] = t[i - Len(s)]
      BY <1>1, <2>2
    <3> QED
      BY <1>2, <3>1 DEF ToSet
  <2> QED
    BY <2>1, <2>2
<1>6. ToSet(s \o t) \subseteq ToSet(s) \cup ToSet(t)
  BY <1>2, <1>5 DEF ToSet
<1>7. ToSet(s) \subseteq ToSet(s \o t) /\ ToSet(t) \subseteq ToSet(s \o t)
  BY <1>2, <1>3, <1>4 DEF ToSet
<1> QED
  BY <1>6, <1>7

(* A function on an initial segment of the positive numbers is a sequence. *)
LEMMA FunctionIsSeq ==
  ASSUME NEW S, NEW n \in Nat, NEW f \in [1..n -> S]
  PROVE  f \in Seq(S) /\ Len(f) = n
<1>1. f \in Seq(S)
  BY SeqDef
<1>2. DOMAIN f = 1..Len(f) /\ Len(f) \in Nat
  BY <1>1, LenProperties
<1>3. DOMAIN f = 1..n
  OBVIOUS
<1> QED
  BY <1>1, <1>2, <1>3

LEMMA HeadAndTail ==
  ASSUME NEW S, NEW s \in Seq(S), s # <<>>
  PROVE  /\ Head(s) \in S /\ Tail(s) \in Seq(S)
         /\ ToSet(s) = {Head(s)} \cup ToSet(Tail(s))
<1>1. /\ Head(s) \in S /\ Tail(s) \in Seq(S) /\ Len(Tail(s)) = Len(s) - 1
      /\ \A i \in 1..Len(Tail(s)) : Tail(s)[i] = s[i + 1]
      /\ Head(s) = s[1] /\ Len(s) \in Nat \ {0}
  BY HeadTailProperties, EmptySeq, LenProperties
<1>2. DOMAIN s = 1..Len(s) /\ DOMAIN Tail(s) = 1..(Len(s) - 1)
  BY <1>1, LenProperties
<1>3. ASSUME NEW i \in 1..Len(s)
      PROVE  s[i] \in {Head(s)} \cup ToSet(Tail(s))
  <2>1. CASE i = 1
    BY <1>1, <2>1
  <2>2. CASE i # 1
    <3>1. i - 1 \in 1..(Len(s) - 1) /\ Tail(s)[i - 1] = s[i]
      BY <1>1, <2>2
    <3> QED
      BY <1>2, <3>1 DEF ToSet
  <2> QED
    BY <2>1, <2>2
<1>4. ASSUME NEW i \in 1..(Len(s) - 1)
      PROVE  Tail(s)[i] \in ToSet(s)
  <2>1. i + 1 \in 1..Len(s) /\ Tail(s)[i] = s[i + 1]
    BY <1>1
  <2> QED
    BY <1>2, <2>1 DEF ToSet
<1>5. Head(s) \in ToSet(s)
  BY <1>1, <1>2 DEF ToSet
<1> QED
  BY <1>1, <1>2, <1>3, <1>4, <1>5 DEF ToSet

-----------------------------------------------------------------------------
(* FlattenSeq is a recursive function of the position; it exists, ...      *)
FlattenTo(f, seqs, n) ==
  \A i \in 1..n : f[i] = IF i = 1 THEN seqs[i] ELSE f[i - 1] \o seqs[i]

LEMMA FlattenExists ==
  ASSUME NEW seqs, NEW m \in Nat
  PROVE  \E f : f = [i \in 1..m |-> IF i = 1 THEN seqs[i] ELSE f[i - 1] \o seqs[i]]
<1> DEFINE S == {n \in Nat : \E f : DOMAIN f = 1..n /\ f = [i \in 1..n |-> f[i]]
                                      /\ FlattenTo(f, seqs, n)}
<1>1. 0 \in S
  <2> DEFINE f == [i \in 1..0 |-> 0]
  <2>1. DOMAIN f = 1..0 /\ f = [i \in 1..0 |-> f[i]] /\ FlattenTo(f, seqs, 0)
    BY DEF FlattenTo
  <2> QED
    BY <2>1
<1>2. ASSUME NEW n \in Nat, n \in S
      PROVE  n + 1 \in S
  <2>1. PICK f : DOMAIN f = 1..n /\ f = [i \in 1..n |-> f[i]] /\ FlattenTo(f, seqs, n)
    BY <1>2
  <2> DEFINE g == [i \in 1..(n + 1) |->
                     IF i = n + 1
                       THEN IF i = 1 THEN seqs[i] ELSE f[n] \o seqs[i]
                       ELSE f[i]]
  <2>2. DOMAIN g = 1..(n + 1) /\ g = [i \in 1..(n + 1) |-> g[i]]
    OBVIOUS
  <2>3. \A i \in 1..n : g[i] = f[i]
    OBVIOUS
  <2>4. FlattenTo(g, seqs, n + 1)
    <3> SUFFICES ASSUME NEW i \in 1..(n + 1)
                 PROVE  g[i] = IF i = 1 THEN seqs[i] ELSE g[i - 1] \o seqs[i]
      BY DEF FlattenTo
    <3>1. CASE i = n + 1
      <4>1. i # 1 => g[i - 1] = f[n]
        BY <3>1, <2>3
      <4> QED
        BY <3>1, <4>1
    <3>2. CASE i \in 1..n
      <4>1. f[i] = IF i = 1 THEN seqs[i] ELSE f[i - 1] \o seqs[i]
        BY <2>1, <3>2 DEF FlattenTo
      <4>2. i # 1 => g[i - 1] = f[i - 1]
        BY <3>2, <2>3
      <4> HIDE DEF g
      <4> QED
        BY <2>3, <3>2, <4>1, <4>2
    <3> QED
      BY <3>1, <3>2
  <2> HIDE DEF g
  <2> QED
    BY <2>2, <2>4
<1>3. m \in S
  <2> HIDE DEF S
  <2> QED
    BY <1>1, <1>2, SetInduction
<1>4. PICK f : DOMAIN f = 1..m /\ f = [i \in 1..m |-> f[i]] /\ FlattenTo(f, seqs, m)
  BY <1>3
<1>5. f = [i \in 1..m |-> IF i = 1 THEN seqs[i] ELSE f[i - 1] \o seqs[i]]
  BY <1>4 DEF FlattenTo
<1> QED
  BY <1>5

LEMMA FlattenDefined ==
  ASSUME NEW S, NEW seqs \in Seq(Seq(S)), seqs # <<>>
  PROVE  \E f : FlattenTo(f, seqs, Len(seqs)) /\ FlattenSeq(seqs) = f[Len(seqs)]
<1> DEFINE n == Len(seqs)
           Equation(f) == f = [i \in 1..n |-> IF i = 1 THEN seqs[i] ELSE f[i - 1] \o seqs[i]]
           flatten == CHOOSE f : Equation(f)
<1>1. n \in Nat /\ n # 0
  BY EmptySeq, LenProperties
<1>2. Equation(flatten)
  <2>1. \E f : Equation(f)
    BY <1>1, FlattenExists
  <2> HIDE DEF Equation
  <2> QED
    BY <2>1
<1>3. FlattenSeq(seqs) = flatten[n]
  BY <1>1 DEF FlattenSeq
<1>4. FlattenTo(flatten, seqs, n)
  <2> HIDE DEF flatten
  <2> QED
    BY <1>2 DEF FlattenTo
<1> QED
  BY <1>3, <1>4

(* ... and it has the elements of all the sequences.                       *)
LEMMA FlattenProperties ==
  ASSUME NEW S, NEW seqs \in Seq(Seq(S))
  PROVE  /\ FlattenSeq(seqs) \in Seq(S)
         /\ \A x : x \in ToSet(FlattenSeq(seqs)) <=> \E i \in 1..Len(seqs) : x \in ToSet(seqs[i])
<1>1. CASE seqs = <<>>
  <2>1. FlattenSeq(seqs) = <<>> /\ Len(seqs) = 0
    BY <1>1 DEF FlattenSeq
  <2> QED
    BY <2>1 DEF ToSet
<1>2. CASE seqs # <<>>
  <2> DEFINE n == Len(seqs)
  <2>1. PICK f : FlattenTo(f, seqs, n) /\ FlattenSeq(seqs) = f[n]
    BY <1>2, FlattenDefined
  <2>2. n \in Nat \ {0}
    BY <1>2, EmptySeq, LenProperties
  <2> DEFINE G(k) == /\ f[k] \in Seq(S)
                     /\ \A x : x \in ToSet(f[k]) <=> \E i \in 1..k : x \in ToSet(seqs[i])
             I == {k \in Nat : k + 1 <= n => G(k + 1)}
  <2>3. 0 \in I
    <3>1. f[1] = seqs[1] /\ seqs[1] \in Seq(S)
      BY <2>1, <2>2 DEF FlattenTo
    <3>2. \A x : x \in ToSet(seqs[1]) <=> \E i \in 1..1 : x \in ToSet(seqs[i])
      OBVIOUS
    <3> QED
      BY <3>1, <3>2
  <2>4. ASSUME NEW k \in Nat, k \in I
        PROVE  k + 1 \in I
    <3> SUFFICES ASSUME k + 2 <= n PROVE G(k + 2)
      OBVIOUS
    <3>1. G(k + 1)
      BY <2>2, <2>4
    <3>2. f[k + 2] = f[k + 1] \o seqs[k + 2] /\ seqs[k + 2] \in Seq(S)
      <4>1. k + 2 \in 1..n /\ k + 2 # 1 /\ (k + 2) - 1 = k + 1
        BY <2>2
      <4>2. f[k + 2] = IF k + 2 = 1 THEN seqs[k + 2] ELSE f[(k + 2) - 1] \o seqs[k + 2]
        BY <2>1, <4>1 DEF FlattenTo
      <4>3. seqs[k + 2] \in Seq(S)
        BY <4>1, ElementOfSeq
      <4> QED
        BY <4>1, <4>2, <4>3
    <3>3. ToSet(f[k + 2]) = ToSet(f[k + 1]) \cup ToSet(seqs[k + 2])
      BY <3>1, <3>2, ConcatElements
    <3>4. f[k + 2] \in Seq(S)
      BY <3>1, <3>2
    <3>5. ASSUME NEW x
          PROVE  x \in ToSet(f[k + 2]) <=> \E i \in 1..(k + 2) : x \in ToSet(seqs[i])
      <4>1. 1..(k + 2) = (1..(k + 1)) \cup {k + 2}
        OBVIOUS
      <4>2. x \in ToSet(f[k + 1]) <=> \E i \in 1..(k + 1) : x \in ToSet(seqs[i])
        BY <3>1
      <4> QED
        BY <3>3, <4>1, <4>2
    <3> QED
      BY <3>4, <3>5
  <2>5. n - 1 \in I
    <3>1. n - 1 \in Nat
      BY <2>2
    <3> HIDE DEF I
    <3>2. \A k \in Nat : k \in I
      BY <2>3, <2>4, SetInduction
    <3> QED
      BY <3>1, <3>2
  <2>6. G(n)
    BY <2>2, <2>5
  <2> QED
    BY <2>1, <2>6
<1> QED
  BY <1>1, <1>2

-----------------------------------------------------------------------------
(* The three-way test of LiveRange::conflict decides exactly whether the   *)
(* two ranges hold a register at the same time.                            *)
THEOREM ConflictIsOverlap ==
  ASSUME NEW a, NEW r, IsRange(a), IsRange(r)
  PROVE  conflict(a, r) <=> Overlap(a, r)
BY DEF conflict, Overlap, FirstHeld, LastHeld, IsRange

(* try_allocate only ever asks range.conflict(occupied); asking the other  *)
(* way round would give the same answer.                                   *)
THEOREM ConflictSymmetric ==
  ASSUME NEW a, NEW r, IsRange(a), IsRange(r)
  PROVE  conflict(a, r) <=> conflict(r, a)
BY DEF conflict, IsRange

(* Ranges that begin at the same instruction conflict, point ranges too.   *)
LEMMA SameStartConflicts ==
  ASSUME NEW a, NEW r, IsRange(a), IsRange(r), a.fromNum = r.fromNum
  PROVE  conflict(a, r)
BY DEF conflict, IsRange

(* What a register's set of occupied ranges satisfies in try_allocate: the *)
(* ranges of one allocation are in order, those of two do not conflict.    *)
WellOccupied(occupied) ==
  /\ \A e \in occupied : IsRange(e.range) /\ e.alloc \in Int
  /\ \A e, f \in occupied :
       /\ e.alloc = f.alloc /\ Less(e.range, f.range) => e.range.toNum <= f.range.fromNum
       /\ e.alloc # f.alloc => ~conflict(f.range, e.range)

(* Of two ranges in a register, the lower one ends before the higher one   *)
(* begins; if they begin together they belong to one allocation.           *)
LEMMA OccupiedInOrder ==
  ASSUME NEW occupied, WellOccupied(occupied),
         NEW e \in occupied, NEW f \in occupied, AllocLess(e, f)
  PROVE  /\ e.range.toNum <= f.range.fromNum
         /\ e.range.fromNum = f.range.fromNum =>
              e.range.toNum = f.range.fromNum /\ f.range.toNum > f.range.fromNum
<1>1. /\ IsRange(e.range) /\ IsRange(f.range)
      /\ e.alloc \in Int /\ f.alloc \in Int
  BY DEF WellOccupied
<1>2. e.range.fromNum <= f.range.fromNum
  BY <1>1 DEF AllocLess, Less, IsRange
<1>3. CASE e.alloc = f.alloc
  <2>1. Less(e.range, f.range)
    BY <1>1, <1>3 DEF AllocLess
  <2>2. e.range.toNum <= f.range.fromNum
    BY <1>3, <2>1 DEF WellOccupied
  <2> QED
    BY <1>1, <2>1, <2>2 DEF Less, IsRange
<1>4. CASE e.alloc # f.alloc
  <2>1. ~conflict(f.range, e.range)
    BY <1>4 DEF WellOccupied
  <2>2. e.range.fromNum # f.range.fromNum
    BY <1>1, <2>1, SameStartConflicts
  <2> QED
    BY <1>1, <1>2, <2>1, <2>2 DEF conflict, IsRange
<1> QED
  BY <1>3, <1>4

(* The loop of try_allocate begins in the middle of the occupied ranges.   *)
(* That is enough: if none of those it looks at conflicts with the range   *)
(* list S, whose first element is `first', then none at all does.          *)
THEOREM ScanIsComplete ==
  ASSUME NEW occupied, WellOccupied(occupied),
         NEW S, InOrder(S), NEW first \in S,
         \A r \in S : first.fromNum <= r.fromNum,
         NEW a \in Int,
         \A e \in ScanFrom(occupied, AllocRange(first, a)) : ~AnyConflict(S, {e.range})
  PROVE  \A e \in occupied : ~AnyConflict(S, {e.range})
<1> DEFINE p == AllocRange(first, a)
<1> SUFFICES ASSUME NEW e \in occupied, NEW r \in S, conflict(r, e.range)
             PROVE  FALSE
  BY DEF AnyConflict
<1>1. IsRange(first) /\ IsRange(r) /\ first.fromNum <= r.fromNum
  BY DEF InOrder
<1>2. ASSUME NEW f \in occupied
      PROVE  IsRange(f.range)
  BY DEF WellOccupied
<1>3. ASSUME NEW f \in occupied, AllocLess(f, p)
      PROVE  f.range.fromNum <= first.fromNum
  BY <1>1, <1>2, <1>3 DEF AllocLess, AllocRange, Less, IsRange
\* What conflicts with r is not scanned: something lies between it and p.
<1>4. ASSUME NEW f \in occupied, conflict(r, f.range)
      PROVE  \E g \in occupied : AllocLess(f, g) /\ AllocLess(g, p)
  BY <1>4 DEF ScanFrom, AnyConflict
<1>5. PICK f \in occupied : AllocLess(e, f) /\ AllocLess(f, p)
  BY <1>4
<1>6. /\ e.range.toNum <= f.range.fromNum
      /\ f.range.fromNum <= first.fromNum
  BY <1>3, <1>5, OccupiedInOrder
\* e ends where r begins, and so does everything in between.
<1>7. /\ r.fromNum = f.range.fromNum
      /\ first.fromNum = f.range.fromNum
  BY <1>1, <1>2, <1>6 DEF conflict, IsRange
<1>8. conflict(r, f.range)
  BY <1>1, <1>2, <1>7, SameStartConflicts
<1>9. PICK g \in occupied : AllocLess(f, g) /\ AllocLess(g, p)
  BY <1>4, <1>8
<1>10. g.range.fromNum = first.fromNum
  BY <1>1, <1>2, <1>3, <1>7, <1>9, OccupiedInOrder DEF IsRange
<1>11. g.range.toNum > g.range.fromNum
  BY <1>7, <1>9, <1>10, OccupiedInOrder
<1>12. conflict(r, g.range)
  BY <1>1, <1>2, <1>7, <1>10, SameStartConflicts
<1>13. PICK h \in occupied : AllocLess(g, h) /\ AllocLess(h, p)
  BY <1>4, <1>12
<1>14. g.range.toNum <= first.fromNum
  BY <1>1, <1>2, <1>3, <1>13, OccupiedInOrder DEF IsRange
<1> QED
  BY <1>1, <1>2, <1>10, <1>11, <1>14 DEF IsRange

-----------------------------------------------------------------------------
LEMMA RoundUpTo ==
  ASSUME NEW n \in Nat, NEW k \in {8, 16}
  PROVE  /\ RoundUp(n, k) \in Nat
         /\ RoundUp(n, k) >= n
         /\ RoundUp(n, k) % k = 0
<1>1. CASE k = 8
  BY <1>1 DEF RoundUp
<1>2. CASE k = 16
  BY <1>2 DEF RoundUp
<1> QED
  BY <1>1, <1>2

LEMMA AlignedOffsetOf ==
  ASSUME NEW n \in Nat, NEW size \in Nat
  PROVE  /\ AlignedOffset(n, size) \in Nat
         /\ AlignedOffset(n, size) >= n
         /\ size >= 8 => AlignedOffset(n, size) % 8 = 0
<1> DEFINE eight == IF size >= 8 THEN RoundUp(n, 8) ELSE n
<1>1. eight \in Nat /\ eight >= n /\ (size >= 8 => eight % 8 = 0)
  BY RoundUpTo
<1> HIDE DEF eight
<1>2. /\ RoundUp(eight, 16) \in Nat
      /\ RoundUp(eight, 16) >= eight
      /\ RoundUp(eight, 16) % 16 = 0
  BY <1>1, RoundUpTo
<1>3. RoundUp(eight, 16) % 8 = 0
  BY <1>2
<1>4. AlignedOffset(n, size) = IF size >= 16 THEN RoundUp(eight, 16) ELSE eight
  BY DEF AlignedOffset, eight
<1> QED
  BY <1>1, <1>2, <1>3, <1>4

LEMMA FrameFacts ==
  ASSUME NEW f \in Frames
  PROVE  /\ f.offset \in Nat /\ f.args \in Nat /\ f.locals \in Seq(StackObjects)
         /\ f = [offset |-> f.offset, locals |-> f.locals, args |-> f.args]
         /\ Len(f.locals) \in Nat
         /\ DOMAIN f.locals = 1..Len(f.locals)
         /\ \A i \in DOMAIN f.locals :
              i \in Nat /\ f.locals[i].offset \in Nat /\ f.locals[i].size \in Nat
<1>1. /\ f.offset \in Nat /\ f.args \in Nat /\ f.locals \in Seq(StackObjects)
      /\ f = [offset |-> f.offset, locals |-> f.locals, args |-> f.args]
  BY DEF Frames
<1>2. /\ Len(f.locals) \in Nat /\ DOMAIN f.locals = 1..Len(f.locals)
      /\ \A i \in DOMAIN f.locals : i \in Nat /\ f.locals[i] \in StackObjects
  BY <1>1
<1> QED
  BY <1>1, <1>2 DEF StackObjects

LEMMA EmptyFrameStacked == EmptyFrame \in Frames /\ Stacked(EmptyFrame)
BY DEF EmptyFrame, Frames, Stacked

(* A push leaves the objects where they are and puts one more below them.  *)
LEMMA PushStacks ==
  ASSUME NEW f \in Frames, NEW size \in Nat \ {0}
  PROVE  /\ Push(f, size) \in Frames
         /\ Len(Push(f, size).locals) = Len(f.locals) + 1
         /\ \A i \in DOMAIN f.locals : Push(f, size).locals[i] = f.locals[i]
         /\ Stacked(f) => Stacked(Push(f, size))
<1> DEFINE base == AlignedOffset(f.offset, size)
           object == [offset |-> base + size, size |-> size]
           n == Len(f.locals)
           g == Push(f, size)
<1>1. /\ f.offset \in Nat /\ f.locals \in Seq(StackObjects) /\ f.args \in Nat
      /\ n \in Nat /\ DOMAIN f.locals = 1..n
      /\ f = [offset |-> f.offset, locals |-> f.locals, args |-> f.args]
  BY FrameFacts
<1>2. base \in Nat /\ base >= f.offset /\ (size >= 8 => base % 8 = 0)
  BY <1>1, AlignedOffsetOf
<1>3. g = [f EXCEPT !.offset = base + size, !.locals = Append(@, object)]
  BY DEF Push
<1> HIDE DEF base, g
<1>4. /\ object \in StackObjects
      /\ object.size = size /\ object.offset = base + size
  BY <1>2 DEF StackObjects
<1> HIDE DEF object
<1>5. Append(f.locals, object) \in Seq(StackObjects)
  BY <1>1, <1>4
<1>6. /\ g = [offset |-> base + size, locals |-> Append(f.locals, object),
                   args |-> f.args]
      /\ g.offset = base + size /\ g.locals = Append(f.locals, object)
  BY <1>1, <1>3
<1>7. /\ g \in Frames
      /\ DOMAIN g.locals = 1..(n + 1)
      /\ \A i \in 1..n : g.locals[i] = f.locals[i]
      /\ g.locals[n + 1] = object
      /\ \A i \in 1..n : f.locals[i].offset \in Nat /\ f.locals[i].size \in Nat
  <2>1. g \in Frames
    BY <1>1, <1>2, <1>5, <1>6 DEF Frames
  <2>2. DOMAIN g.locals = 1..(n + 1)
    BY <1>1, <1>4, <1>6
  <2>3. \A i \in 1..n : g.locals[i] = f.locals[i]
    BY <1>1, <1>4, <1>6
  <2>4. g.locals[n + 1] = object
    BY <1>1, <1>4, <1>6
  <2> QED
    BY <1>1, <2>1, <2>2, <2>3, <2>4, FrameFacts
<1>8. size % 8 = 0 => (base + size) % 8 = 0
  BY <1>2
<1>9. ASSUME Stacked(f)
      PROVE  Stacked(g)
  <2>1. g.offset >= 8 /\ g.offset >= f.offset
    BY <1>1, <1>2, <1>6, <1>9 DEF Stacked
  <2>2. ASSUME NEW i \in 1..n
        PROVE  /\ g.locals[i].size > 0
               /\ g.locals[i].offset - g.locals[i].size >= 8
               /\ g.locals[i].offset <= g.offset
               /\ g.locals[i].offset <= base
               /\ g.locals[i].size % 8 = 0 => g.locals[i].offset % 8 = 0
               /\ \A j \in 1..n :
                    i < j => g.locals[i].offset <= g.locals[j].offset - g.locals[j].size
    <3>1. g.locals[i] = f.locals[i] /\ i \in DOMAIN f.locals
      BY <1>1, <1>7
    <3>2. /\ f.locals[i].offset \in Nat /\ f.locals[i].size \in Nat
          /\ f.locals[i].size > 0
          /\ f.locals[i].offset - f.locals[i].size >= 8
          /\ f.locals[i].offset <= f.offset
          /\ f.locals[i].size % 8 = 0 => f.locals[i].offset % 8 = 0
      BY <1>7, <1>9, <3>1 DEF Stacked
    <3>3. \A j \in 1..n :
            i < j => g.locals[i].offset <= g.locals[j].offset - g.locals[j].size
      BY <1>1, <1>7, <1>9, <3>1 DEF Stacked
    <3>4. f.locals[i].offset <= g.offset /\ f.locals[i].offset <= base
      BY <1>1, <1>2, <1>6, <3>2
    <3> QED
      BY <3>1, <3>2, <3>3, <3>4
  <2>3. /\ object.size > 0 /\ object.offset - object.size >= 8
        /\ object.offset <= g.offset /\ object.offset - object.size = base
        /\ object.size % 8 = 0 => object.offset % 8 = 0
    BY <1>1, <1>2, <1>4, <1>6, <1>8, <1>9 DEF Stacked
  <2>4. \A i \in DOMAIN g.locals : i \in 1..n \/ i = n + 1
    BY <1>1, <1>7
  <2>5. ASSUME NEW i \in DOMAIN g.locals
        PROVE  /\ g.locals[i].size > 0
               /\ g.locals[i].offset - g.locals[i].size >= 8
               /\ g.locals[i].offset <= g.offset
               /\ g.locals[i].size % 8 = 0 => g.locals[i].offset % 8 = 0
    BY <1>7, <2>2, <2>3, <2>4
  <2>6. ASSUME NEW i \in DOMAIN g.locals, NEW j \in DOMAIN g.locals, i < j
        PROVE  g.locals[i].offset <= g.locals[j].offset - g.locals[j].size
    <3>1. i \in 1..n
      BY <1>1, <2>4, <2>6, <1>7
    <3>2. CASE j \in 1..n
      BY <2>2, <2>6, <3>1, <3>2
    <3>3. CASE j = n + 1
      BY <1>7, <2>2, <2>3, <3>1, <3>3
    <3> QED
      BY <2>4, <3>2, <3>3
  <2> QED
    BY <2>1, <2>5, <2>6 DEF Stacked
<1>10. Len(g.locals) = n + 1
  BY <1>1, <1>6, <1>4
<1> QED
  BY <1>1, <1>7, <1>9, <1>10 DEF g
=============================================================================
