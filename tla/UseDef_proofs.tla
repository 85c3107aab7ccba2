---------------------------- MODULE UseDef_proofs ----------------------------
(***************************************************************************)
(* Theorems about UseDef: both lists a use is in agree with it and with    *)
(* each other, and what the passes see are operand lists.                  *)
(***************************************************************************)
EXTENDS UseDef, SequenceTheorems, FiniteSetTheorems, TLAPS

(* The instance has a Cardinality of its own.                              *)
LEMMA SameCardinality == \A S : Lists!Cardinality(S) = Cardinality(S)
BY DEF Lists!Cardinality, Cardinality

(* The n-th of a set of positions is defined, and each position is one.    *)
LEMMA NthIsBijective ==
  ASSUME NEW n \in Nat, NEW K \in SUBSET (1..n)
  PROVE  /\ IsFiniteSet(K) /\ Cardinality(K) \in Nat
         /\ \A m \in 1..Cardinality(K) : Lists!Nth(K, m) \in K
         /\ \A m, l \in 1..Cardinality(K) : Lists!Nth(K, m) = Lists!Nth(K, l) => m = l
         /\ \A k \in K : \E m \in 1..Cardinality(K) : Lists!Nth(K, m) = k
<1> DEFINE Below(k) == {j \in K : j <= k}
           c == Cardinality(K)
           rank == [k \in K |-> Cardinality(Below(k))]
<1>1. IsFiniteSet(K) /\ c \in Nat
  <2>1. IsFiniteSet(1..n)
    BY FS_Interval
  <2> QED
    BY <2>1, FS_Subset, FS_CardinalityType
<1>2. ASSUME NEW k \in K
      PROVE  IsFiniteSet(Below(k)) /\ Cardinality(Below(k)) \in 1..c
  <2>1. Below(k) \in SUBSET K /\ Below(k) # {}
    OBVIOUS
  <2>2. IsFiniteSet(Below(k)) /\ Cardinality(Below(k)) <= c
    BY <1>1, <2>1, FS_Subset
  <2>3. Cardinality(Below(k)) \in Nat /\ Cardinality(Below(k)) # 0
    BY <2>1, <2>2, FS_CardinalityType, FS_EmptySet
  <2> QED
    BY <1>1, <2>2, <2>3
<1>3. ASSUME NEW k \in K, NEW l \in K, k < l
      PROVE  Cardinality(Below(k)) # Cardinality(Below(l))
  <2>1. Below(k) \in SUBSET Below(l) /\ l \in Below(l) /\ l \notin Below(k)
    <3>1. k \in Int /\ l \in Int /\ \A j \in K : j \in Int
      OBVIOUS
    <3>2. \A j \in Int : j <= k => j <= l
      BY <1>3, <3>1
    <3>3. l <= l /\ ~(l <= k)
      BY <1>3, <3>1
    <3> QED
      BY <3>1, <3>2, <3>3
  <2>2. IsFiniteSet(Below(l))
    BY <1>2
  <2> HIDE DEF Below
  <2> QED
    BY <2>1, <2>2, FS_Subset
<1>4. rank \in Injection(K, 1..c)
  <2>1. rank \in [K -> 1..c]
    BY <1>2
  <2>2. \A k, l \in K : rank[k] = rank[l] => k = l
    <3> SUFFICES ASSUME NEW k \in K, NEW l \in K, rank[k] = rank[l], k # l
                 PROVE  FALSE
      OBVIOUS
    <3>1. k \in Int /\ l \in Int
      OBVIOUS
    <3> HIDE DEF Below
    <3>2. k < l \/ l < k
      BY <3>1
    <3> QED
      BY <1>3, <3>2
  <2> HIDE DEF rank
  <2>3. DOMAIN rank = K
    BY <2>1
  <2> QED
    BY <2>1, <2>2, <2>3 DEF Injection, IsInjective
<1>5. \A m \in 1..c : \E k \in K : rank[k] = m
  <2>1. IsFiniteSet(1..c) /\ Cardinality(1..c) = c
    BY <1>1, FS_Interval
  <2> HIDE DEF rank, c
  <2>2. rank \in Surjection(K, 1..c)
    BY <1>4, <2>1, FS_Injection DEF c
  <2> QED
    BY <2>2 DEF Surjection
<1>6. \A k, l \in K : rank[k] = rank[l] => k = l
  BY <1>4 DEF Injection, IsInjective
<1>7. ASSUME NEW m \in 1..c
      PROVE  Lists!Nth(K, m) \in K /\ rank[Lists!Nth(K, m)] = m
  <2>1. \E k \in K : Cardinality({j \in K : j <= k}) = m
    BY <1>5, <1>7
  <2> QED
    BY <2>1, SameCardinality DEF Lists!Nth
<1>8. ASSUME NEW k \in K
      PROVE  rank[k] \in 1..c /\ Lists!Nth(K, rank[k]) = k
  <2>1. rank[k] \in 1..c
    BY <1>2
  <2>2. Lists!Nth(K, rank[k]) \in K /\ rank[Lists!Nth(K, rank[k])] = rank[k]
    BY <1>7, <2>1
  <2> HIDE DEF rank
  <2> QED
    BY <1>6, <2>1, <2>2
<1> HIDE DEF rank
<1> QED
  BY <1>1, <1>7, <1>8

(* Some of the entries of a list are kept.                                 *)
LEMMA KeptProperties ==
  ASSUME NEW S, NEW s \in Seq(S), NEW K \in SUBSET DOMAIN s
  PROVE  /\ Lists!Kept(s, K) \in Seq(S)
         /\ ToSet(Lists!Kept(s, K)) = {s[k] : k \in K}
         /\ IsInjective(s) => IsInjective(Lists!Kept(s, K))
         /\ DOMAIN Lists!Kept(s, K) = 1..Cardinality(K)
         /\ \A m \in 1..Cardinality(K) :
              /\ Lists!Nth(K, m) \in K
              /\ Lists!Kept(s, K)[m] = s[Lists!Nth(K, m)]
<1> DEFINE c == Cardinality(K)
           t == Lists!Kept(s, K)
<1>1. Len(s) \in Nat /\ DOMAIN s = 1..Len(s) /\ \A k \in DOMAIN s : s[k] \in S
  BY LenProperties, ElementOfSeq
<1>2. /\ c \in Nat
      /\ \A m \in 1..c : Lists!Nth(K, m) \in K
      /\ \A m, l \in 1..c : Lists!Nth(K, m) = Lists!Nth(K, l) => m = l
      /\ \A k \in K : \E m \in 1..c : Lists!Nth(K, m) = k
  BY <1>1, NthIsBijective
<1>3. t = [m \in 1..c |-> s[Lists!Nth(K, m)]]
  BY SameCardinality DEF Lists!Kept
<1> HIDE DEF c, t
<1>4. t \in Seq(S)
  <2>1. \A m \in 1..c : s[Lists!Nth(K, m)] \in S
    BY <1>1, <1>2
  <2>2. t \in [1..c -> S]
    BY <1>3, <2>1
  <2> QED
    BY <1>2, <2>2, SeqDef
<1>5. ToSet(t) = {s[k] : k \in K}
  BY <1>2, <1>3 DEF ToSet
<1>6. IsInjective(s) => IsInjective(t)
  BY <1>2, <1>3 DEF IsInjective
<1> QED
  BY <1>2, <1>3, <1>4, <1>5, <1>6 DEF c, t

LEMMA WithoutProperties ==
  ASSUME NEW S, NEW s \in Seq(S), NEW R
  PROVE  /\ Without(s, R) \in Seq(S)
         /\ ToSet(Without(s, R)) = ToSet(s) \ R
         /\ IsInjective(s) => IsInjective(Without(s, R))
<1> DEFINE K == {k \in DOMAIN s : s[k] \notin R}
<1>1. Without(s, R) = Lists!Kept(s, K)
  BY DEF Without
<1>2. {s[k] : k \in K} = ToSet(s) \ R
  BY DEF ToSet
<1>3. K \in SUBSET DOMAIN s
  OBVIOUS
<1> HIDE DEF K
<1> QED
  BY <1>1, <1>2, <1>3, KeptProperties

LEMMA NothingIsLeft == \A R : Without(<<>>, R) = <<>>
<1>1. Cardinality({}) = 0
  BY FS_EmptySet
<1>2. \A R : {k \in DOMAIN <<>> : <<>>[k] \notin R} = {}
  OBVIOUS
<1>3. Lists!Kept(<<>>, {}) = <<>>
  BY <1>1, SameCardinality DEF Lists!Kept
<1> QED
  BY <1>2, <1>3 DEF Without

(* In a list without duplicates the first entry is the only one.           *)
LEMMA RemoveIsWithout ==
  ASSUME NEW S, NEW s \in Seq(S), IsInjective(s), NEW i
  PROVE  remove_use(s, i) = Without(s, {i})
<1>1. DOMAIN s \subseteq Int
  BY LenProperties
<1>2. {k \in DOMAIN s : s[k] = i /\ \A j \in 1..(k - 1) : s[j] # i} = {k \in DOMAIN s : s[k] = i}
  <2> SUFFICES ASSUME NEW k \in DOMAIN s, s[k] = i, NEW j \in 1..(k - 1), s[j] = i
               PROVE  FALSE
    OBVIOUS
  <2>1. j \in DOMAIN s /\ j # k
    BY LenProperties
  <2> QED
    BY <2>1 DEF IsInjective
<1>3. DOMAIN s \ {k \in DOMAIN s : s[k] = i} = {k \in DOMAIN s : s[k] \notin {i}}
  OBVIOUS
<1> QED
  BY <1>2, <1>3 DEF remove_use, Without

LEMMA AppendFacts ==
  ASSUME NEW S, NEW s \in Seq(S), NEW x \in S
  PROVE  /\ Append(s, x) \in Seq(S)
         /\ ToSet(Append(s, x)) = ToSet(s) \cup {x}
         /\ IsInjective(s) /\ x \notin ToSet(s) => IsInjective(Append(s, x))
<1>1. /\ Len(s) \in Nat /\ DOMAIN s = 1..Len(s)
      /\ Append(s, x) \in Seq(S) /\ Len(Append(s, x)) = Len(s) + 1
      /\ DOMAIN Append(s, x) = 1..(Len(s) + 1)
      /\ \A k \in 1..Len(s) : Append(s, x)[k] = s[k]
      /\ Append(s, x)[Len(s) + 1] = x
  BY LenProperties, AppendProperties
<1>2. ToSet(Append(s, x)) = ToSet(s) \cup {x}
  BY <1>1 DEF ToSet
<1>3. IsInjective(s) /\ x \notin ToSet(s) => IsInjective(Append(s, x))
  BY <1>1 DEF IsInjective, ToSet
<1> QED
  BY <1>1, <1>2, <1>3

LEMMA ConcatFacts ==
  ASSUME NEW S, NEW s \in Seq(S), NEW t \in Seq(S)
  PROVE  /\ s \o t \in Seq(S)
         /\ ToSet(s \o t) = ToSet(s) \cup ToSet(t)
         /\ IsInjective(s) /\ IsInjective(t) /\ ToSet(s) \cap ToSet(t) = {}
              => IsInjective(s \o t)
<1>1. /\ Len(s) \in Nat /\ DOMAIN s = 1..Len(s)
      /\ Len(t) \in Nat /\ DOMAIN t = 1..Len(t)
      /\ s \o t \in Seq(S) /\ Len(s \o t) = Len(s) + Len(t)
      /\ DOMAIN (s \o t) = 1..(Len(s) + Len(t))
      /\ \A k \in 1..Len(s) + Len(t) :
           (s \o t)[k] = IF k <= Len(s) THEN s[k] ELSE t[k - Len(s)]
  BY LenProperties, ConcatProperties
<1>2. ToSet(s \o t) = ToSet(s) \cup ToSet(t)
  <2>1. ASSUME NEW k \in DOMAIN s
        PROVE  s[k] \in ToSet(s \o t)
    BY <1>1 DEF ToSet
  <2>2. ASSUME NEW k \in DOMAIN t
        PROVE  t[k] \in ToSet(s \o t)
    <3>1. k + Len(s) \in DOMAIN (s \o t) /\ (s \o t)[k + Len(s)] = t[k]
      BY <1>1
    <3> QED
      BY <3>1 DEF ToSet
  <2>3. ASSUME NEW k \in DOMAIN (s \o t)
        PROVE  (s \o t)[k] \in ToSet(s) \cup ToSet(t)
    <3>1. CASE k <= Len(s)
      BY <1>1, <3>1 DEF ToSet
    <3>2. CASE k > Len(s)
      <4>1. k - Len(s) \in DOMAIN t /\ (s \o t)[k] = t[k - Len(s)]
        BY <1>1, <3>2
      <4> QED
        BY <4>1 DEF ToSet
    <3> QED
      BY <1>1, <3>1, <3>2
  <2> QED
    BY <2>1, <2>2, <2>3 DEF ToSet
<1>3. ASSUME IsInjective(s), IsInjective(t), ToSet(s) \cap ToSet(t) = {}
      PROVE  IsInjective(s \o t)
  <2> SUFFICES ASSUME NEW j \in 1..(Len(s) + Len(t)), NEW k \in 1..(Len(s) + Len(t)),
                      (s \o t)[j] = (s \o t)[k], j < k
               PROVE  FALSE
    BY <1>1 DEF IsInjective
  <2>1. CASE k <= Len(s)
    <3>1. j \in DOMAIN s /\ k \in DOMAIN s /\ s[j] = s[k] /\ j # k
      BY <1>1, <2>1
    <3> QED
      BY <1>3, <3>1 DEF IsInjective
  <2>2. CASE j > Len(s)
    <3>1. /\ j - Len(s) \in DOMAIN t /\ k - Len(s) \in DOMAIN t /\ j - Len(s) # k - Len(s)
          /\ t[j - Len(s)] = t[k - Len(s)]
      BY <1>1, <2>2
    <3> QED
      BY <1>3, <3>1 DEF IsInjective
  <2>3. CASE j <= Len(s) /\ k > Len(s)
    <3>1. j \in DOMAIN s /\ k - Len(s) \in DOMAIN t /\ s[j] = t[k - Len(s)]
      BY <1>1, <2>3
    <3> QED
      BY <1>3, <3>1 DEF ToSet
  <2> QED
    BY <1>1, <2>1, <2>2, <2>3
<1> QED
  BY <1>1, <1>2, <1>3
-----------------------------------------------------------------------------
IInv == TypeOK /\ ChainsAgree

LEMMA HeldFacts ==
  ASSUME IInv
  PROVE  /\ DOMAIN uses = Held /\ Held \subseteq Uses
         /\ \A i \in Held : user(i) \in Users /\ usee(i) \in Vals
         /\ \A u \in Users : ToSet(operands[u]) \subseteq Held
         /\ \A v \in Vals : ToSet(users[v]) \subseteq Held
         /\ PureUses \subseteq Held
<1> USE DEF IInv, TypeOK
<1>1. DOMAIN uses = Held
  OBVIOUS
<1>2. \A i \in Held : user(i) \in Users /\ usee(i) \in Vals
  BY <1>1 DEF user, usee
<1>3. \A u \in Users : ToSet(operands[u]) \subseteq Held /\ ToSet(operands[u]) \subseteq Uses
  <2> SUFFICES ASSUME NEW u \in Users
               PROVE  ToSet(operands[u]) \subseteq Held /\ ToSet(operands[u]) \subseteq Uses
    OBVIOUS
  <2>1. operands[u] \in Seq(Uses)
    OBVIOUS
  <2>2. \A k \in DOMAIN operands[u] : operands[u][k] \in Uses
    BY <2>1, LenProperties, ElementOfSeq
  <2> QED
    BY <2>2 DEF Held, ToSet
<1>4. \A v \in Vals : ToSet(users[v]) \subseteq Held /\ ToSet(users[v]) \subseteq Uses
  <2> SUFFICES ASSUME NEW v \in Vals
               PROVE  ToSet(users[v]) \subseteq Held /\ ToSet(users[v]) \subseteq Uses
    OBVIOUS
  <2>1. users[v] \in Seq(Uses)
    OBVIOUS
  <2>2. \A k \in DOMAIN users[v] : users[v][k] \in Uses
    BY <2>1, LenProperties, ElementOfSeq
  <2> QED
    BY <2>2 DEF Held, ToSet
<1>5. PureUses \subseteq Held /\ PureUses \subseteq Uses
  BY DEF Held, PureUses
<1>6. Held \subseteq Uses
  BY <1>3, <1>4, <1>5 DEF Held
<1> QED
  BY <1>1, <1>2, <1>3, <1>4, <1>5, <1>6

(* Uses leave all the lists they are in, and nothing else changes.         *)
Lose(R) ==
  /\ operands' \in [Users -> Seq(Uses)]
  /\ users' \in [Vals -> Seq(Uses)]
  /\ \A u \in Users :
       ToSet(operands'[u]) = ToSet(operands[u]) \ R /\ IsInjective(operands'[u])
  /\ \A v \in Vals : ToSet(users'[v]) = ToSet(users[v]) \ R /\ IsInjective(users'[v])
  /\ current_def' = [d \in {e \in DOMAIN current_def : current_def[e] \notin R} |-> current_def[d]]
  /\ uses' = Retained(uses)

LEMMA LoseAgrees ==
  ASSUME IInv, NEW R, Lose(R),
         alive' \subseteq Vals,
         \A i \in Held \ R : user(i) \in alive' /\ usee(i) \in alive'
  PROVE  IInv'
<1>1. /\ DOMAIN uses = Held /\ Held \subseteq Uses
      /\ \A i \in Held : user(i) \in Users /\ usee(i) \in Vals
      /\ \A u \in Users : ToSet(operands[u]) \subseteq Held
      /\ \A v \in Vals : ToSet(users[v]) \subseteq Held
      /\ PureUses \subseteq Held
  BY HeldFacts
<1>2. PureUses' = PureUses \ R
  BY DEF Lose, PureUses
<1>3. Held' = Held \ R
  BY <1>2 DEF Held, Lose
<1>4. /\ DOMAIN uses' = Held \ R
      /\ \A i \in Held \ R : uses'[i] = uses[i]
  BY <1>3 DEF Lose, Retained
<1>5. TypeOK'
  <2>1. uses' \in [Held' -> [user : Users, usee : Vals]]
    BY <1>3, <1>4 DEF Lose, Retained, IInv, TypeOK
  <2>2. /\ DOMAIN current_def' \subseteq Variables \X Users
        /\ current_def' \in [DOMAIN current_def' -> Uses]
    BY DEF Lose, IInv, TypeOK
  <2> QED
    BY <2>1, <2>2 DEF Lose, TypeOK
<1>6. UsesAreListed'
  <2> SUFFICES ASSUME NEW i \in Held \ R
               PROVE  /\ uses'[i].user \in alive' /\ uses'[i].usee \in alive'
                      /\ i \in ToSet(users'[uses'[i].usee])
                      /\ i \in ToSet(operands'[uses'[i].user]) <=> i \notin PureUses'
    BY <1>4 DEF UsesAreListed, user, usee
  <2>1. /\ user(i) \in Users /\ usee(i) \in Vals
        /\ i \in ToSet(users[usee(i)])
        /\ i \in ToSet(operands[user(i)]) <=> i \notin PureUses
    BY <1>1 DEF IInv, ChainsAgree, UsesAreListed
  <2> QED
    BY <1>2, <1>4, <2>1 DEF Lose, user, usee
<1>7. UsersAgree'
  BY <1>1, <1>4 DEF Lose, IInv, ChainsAgree, UsersAgree, usee
<1>8. OperandsAgree'
  BY <1>1, <1>4 DEF Lose, IInv, ChainsAgree, OperandsAgree, user
<1>9. DefinitionsAgree'
  <2>1. ASSUME NEW d \in DOMAIN current_def'
        PROVE  /\ d \in DOMAIN current_def /\ current_def'[d] = current_def[d]
               /\ uses'[current_def[d]] = uses[current_def[d]]
    BY <1>1, <1>4 DEF Lose, PureUses
  <2> QED
    BY <2>1 DEF IInv, ChainsAgree, DefinitionsAgree, IsInjective, user
<1> QED
  BY <1>5, <1>6, <1>7, <1>8, <1>9 DEF IInv, ChainsAgree

(* Uses change to the value w, and to the list of w.                       *)
Move(R, w) ==
  /\ users' \in [Vals -> Seq(Uses)]
  /\ \A v \in Vals : /\ ToSet(users'[v]) = IF v = w THEN ToSet(users[v]) \cup R ELSE ToSet(users[v]) \ R
                     /\ IsInjective(users'[v])
  /\ uses' = [i \in DOMAIN uses |-> IF i \in R THEN [uses[i] EXCEPT !.usee = w] ELSE uses[i]]
  /\ UNCHANGED <<alive, operands, current_def>>

LEMMA MoveAgrees ==
  ASSUME IInv, NEW R \in SUBSET Held, NEW w \in alive, Move(R, w)
  PROVE  IInv'
<1>1. /\ DOMAIN uses = Held /\ Held \subseteq Uses
      /\ \A i \in Held : user(i) \in Users /\ usee(i) \in Vals
      /\ \A u \in Users : ToSet(operands[u]) \subseteq Held
      /\ \A v \in Vals : ToSet(users[v]) \subseteq Held
      /\ PureUses \subseteq Held
  BY HeldFacts
<1>2. w \in Vals
  BY DEF IInv, TypeOK
<1>3. PureUses' = PureUses
  BY DEF Move, PureUses
<1>4. Held' = Held
  <2>1. \A v \in Vals : ToSet(users'[v]) \subseteq Held
    BY <1>1 DEF Move
  <2>2. ASSUME NEW i \in Held
        PROVE  i \in Held'
    <3>1. i \in R => i \in ToSet(users'[w])
      BY <1>2 DEF Move
    <3>2. i \notin R => \A v \in Vals : i \in ToSet(users[v]) => i \in ToSet(users'[v])
      BY DEF Move
    <3> QED
      BY <1>2, <1>3, <3>1, <3>2 DEF Held, Move
  <2>3. Held' \subseteq Held
    BY <1>1, <1>3, <2>1 DEF Held, Move
  <2> QED
    BY <2>2, <2>3
<1>5. /\ DOMAIN uses' = Held
      /\ \A i \in Held : /\ uses'[i].user = uses[i].user
                         /\ uses'[i].usee = IF i \in R THEN w ELSE uses[i].usee
  <2>1. \A i \in Held : uses[i] \in [user : Users, usee : Vals]
    BY <1>1 DEF IInv, TypeOK
  <2> QED
    BY <1>1, <2>1 DEF Move
<1>6. TypeOK'
  <2>1. uses' \in [Held -> [user : Users, usee : Vals]]
    <3>1. \A i \in Held : uses[i] \in [user : Users, usee : Vals]
      BY <1>1 DEF IInv, TypeOK
    <3>2. \A i \in Held : [uses[i] EXCEPT !.usee = w] \in [user : Users, usee : Vals]
      BY <1>2, <3>1
    <3> QED
      BY <1>1, <3>1, <3>2 DEF Move
  <2> QED
    BY <1>4, <2>1 DEF Move, IInv, TypeOK
<1>7. UsesAreListed'
  <2> SUFFICES ASSUME NEW i \in Held
               PROVE  /\ uses'[i].user \in alive /\ uses'[i].usee \in alive
                      /\ i \in ToSet(users'[uses'[i].usee])
                      /\ i \in ToSet(operands[uses'[i].user]) <=> i \notin PureUses
    BY <1>3, <1>5 DEF UsesAreListed, user, usee, Move
  <2>1. /\ uses[i].user \in alive /\ uses[i].usee \in alive /\ uses[i].usee \in Vals
        /\ i \in ToSet(users[uses[i].usee])
        /\ i \in ToSet(operands[uses[i].user]) <=> i \notin PureUses
    BY <1>1 DEF IInv, ChainsAgree, UsesAreListed, user, usee
  <2>2. uses'[i].user = uses[i].user /\ uses'[i].usee = IF i \in R THEN w ELSE uses[i].usee
    BY <1>5
  <2>3. i \in ToSet(users'[uses'[i].usee])
    BY <1>2, <2>1, <2>2 DEF Move
  <2> QED
    BY <2>1, <2>2, <2>3
<1>8. UsersAgree'
  <2> SUFFICES ASSUME NEW v \in Vals, NEW i \in ToSet(users'[v])
               PROVE  uses'[i].usee = v
    BY DEF UsersAgree, usee, Move
  <2>1. CASE i \in R
    BY <1>5, <2>1 DEF Move
  <2>2. CASE i \notin R
    <3>1. i \in ToSet(users[v])
      BY <2>2 DEF Move
    <3>2. i \in Held /\ uses[i].usee = v
      BY <1>1, <3>1 DEF IInv, ChainsAgree, UsersAgree, usee
    <3> QED
      BY <1>5, <2>2, <3>2
  <2> QED
    BY <2>1, <2>2
<1>9. OperandsAgree'
  BY <1>1, <1>5 DEF Move, IInv, ChainsAgree, OperandsAgree, user
<1>10. DefinitionsAgree'
  <2>1. \A d \in DOMAIN current_def : current_def[d] \in Held
    BY <1>1 DEF PureUses
  <2> QED
    BY <1>5, <2>1 DEF Move, IInv, ChainsAgree, DefinitionsAgree, user
<1> QED
  BY <1>6, <1>7, <1>8, <1>9, <1>10 DEF IInv, ChainsAgree

LEMMA ConstructAgrees ==
  ASSUME IInv, NEW v \in Vals, Construct(v)
  PROVE  IInv'
<1>1. PureUses' = PureUses /\ Held' = Held
  BY DEF Construct, PureUses, Held
<1> QED
  BY <1>1 DEF Construct, IInv, TypeOK, ChainsAgree, UsesAreListed, UsersAgree, OperandsAgree,
     DefinitionsAgree, user, usee

LEMMA add_operandAgrees ==
  ASSUME IInv, NEW u \in Users, NEW v \in Vals, add_operand(u, v)
  PROVE  IInv'
<1>1. /\ DOMAIN uses = Held /\ Held \subseteq Uses
      /\ \A i \in Held : user(i) \in Users /\ usee(i) \in Vals
      /\ \A x \in Users : ToSet(operands[x]) \subseteq Held
      /\ \A x \in Vals : ToSet(users[x]) \subseteq Held
      /\ PureUses \subseteq Held
  BY HeldFacts
<1>2. PICK i \in Uses \ Held :
        /\ operands' = [operands EXCEPT ![u] = Append(@, i)]
        /\ users' = [users EXCEPT ![v] = Append(@, i)]
        /\ uses' = With(uses, i, [user |-> u, usee |-> v])
  BY <1>1 DEF add_operand
<1>3. u \in alive /\ v \in alive /\ UNCHANGED <<alive, current_def>> /\ PureUses' = PureUses
  BY DEF add_operand, PureUses
<1>4. /\ operands' \in [Users -> Seq(Uses)]
      /\ \A x \in Users : /\ ToSet(operands'[x]) = ToSet(operands[x]) \cup (IF x = u THEN {i} ELSE {})
                          /\ IsInjective(operands'[x])
  <2>1. operands \in [Users -> Seq(Uses)] /\ \A x \in Users : IsInjective(operands[x])
    BY DEF IInv, TypeOK, ChainsAgree, OperandsAgree
  <2>2. i \notin ToSet(operands[u])
    BY <1>1
  <2>3. /\ Append(operands[u], i) \in Seq(Uses)
        /\ ToSet(Append(operands[u], i)) = ToSet(operands[u]) \cup {i}
        /\ IsInjective(Append(operands[u], i))
    BY <2>1, <2>2, AppendFacts
  <2> QED
    BY <1>2, <2>1, <2>3
<1>5. /\ users' \in [Vals -> Seq(Uses)]
      /\ \A x \in Vals : /\ ToSet(users'[x]) = ToSet(users[x]) \cup (IF x = v THEN {i} ELSE {})
                         /\ IsInjective(users'[x])
  <2>1. users \in [Vals -> Seq(Uses)] /\ \A x \in Vals : IsInjective(users[x])
    BY DEF IInv, TypeOK, ChainsAgree, UsersAgree
  <2>2. i \notin ToSet(users[v])
    BY <1>1
  <2>3. /\ Append(users[v], i) \in Seq(Uses)
        /\ ToSet(Append(users[v], i)) = ToSet(users[v]) \cup {i}
        /\ IsInjective(Append(users[v], i))
    BY <2>1, <2>2, AppendFacts
  <2> QED
    BY <1>2, <2>1, <2>3
<1>6. Held' = Held \cup {i}
  BY <1>3, <1>4, <1>5 DEF Held
<1>7. /\ DOMAIN uses' = Held \cup {i}
      /\ uses'[i] = [user |-> u, usee |-> v]
      /\ \A j \in Held : uses'[j] = uses[j]
  BY <1>1, <1>2 DEF With
<1>8. TypeOK'
  <2>1. \A j \in Held' : uses'[j] \in [user : Users, usee : Vals]
    BY <1>6, <1>7 DEF IInv, TypeOK
  <2>2. uses' \in [Held' -> [user : Users, usee : Vals]]
    BY <1>1, <1>2, <1>6, <1>7, <2>1 DEF With
  <2> QED
    BY <1>3, <1>4, <1>5, <2>2 DEF IInv, TypeOK
<1>9. UsesAreListed'
  <2> SUFFICES ASSUME NEW j \in Held \cup {i}
               PROVE  /\ uses'[j].user \in alive /\ uses'[j].usee \in alive
                      /\ j \in ToSet(users'[uses'[j].usee])
                      /\ j \in ToSet(operands'[uses'[j].user]) <=> j \notin PureUses
    BY <1>3, <1>7 DEF UsesAreListed, user, usee
  <2>1. CASE j = i
    BY <1>1, <1>2, <1>3, <1>4, <1>5, <1>7, <2>1
  <2>2. CASE j \in Held
    <3>1. /\ uses[j].user \in alive /\ uses[j].usee \in alive
          /\ uses[j].user \in Users /\ uses[j].usee \in Vals
          /\ j \in ToSet(users[uses[j].usee])
          /\ j \in ToSet(operands[uses[j].user]) <=> j \notin PureUses
      BY <1>1, <2>2 DEF IInv, ChainsAgree, UsesAreListed, user, usee
    <3>2. uses'[j] = uses[j] /\ j # i
      BY <1>2, <1>7, <2>2
    <3> QED
      BY <1>4, <1>5, <3>1, <3>2
  <2> QED
    BY <2>1, <2>2
<1>10. UsersAgree'
  BY <1>1, <1>5, <1>7 DEF IInv, ChainsAgree, UsersAgree, usee
<1>11. OperandsAgree'
  BY <1>1, <1>4, <1>7 DEF IInv, ChainsAgree, OperandsAgree, user
<1>12. DefinitionsAgree'
  <2>1. \A d \in DOMAIN current_def : current_def[d] \in Held
    BY <1>1 DEF PureUses
  <2> QED
    BY <1>3, <1>7, <2>1 DEF IInv, ChainsAgree, DefinitionsAgree, user
<1> QED
  BY <1>8, <1>9, <1>10, <1>11, <1>12 DEF IInv, ChainsAgree

(* Where an operand is listed.                                             *)
LEMMA OperandFacts ==
  ASSUME IInv, NEW u \in Users, NEW k \in DOMAIN operands[u]
  PROVE  LET i == operands[u][k]
         IN  /\ i \in Held /\ i \in ToSet(operands[u]) /\ i \notin PureUses
             /\ user(i) = u /\ u \in alive
             /\ usee(i) \in alive /\ usee(i) \in Vals
             /\ \A v \in Vals : i \in ToSet(users[v]) <=> v = usee(i)
             /\ \A x \in Users : i \in ToSet(operands[x]) <=> x = u
<1> DEFINE i == operands[u][k]
<1>1. i \in ToSet(operands[u])
  BY DEF ToSet
<1> HIDE DEF i
<1>2. i \in Held /\ DOMAIN uses = Held
  BY <1>1, HeldFacts
<1>3. user(i) = u /\ i \notin PureUses /\ u \in alive /\ usee(i) \in alive /\ i \in ToSet(users[usee(i)])
  BY <1>1, <1>2 DEF IInv, ChainsAgree, OperandsAgree, UsesAreListed
<1>4. usee(i) \in Vals
  BY <1>2, HeldFacts
<1>5. \A v \in Vals : i \in ToSet(users[v]) <=> v = usee(i)
  BY <1>3 DEF IInv, ChainsAgree, UsersAgree
<1>6. \A x \in Users : i \in ToSet(operands[x]) <=> x = u
  BY <1>1, <1>3 DEF IInv, ChainsAgree, OperandsAgree
<1> QED
  BY <1>1, <1>2, <1>3, <1>4, <1>5, <1>6 DEF i

LEMMA change_operandAgrees ==
  ASSUME IInv, NEW u \in Users, NEW k \in DOMAIN operands[u], NEW v \in Vals,
         change_operand(u, k, v)
  PROVE  IInv'
<1> DEFINE i == operands[u][k]
           w == usee(i)
           released == [users EXCEPT ![w] = Without(@, {i})]
<1>1. /\ i \in Held /\ w \in Vals /\ DOMAIN uses = Held /\ i \in Uses
      /\ \A x \in Vals : i \in ToSet(users[x]) <=> x = w
  BY OperandFacts, HeldFacts
<1>2. /\ v \in alive
      /\ users' = [released EXCEPT ![v] = Append(@, i)]
      /\ uses' = [uses EXCEPT ![i].usee = v]
      /\ UNCHANGED <<alive, operands, current_def>>
  BY DEF change_operand
<1>3. users \in [Vals -> Seq(Uses)] /\ \A x \in Vals : IsInjective(users[x])
  BY DEF IInv, TypeOK, ChainsAgree, UsersAgree
<1> HIDE DEF i, w
<1>4. /\ released \in [Vals -> Seq(Uses)]
      /\ \A x \in Vals : ToSet(released[x]) = ToSet(users[x]) \ {i} /\ IsInjective(released[x])
  <2>1. /\ Without(users[w], {i}) \in Seq(Uses)
        /\ ToSet(Without(users[w], {i})) = ToSet(users[w]) \ {i}
        /\ IsInjective(Without(users[w], {i}))
    BY <1>1, <1>3, WithoutProperties
  <2> QED
    BY <1>1, <1>3, <2>1
<1> HIDE DEF released
<1>5. /\ users' \in [Vals -> Seq(Uses)]
      /\ \A x \in Vals : /\ ToSet(users'[x]) = IF x = v THEN ToSet(users[x]) \cup {i} ELSE ToSet(users[x]) \ {i}
                         /\ IsInjective(users'[x])
  <2>1. /\ Append(released[v], i) \in Seq(Uses)
        /\ ToSet(Append(released[v], i)) = ToSet(released[v]) \cup {i}
        /\ IsInjective(Append(released[v], i))
    BY <1>1, <1>4, AppendFacts
  <2> QED
    BY <1>2, <1>4, <2>1
<1>6. uses' = [j \in DOMAIN uses |-> IF j \in {i} THEN [uses[j] EXCEPT !.usee = v] ELSE uses[j]]
  BY <1>1, <1>2
<1>7. Move({i}, v)
  BY <1>2, <1>5, <1>6 DEF Move
<1> QED
  BY <1>1, <1>2, <1>7, MoveAgrees

LEMMA replace_selfAgrees ==
  ASSUME IInv, NEW v \in Vals, NEW w \in Vals, replace_self(v, w)
  PROVE  IInv'
<1>1. /\ v \in alive /\ w \in alive /\ v # w
      /\ users' = [users EXCEPT ![w] = @ \o users[v], ![v] = <<>>]
      /\ uses' = [i \in DOMAIN uses |->
                    IF i \in ToSet(users[v]) THEN [uses[i] EXCEPT !.usee = w] ELSE uses[i]]
      /\ UNCHANGED <<alive, operands, current_def>>
  BY DEF replace_self
<1>2. /\ users \in [Vals -> Seq(Uses)]
      /\ \A x \in Vals : IsInjective(users[x]) /\ \A i \in ToSet(users[x]) : usee(i) = x
      /\ ToSet(users[v]) \in SUBSET Held
  BY HeldFacts DEF IInv, TypeOK, ChainsAgree, UsersAgree
<1>3. /\ users[w] \o users[v] \in Seq(Uses)
      /\ ToSet(users[w] \o users[v]) = ToSet(users[w]) \cup ToSet(users[v])
      /\ IsInjective(users[w] \o users[v])
  BY <1>1, <1>2, ConcatFacts
<1>4. <<>> \in Seq(Uses) /\ ToSet(<<>>) = {} /\ IsInjective(<<>>)
  BY DEF ToSet, IsInjective
<1>5. /\ users' \in [Vals -> Seq(Uses)]
      /\ \A x \in Vals : /\ users'[x] = IF x = v THEN <<>> ELSE IF x = w THEN users[w] \o users[v] ELSE users[x]
                         /\ IsInjective(users'[x])
  BY <1>1, <1>2, <1>3, <1>4
<1>6. ASSUME NEW x \in Vals
      PROVE  ToSet(users'[x]) = IF x = w THEN ToSet(users[x]) \cup ToSet(users[v])
                                ELSE ToSet(users[x]) \ ToSet(users[v])
  <2>1. x # v => ToSet(users[x]) \cap ToSet(users[v]) = {}
    BY <1>2
  <2> QED
    BY <1>1, <1>3, <1>4, <1>5, <2>1
<1>7. Move(ToSet(users[v]), w)
  BY <1>1, <1>5, <1>6 DEF Move
<1> QED
  BY <1>1, <1>2, <1>7, MoveAgrees

LEMMA release_operandAgrees ==
  ASSUME IInv, NEW u \in Users, NEW k \in DOMAIN operands[u], release_operand(u, k)
  PROVE  IInv'
<1> DEFINE i == operands[u][k]
           w == usee(i)
           left == Lists!Kept(operands[u], DOMAIN operands[u] \ {k})
<1>1. /\ i \in Held /\ w \in Vals /\ DOMAIN uses = Held /\ i \notin PureUses
      /\ \A x \in Vals : i \in ToSet(users[x]) <=> x = w
      /\ \A x \in Users : i \in ToSet(operands[x]) <=> x = u
  BY OperandFacts, HeldFacts
<1>2. /\ users' = [users EXCEPT ![w] = Without(@, {i})]
      /\ operands' = [operands EXCEPT ![u] = left]
      /\ uses' = Retained(uses)
      /\ UNCHANGED <<alive, current_def>>
  BY DEF release_operand
<1>3. /\ users \in [Vals -> Seq(Uses)] /\ \A x \in Vals : IsInjective(users[x])
      /\ operands \in [Users -> Seq(Uses)] /\ \A x \in Users : IsInjective(operands[x])
  BY DEF IInv, TypeOK, ChainsAgree, UsersAgree, OperandsAgree
<1>4. left \in Seq(Uses) /\ ToSet(left) = ToSet(operands[u]) \ {i} /\ IsInjective(left)
  <2>1. /\ left \in Seq(Uses) /\ IsInjective(left)
        /\ ToSet(left) = {operands[u][j] : j \in DOMAIN operands[u] \ {k}}
    <3>1. operands[u] \in Seq(Uses) /\ IsInjective(operands[u])
          /\ DOMAIN operands[u] \ {k} \in SUBSET DOMAIN operands[u]
      BY <1>3
    <3> QED
      BY <3>1, KeptProperties
  <2>2. {operands[u][j] : j \in DOMAIN operands[u] \ {k}} = ToSet(operands[u]) \ {i}
    BY <1>3 DEF ToSet, IsInjective
  <2> QED
    BY <2>1, <2>2
<1> HIDE DEF i, w, left
<1>5. /\ operands' \in [Users -> Seq(Uses)]
      /\ \A x \in Users : ToSet(operands'[x]) = ToSet(operands[x]) \ {i} /\ IsInjective(operands'[x])
  BY <1>1, <1>2, <1>3, <1>4
<1>6. /\ users' \in [Vals -> Seq(Uses)]
      /\ \A x \in Vals : ToSet(users'[x]) = ToSet(users[x]) \ {i} /\ IsInjective(users'[x])
  <2>1. /\ Without(users[w], {i}) \in Seq(Uses)
        /\ ToSet(Without(users[w], {i})) = ToSet(users[w]) \ {i}
        /\ IsInjective(Without(users[w], {i}))
    BY <1>1, <1>3, WithoutProperties
  <2> QED
    BY <1>1, <1>2, <1>3, <2>1
<1>7. current_def' = [d \in {e \in DOMAIN current_def : current_def[e] \notin {i}} |-> current_def[d]]
  BY <1>1, <1>2 DEF PureUses, IInv, TypeOK
<1>8. Lose({i})
  BY <1>2, <1>5, <1>6, <1>7 DEF Lose
<1>9. alive' = alive /\ alive \subseteq Vals /\ \A j \in Held : user(j) \in alive /\ usee(j) \in alive
  BY <1>1, <1>2 DEF IInv, TypeOK, ChainsAgree, UsesAreListed
<1> QED
  BY <1>8, <1>9, LoseAgrees

(* What leaves the lists when the operands of u are released.              *)
LEMMA ReleasedFacts ==
  ASSUME IInv, NEW u \in Users
  PROVE  /\ Released(u) \in [Vals -> Seq(Uses)]
         /\ \A x \in Vals : /\ ToSet(Released(u)[x]) = ToSet(users[x]) \ ToSet(operands[u])
                            /\ IsInjective(Released(u)[x])
<1>1. users \in [Vals -> Seq(Uses)] /\ \A x \in Vals : IsInjective(users[x])
  BY DEF IInv, TypeOK, ChainsAgree, UsersAgree
<1>2. ASSUME NEW x \in Vals, NEW R, R = {i \in ToSet(operands[u]) : usee(i) = x}
      PROVE  /\ Without(users[x], R) \in Seq(Uses)
             /\ ToSet(Without(users[x], R)) = ToSet(users[x]) \ ToSet(operands[u])
             /\ IsInjective(Without(users[x], R))
  <2>1. /\ Without(users[x], R) \in Seq(Uses)
        /\ ToSet(Without(users[x], R)) = ToSet(users[x]) \ R
        /\ IsInjective(Without(users[x], R))
    BY <1>1, WithoutProperties
  <2>2. ToSet(users[x]) \ R = ToSet(users[x]) \ ToSet(operands[u])
    BY <1>2 DEF IInv, ChainsAgree, UsersAgree
  <2> QED
    BY <2>1, <2>2
<1> QED
  BY <1>2 DEF Released

LEMMA release_all_operandsAgrees ==
  ASSUME IInv, NEW u \in Users, release_all_operands(u)
  PROVE  IInv'
<1> DEFINE R == ToSet(operands[u])
<1>1. users' = Released(u) /\ operands' = [operands EXCEPT ![u] = <<>>] /\ uses' = Retained(uses)
      /\ UNCHANGED <<alive, current_def>>
  BY DEF release_all_operands
<1>2. /\ operands \in [Users -> Seq(Uses)]
      /\ \A x \in Users : IsInjective(operands[x]) /\ \A i \in ToSet(operands[x]) : user(i) = x
  BY DEF IInv, TypeOK, ChainsAgree, OperandsAgree
<1>3. <<>> \in Seq(Uses) /\ ToSet(<<>>) = {} /\ IsInjective(<<>>)
  BY DEF ToSet, IsInjective
<1>4. /\ operands' \in [Users -> Seq(Uses)]
      /\ \A x \in Users : operands'[x] = (IF x = u THEN <<>> ELSE operands[x])
  BY <1>1, <1>2, <1>3
<1>5. \A x \in Users : ToSet(operands'[x]) = ToSet(operands[x]) \ R /\ IsInjective(operands'[x])
  BY <1>2, <1>3, <1>4
<1>6. R \cap PureUses = {} /\ DOMAIN uses = Held /\ R \subseteq Held
  BY <1>2, HeldFacts DEF IInv, ChainsAgree, UsesAreListed
<1> HIDE DEF R
<1>7. current_def' = [d \in {e \in DOMAIN current_def : current_def[e] \notin R} |-> current_def[d]]
  <2>1. {e \in DOMAIN current_def : current_def[e] \notin R} = DOMAIN current_def
    BY <1>6 DEF PureUses
  <2>2. current_def = [d \in DOMAIN current_def |-> current_def[d]]
    BY DEF IInv, TypeOK
  <2> QED
    BY <1>1, <2>1, <2>2
<1>8. /\ users' \in [Vals -> Seq(Uses)]
      /\ \A x \in Vals : ToSet(users'[x]) = ToSet(users[x]) \ R /\ IsInjective(users'[x])
  BY <1>1, ReleasedFacts DEF R
<1>9. Lose(R)
  BY <1>1, <1>4, <1>5, <1>7, <1>8 DEF Lose
<1>10. alive' = alive /\ alive \subseteq Vals /\ \A j \in Held : user(j) \in alive /\ usee(j) \in alive
  BY <1>1, <1>6 DEF IInv, TypeOK, ChainsAgree, UsesAreListed
<1> QED
  BY <1>9, <1>10, LoseAgrees

LEMMA DestructAgrees ==
  ASSUME IInv, NEW v \in Vals, Destruct(v)
  PROVE  IInv'
<1> DEFINE own == IF v \in Users THEN ToSet(operands[v]) ELSE {}
           operands1 == [u \in Users |-> IF u = v THEN <<>> ELSE operands[u]]
           users1 == IF v \in Users THEN Released(v) ELSE users
           left == ToSet(users1[v])
           R == own \cup left
<1>1. /\ v \in alive /\ \A i \in PureUses : v # user(i) /\ v # usee(i)
      /\ operands' = [u \in Users |-> Without(operands1[u], {i \in left : user(i) = u})]
      /\ users' = [users1 EXCEPT ![v] = <<>>]
      /\ alive' = alive \ {v} /\ current_def' = current_def /\ uses' = Retained(uses)
  BY DEF Destruct
<1>2. /\ operands \in [Users -> Seq(Uses)]
      /\ \A x \in Users : IsInjective(operands[x]) /\ \A i \in ToSet(operands[x]) : user(i) = x
      /\ users \in [Vals -> Seq(Uses)]
      /\ \A x \in Vals : IsInjective(users[x]) /\ \A i \in ToSet(users[x]) : usee(i) = x
  BY DEF IInv, TypeOK, ChainsAgree, OperandsAgree, UsersAgree
<1>3. <<>> \in Seq(Uses) /\ ToSet(<<>>) = {} /\ IsInjective(<<>>)
  BY DEF ToSet, IsInjective
<1>4. /\ users1 \in [Vals -> Seq(Uses)]
      /\ \A x \in Vals : ToSet(users1[x]) = ToSet(users[x]) \ own /\ IsInjective(users1[x])
  <2>1. CASE v \in Users
    BY <2>1, ReleasedFacts
  <2>2. CASE v \notin Users
    BY <1>2, <2>2
  <2> QED
    BY <2>1, <2>2
<1>5. DOMAIN uses = Held /\ own \subseteq Held /\ left \subseteq Held /\ left = ToSet(users[v]) \ own
  BY <1>4, HeldFacts
<1> HIDE DEF users1
<1>6. /\ users' \in [Vals -> Seq(Uses)]
      /\ \A x \in Vals : ToSet(users'[x]) = ToSet(users[x]) \ R /\ IsInjective(users'[x])
  <2>1. /\ users' \in [Vals -> Seq(Uses)]
        /\ \A x \in Vals : users'[x] = IF x = v THEN <<>> ELSE users1[x]
    BY <1>1, <1>3, <1>4
  <2>2. ASSUME NEW x \in Vals, x # v
        PROVE  ToSet(users[x]) \ own = ToSet(users[x]) \ R
    BY <1>2, <1>5, <2>2
  <2>3. ToSet(users[v]) \ R = {}
    BY <1>5
  <2> HIDE DEF own, left, R
  <2> QED
    BY <1>3, <1>4, <2>1, <2>2, <2>3
<1>7. /\ operands' \in [Users -> Seq(Uses)]
      /\ \A x \in Users : ToSet(operands'[x]) = ToSet(operands[x]) \ R /\ IsInjective(operands'[x])
  <2>1. ASSUME NEW x \in Users, NEW L, L = {i \in left : user(i) = x}
        PROVE  /\ Without(operands1[x], L) \in Seq(Uses)
               /\ ToSet(Without(operands1[x], L)) = ToSet(operands[x]) \ R
               /\ IsInjective(Without(operands1[x], L))
    <3>1. operands1[x] \in Seq(Uses) /\ IsInjective(operands1[x])
      BY <1>2, <1>3
    <3>2. /\ Without(operands1[x], L) \in Seq(Uses)
          /\ ToSet(Without(operands1[x], L)) = ToSet(operands1[x]) \ L
          /\ IsInjective(Without(operands1[x], L))
      BY <3>1, WithoutProperties
    <3>3. ToSet(operands1[x]) \ L = ToSet(operands[x]) \ R
      <4>1. CASE x = v
        BY <1>3, <4>1
      <4>2. CASE x # v
        <5>1. operands1[x] = operands[x]
          BY <4>2
        <5>2. ToSet(operands[x]) \cap own = {}
          BY <1>2, <4>2
        <5>3. ToSet(operands[x]) \ L = ToSet(operands[x]) \ left
          BY <1>2, <2>1
        <5> HIDE DEF own, left, operands1
        <5> QED
          BY <5>1, <5>2, <5>3
      <4> QED
        BY <4>1, <4>2
    <3> QED
      BY <3>2, <3>3
  <2> HIDE DEF operands1, left, R
  <2> QED
    BY <1>1, <2>1
<1>8. R \cap PureUses = {}
  <2>1. own \cap PureUses = {}
    BY <1>1, <1>2
  <2>2. left \cap PureUses = {}
    BY <1>1, <1>2, <1>5
  <2> HIDE DEF own, left
  <2> QED
    BY <2>1, <2>2
<1>9. ASSUME NEW i \in Held \ R
      PROVE  user(i) \in alive' /\ usee(i) \in alive'
  <2>1. /\ user(i) \in alive /\ usee(i) \in alive /\ user(i) \in Users /\ usee(i) \in Vals
        /\ i \in ToSet(users[usee(i)])
        /\ i \in ToSet(operands[user(i)]) <=> i \notin PureUses
    BY <1>5, HeldFacts DEF IInv, ChainsAgree, UsesAreListed
  <2>2. usee(i) # v
    BY <1>5, <2>1
  <2>3. user(i) # v
    BY <1>1, <2>1
  <2> QED
    BY <1>1, <2>1, <2>2, <2>3
<1> HIDE DEF R
<1>10. current_def' = [d \in {e \in DOMAIN current_def : current_def[e] \notin R} |-> current_def[d]]
  <2>1. {e \in DOMAIN current_def : current_def[e] \notin R} = DOMAIN current_def
    BY <1>8 DEF PureUses
  <2>2. current_def = [d \in DOMAIN current_def |-> current_def[d]]
    BY DEF IInv, TypeOK
  <2> QED
    BY <1>1, <2>1, <2>2
<1>11. Lose(R)
  BY <1>1, <1>6, <1>7, <1>10 DEF Lose
<1> QED
  BY <1>1, <1>9, <1>11, LoseAgrees DEF IInv, TypeOK

(* A pure use is in the list of its value, and nowhere else.               *)
LEMMA DefinitionFacts ==
  ASSUME IInv, NEW d \in DOMAIN current_def
  PROVE  LET i == current_def[d]
         IN  /\ i \in Held /\ i \in PureUses
             /\ usee(i) \in alive /\ usee(i) \in Vals
             /\ \A v \in Vals : i \in ToSet(users[v]) <=> v = usee(i)
             /\ \A x \in Users : i \notin ToSet(operands[x])
             /\ remove_use(users[usee(i)], i) = Without(users[usee(i)], {i})
<1> DEFINE i == current_def[d]
<1>1. i \in PureUses /\ i \in Held /\ DOMAIN uses = Held
  BY HeldFacts DEF PureUses
<1> HIDE DEF i
<1>2. /\ usee(i) \in alive /\ usee(i) \in Vals /\ i \in ToSet(users[usee(i)])
      /\ user(i) \in Users /\ i \notin ToSet(operands[user(i)])
  BY <1>1, HeldFacts DEF IInv, ChainsAgree, UsesAreListed
<1>3. \A v \in Vals : i \in ToSet(users[v]) <=> v = usee(i)
  BY <1>2 DEF IInv, ChainsAgree, UsersAgree
<1>4. \A x \in Users : i \notin ToSet(operands[x])
  BY <1>2 DEF IInv, ChainsAgree, OperandsAgree
<1>5. users[usee(i)] \in Seq(Uses) /\ IsInjective(users[usee(i)])
  BY <1>2 DEF IInv, TypeOK, ChainsAgree, UsersAgree
<1>6. remove_use(users[usee(i)], i) = Without(users[usee(i)], {i})
  BY <1>5, RemoveIsWithout
<1> QED
  BY <1>1, <1>2, <1>3, <1>4, <1>6 DEF i

LEMMA erase_blk_defAgrees ==
  ASSUME IInv, NEW d \in DOMAIN current_def, erase_blk_def(d)
  PROVE  IInv'
<1> DEFINE i == current_def[d]
           w == usee(i)
<1>1. /\ i \in Held /\ i \in PureUses /\ w \in Vals /\ DOMAIN uses = Held
      /\ \A v \in Vals : i \in ToSet(users[v]) <=> v = w
      /\ \A x \in Users : i \notin ToSet(operands[x])
      /\ remove_use(users[w], i) = Without(users[w], {i})
  BY DefinitionFacts, HeldFacts
<1>2. /\ users' = [users EXCEPT ![w] = remove_use(@, i)]
      /\ current_def' = [e \in DOMAIN current_def \ {d} |-> current_def[e]]
      /\ uses' = Retained(uses)
      /\ UNCHANGED <<alive, operands>>
  BY DEF erase_blk_def
<1>3. /\ users \in [Vals -> Seq(Uses)] /\ \A x \in Vals : IsInjective(users[x])
      /\ operands \in [Users -> Seq(Uses)] /\ \A x \in Users : IsInjective(operands[x])
  BY DEF IInv, TypeOK, ChainsAgree, UsersAgree, OperandsAgree
<1>4. {e \in DOMAIN current_def : current_def[e] \notin {i}} = DOMAIN current_def \ {d}
  BY DEF IInv, ChainsAgree, DefinitionsAgree, IsInjective
<1> HIDE DEF i, w
<1>5. /\ users' \in [Vals -> Seq(Uses)]
      /\ \A x \in Vals : ToSet(users'[x]) = ToSet(users[x]) \ {i} /\ IsInjective(users'[x])
  <2>1. /\ Without(users[w], {i}) \in Seq(Uses)
        /\ ToSet(Without(users[w], {i})) = ToSet(users[w]) \ {i}
        /\ IsInjective(Without(users[w], {i}))
    BY <1>1, <1>3, WithoutProperties
  <2> QED
    BY <1>1, <1>2, <1>3, <2>1
<1>6. Lose({i})
  BY <1>1, <1>2, <1>3, <1>4, <1>5 DEF Lose
<1>7. alive' = alive /\ alive \subseteq Vals /\ \A j \in Held : user(j) \in alive /\ usee(j) \in alive
  BY <1>1, <1>2 DEF IInv, TypeOK, ChainsAgree, UsesAreListed
<1> QED
  BY <1>6, <1>7, LoseAgrees

(* A new use takes the place of the definition there is, if there is one.  *)
LEMMA def_valAgrees ==
  ASSUME IInv, NEW x \in Variables, NEW b \in Users, NEW v \in Vals, def_val(x, b, v)
  PROVE  IInv'
<1> DEFINE d == <<x, b>>
           Old == IF d \in DOMAIN current_def THEN {current_def[d]} ELSE {}
           erased == IF d \in DOMAIN current_def
                     THEN [users EXCEPT ![usee(current_def[d])] = remove_use(@, current_def[d])]
                     ELSE users
<1>1. /\ DOMAIN uses = Held /\ Held \subseteq Uses
      /\ \A j \in Held : user(j) \in Users /\ usee(j) \in Vals
      /\ \A y \in Users : ToSet(operands[y]) \subseteq Held
      /\ \A y \in Vals : ToSet(users[y]) \subseteq Held
      /\ PureUses \subseteq Held
  BY HeldFacts
<1>2. PICK i \in Uses \ Held :
        /\ users' = [erased EXCEPT ![v] = Append(@, i)]
        /\ current_def' = With(current_def, d, i)
        /\ UNCHANGED <<alive, operands>>
        /\ uses' = Retained(With(uses, i, [user |-> b, usee |-> v]))
  BY <1>1 DEF def_val
<1>3. b \in alive /\ v \in alive
  BY DEF def_val
<1>4. /\ users \in [Vals -> Seq(Uses)] /\ \A y \in Vals : IsInjective(users[y])
      /\ DOMAIN current_def \subseteq Variables \X Users
      /\ current_def \in [DOMAIN current_def -> Uses]
      /\ \A e, f \in DOMAIN current_def : current_def[e] = current_def[f] => e = f
  BY DEF IInv, TypeOK, ChainsAgree, UsersAgree, DefinitionsAgree, IsInjective
<1>5. /\ erased \in [Vals -> Seq(Uses)]
      /\ \A y \in Vals : ToSet(erased[y]) = ToSet(users[y]) \ Old /\ IsInjective(erased[y])
  <2>1. CASE d \notin DOMAIN current_def
    BY <1>4, <2>1
  <2>2. CASE d \in DOMAIN current_def
    <3> DEFINE o == current_def[d]
    <3>1. /\ usee(o) \in Vals
          /\ \A y \in Vals : o \in ToSet(users[y]) <=> y = usee(o)
          /\ remove_use(users[usee(o)], o) = Without(users[usee(o)], {o})
      BY <2>2, DefinitionFacts
    <3>2. erased = [users EXCEPT ![usee(o)] = remove_use(@, o)] /\ Old = {o}
      BY <2>2
    <3> HIDE DEF o, erased, Old
    <3>3. /\ Without(users[usee(o)], {o}) \in Seq(Uses)
          /\ ToSet(Without(users[usee(o)], {o})) = ToSet(users[usee(o)]) \ {o}
          /\ IsInjective(Without(users[usee(o)], {o}))
      BY <1>4, <3>1, WithoutProperties
    <3> QED
      BY <1>4, <3>1, <3>2, <3>3
  <2> QED
    BY <2>1, <2>2
<1>6. Old \subseteq PureUses /\ i \notin PureUses
  BY <1>1, <1>2 DEF PureUses
<1>7. /\ DOMAIN current_def' = DOMAIN current_def \cup {d}
      /\ current_def'[d] = i
      /\ \A e \in DOMAIN current_def \ {d} : current_def'[e] = current_def[e]
      /\ current_def' = [e \in DOMAIN current_def \cup {d} |-> IF e = d THEN i ELSE current_def[e]]
  BY <1>2 DEF With
<1>8. PureUses' = (PureUses \ Old) \cup {i}
  <2> HIDE DEF d
  <2>1. \A e \in DOMAIN current_def \ {d} : current_def[e] \notin Old
    BY <1>4
  <2>2. PureUses \ Old \subseteq {current_def[e] : e \in DOMAIN current_def \ {d}}
    BY DEF PureUses
  <2>3. {current_def[e] : e \in DOMAIN current_def \ {d}} \subseteq PureUses \ Old
    BY <2>1 DEF PureUses
  <2>4. PureUses' = {current_def[e] : e \in DOMAIN current_def \ {d}} \cup {i}
    BY <1>7 DEF PureUses
  <2> QED
    BY <2>2, <2>3, <2>4
<1> HIDE DEF erased, Old
<1>9. /\ users' \in [Vals -> Seq(Uses)]
      /\ \A y \in Vals : /\ ToSet(users'[y]) = (ToSet(users[y]) \ Old) \cup (IF y = v THEN {i} ELSE {})
                         /\ IsInjective(users'[y])
  <2>1. i \notin ToSet(erased[v])
    BY <1>1, <1>2, <1>5
  <2>2. /\ Append(erased[v], i) \in Seq(Uses)
        /\ ToSet(Append(erased[v], i)) = ToSet(erased[v]) \cup {i}
        /\ IsInjective(Append(erased[v], i))
    BY <1>2, <1>5, <2>1, AppendFacts
  <2> QED
    BY <1>2, <1>5, <2>2
<1>10. \A y \in Users : ToSet(operands[y]) \cap Old = {}
  <2>1. ASSUME NEW y \in Users, NEW o \in ToSet(operands[y]) \cap Old
        PROVE  FALSE
    <3>1. o \in Held /\ user(o) = y /\ o \in PureUses
      BY <1>1, <1>6, <2>1 DEF IInv, ChainsAgree, OperandsAgree
    <3> QED
      BY <1>1, <2>1, <3>1 DEF IInv, ChainsAgree, UsesAreListed
  <2> QED
    BY <2>1
<1>11. Held' = (Held \ Old) \cup {i}
  <2> DEFINE O == UNION {ToSet(operands[y]) : y \in Users}
             U == UNION {ToSet(users[y]) : y \in Vals}
             U1 == UNION {ToSet(users'[y]) : y \in Vals}
  <2>1. Held = O \cup U \cup PureUses
    BY DEF Held
  <2>2. Held' = O \cup U1 \cup PureUses'
    BY <1>2 DEF Held
  <2>3. O \cap Old = {}
    BY <1>10
  <2>4. U1 = (U \ Old) \cup {i}
    <3>1. U1 \subseteq (U \ Old) \cup {i}
      BY <1>9
    <3>2. (U \ Old) \cup {i} \subseteq U1
      BY <1>9
    <3> QED
      BY <3>1, <3>2
  <2> HIDE DEF O, U, U1
  <2> QED
    BY <1>8, <2>1, <2>2, <2>3, <2>4
<1>12. /\ DOMAIN uses' = (Held \ Old) \cup {i}
       /\ uses'[i] = [user |-> b, usee |-> v] /\ uses'[i].user = b /\ uses'[i].usee = v
       /\ \A j \in Held \ Old : uses'[j] = uses[j]
       /\ uses' = [j \in Held' |-> uses'[j]]
  <2>1. \A j \in Held : j # i
    BY <1>2
  <2>2. i \in Held' /\ Held \ Old \subseteq Held'
    BY <1>11
  <2> QED
    BY <1>1, <1>2, <1>11, <2>1, <2>2 DEF With, Retained
<1>13. TypeOK'
  <2>1. \A j \in Held' : uses'[j] \in [user : Users, usee : Vals]
    BY <1>1, <1>11, <1>12 DEF IInv, TypeOK
  <2>2. uses' \in [Held' -> [user : Users, usee : Vals]]
    BY <1>12, <2>1
  <2>3. /\ DOMAIN current_def' \subseteq Variables \X Users
        /\ current_def' \in [DOMAIN current_def' -> Uses]
    <3>1. d \in Variables \X Users
      OBVIOUS
    <3> HIDE DEF d
    <3>2. \A e \in DOMAIN current_def \cup {d} : (IF e = d THEN i ELSE current_def[e]) \in Uses
      BY <1>2, <1>4
    <3>3. DOMAIN current_def' \subseteq Variables \X Users
      BY <1>4, <1>7, <3>1
    <3> QED
      BY <1>7, <3>2, <3>3
  <2> QED
    BY <1>2, <1>9, <2>2, <2>3 DEF IInv, TypeOK
<1>14. UsesAreListed'
  <2> SUFFICES ASSUME NEW j \in (Held \ Old) \cup {i}
               PROVE  /\ uses'[j].user \in alive /\ uses'[j].usee \in alive
                      /\ j \in ToSet(users'[uses'[j].usee])
                      /\ j \in ToSet(operands[uses'[j].user]) <=> j \notin PureUses'
    BY <1>2, <1>12 DEF UsesAreListed, user, usee
  <2>1. CASE j = i
    <3>1. i \in ToSet(users'[v]) /\ i \notin ToSet(operands[b]) /\ i \in PureUses'
      BY <1>1, <1>2, <1>8, <1>9
    <3>2. uses'[j].user = b /\ uses'[j].usee = v
      BY <1>12, <2>1
    <3> QED
      BY <1>3, <2>1, <3>1, <3>2
  <2>2. CASE j \in Held \ Old
    <3>1. /\ uses[j].user \in alive /\ uses[j].usee \in alive
          /\ uses[j].user \in Users /\ uses[j].usee \in Vals
          /\ j \in ToSet(users[uses[j].usee])
          /\ j \in ToSet(operands[uses[j].user]) <=> j \notin PureUses
      BY <1>1, <2>2 DEF IInv, ChainsAgree, UsesAreListed, user, usee
    <3>2. uses'[j] = uses[j] /\ j # i
      BY <1>2, <1>12, <2>2
    <3>3. j \in ToSet(users'[uses[j].usee])
      BY <1>9, <2>2, <3>1
    <3>4. j \in PureUses' <=> j \in PureUses
      BY <1>8, <2>2, <3>2
    <3> QED
      BY <3>1, <3>2, <3>3, <3>4
  <2> QED
    BY <2>1, <2>2
<1>15. UsersAgree'
  <2> SUFFICES ASSUME NEW y \in Vals, NEW j \in ToSet(users'[y])
               PROVE  uses'[j].usee = y
    BY <1>9 DEF UsersAgree, usee
  <2>1. CASE j = i
    <3>1. i \notin ToSet(users[y])
      BY <1>1, <1>2
    <3>2. y = v
      BY <1>9, <2>1, <3>1
    <3> QED
      BY <1>12, <2>1, <3>2
  <2>2. CASE j # i
    <3>1. j \in ToSet(users[y]) /\ j \notin Old
      BY <1>9, <2>2
    <3> QED
      BY <1>1, <1>12, <3>1 DEF IInv, ChainsAgree, UsersAgree, usee
  <2> QED
    BY <2>1, <2>2
<1>16. OperandsAgree'
  <2> SUFFICES ASSUME NEW y \in Users, NEW j \in ToSet(operands[y])
               PROVE  uses'[j].user = y
    BY <1>2 DEF IInv, ChainsAgree, OperandsAgree, user
  <2>1. j \in Held \ Old
    BY <1>1, <1>10
  <2> QED
    BY <1>12, <2>1 DEF IInv, ChainsAgree, OperandsAgree, user
<1>17. DefinitionsAgree'
  <2>1. ASSUME NEW e \in DOMAIN current_def \ {d}
        PROVE  current_def'[e] = current_def[e] /\ current_def[e] \in Held \ Old
    <3> HIDE DEF d
    <3>1. current_def[e] \in Held
      BY <1>1 DEF PureUses
    <3>2. current_def[e] \notin Old
      BY <1>4 DEF Old
    <3> QED
      BY <1>7, <3>1, <3>2
  <2>2. current_def'[d] = i /\ uses'[i].user = b /\ d[2] = b
    BY <1>7, <1>12
  <2>3. ASSUME NEW e \in DOMAIN current_def'
        PROVE  uses'[current_def'[e]].user = e[2]
    <3>1. CASE e = d
      BY <2>2, <3>1
    <3>2. CASE e # d
      BY <1>7, <1>12, <2>1, <3>2 DEF IInv, ChainsAgree, DefinitionsAgree, user
    <3> QED
      BY <3>1, <3>2
  <2>4. ASSUME NEW e \in DOMAIN current_def', NEW f \in DOMAIN current_def',
               current_def'[e] = current_def'[f]
        PROVE  e = f
    <3> HIDE DEF d
    <3> QED
      BY <1>2, <1>4, <1>7, <2>1, <2>2, <2>4
  <2> QED
    BY <2>3, <2>4 DEF DefinitionsAgree, IsInjective, user
<1> QED
  BY <1>13, <1>14, <1>15, <1>16, <1>17 DEF IInv, ChainsAgree

LEMMA InitAgrees ==
  ASSUME Init
  PROVE  IInv
<1>1. <<>> \in Seq(Uses) /\ ToSet(<<>>) = {} /\ IsInjective(<<>>) /\ DOMAIN <<>> = {}
  BY DEF ToSet, IsInjective
<1>2. /\ \A u \in Users : operands[u] = <<>>
      /\ \A v \in Vals : users[v] = <<>>
      /\ PureUses = {}
  BY <1>1 DEF Init, PureUses
<1>3. Held = {}
  BY <1>1, <1>2 DEF Held
<1>4. TypeOK
  BY <1>1, <1>3 DEF Init, TypeOK
<1>5. ChainsAgree
  BY <1>1, <1>2 DEF Init, ChainsAgree, UsesAreListed, UsersAgree, OperandsAgree, DefinitionsAgree, IsInjective
<1> QED
  BY <1>4, <1>5 DEF IInv

LEMMA NextAgrees ==
  ASSUME IInv, [Next]_vars
  PROVE  IInv'
<1>1. ASSUME NEW v \in Vals, Construct(v)
      PROVE  IInv'
  BY <1>1, ConstructAgrees
<1>2. ASSUME NEW v \in Vals, Destruct(v)
      PROVE  IInv'
  BY <1>2, DestructAgrees
<1>3. ASSUME NEW v \in Vals, NEW w \in Vals, replace_self(v, w)
      PROVE  IInv'
  BY <1>3, replace_selfAgrees
<1>4. ASSUME NEW u \in Users, release_all_operands(u)
      PROVE  IInv'
  BY <1>4, release_all_operandsAgrees
<1>5. ASSUME NEW u \in Users, NEW v \in Vals, add_operand(u, v)
      PROVE  IInv'
  BY <1>5, add_operandAgrees
<1>6. ASSUME NEW u \in Users, NEW k \in DOMAIN operands[u], release_operand(u, k)
      PROVE  IInv'
  BY <1>6, release_operandAgrees
<1>7. ASSUME NEW u \in Users, NEW k \in DOMAIN operands[u], NEW v \in Vals, change_operand(u, k, v)
      PROVE  IInv'
  BY <1>7, change_operandAgrees
<1>8. ASSUME NEW x \in Variables, NEW b \in Users, NEW v \in Vals, def_val(x, b, v)
      PROVE  IInv'
  BY <1>8, def_valAgrees
<1>9. ASSUME NEW d \in DOMAIN current_def, erase_blk_def(d)
      PROVE  IInv'
  BY <1>9, erase_blk_defAgrees
<1>10. CASE UNCHANGED vars
  BY <1>10 DEF vars, IInv, TypeOK, ChainsAgree, UsesAreListed, UsersAgree, OperandsAgree,
     DefinitionsAgree, Held, PureUses, user, usee
<1> QED
  BY <1>1, <1>2, <1>3, <1>4, <1>5, <1>6, <1>7, <1>8, <1>9, <1>10 DEF Next

(* In every state both lists a use is in agree with it and with each other *)
(* (src/src/ir_val.cpp): it is once in the users of its usee and in no     *)
(* other, and it is once in the operands of its user and in no other, or   *)
(* it is the definition of one variable in the block that is its user.     *)
THEOREM ChainsAlwaysAgree == Spec => [](TypeOK /\ ChainsAgree)
<1>1. Init => IInv
  BY InitAgrees
<1>2. IInv /\ [Next]_vars => IInv'
  BY NextAgrees
<1> QED
  BY <1>1, <1>2, PTL DEF Spec, IInv
-----------------------------------------------------------------------------
LEMMA FunctionIsList ==
  ASSUME NEW S, NEW n \in Nat, NEW s \in [1..n -> S]
  PROVE  s \in Seq(S) /\ Len(s) = n
<1>1. s \in Seq(S)
  BY SeqDef
<1> QED
  BY <1>1, LenProperties

(* What the passes see of a state, and of the next one.                    *)
LEMMA ViewFacts ==
  ASSUME IInv
  PROVE  /\ Args \in [Users -> Seq(Vals)]
         /\ \A u \in Users :
              /\ Len(operands[u]) \in Nat /\ DOMAIN operands[u] = 1..Len(operands[u])
              /\ DOMAIN Args[u] = DOMAIN operands[u] /\ Len(Args[u]) = Len(operands[u])
              /\ \A k \in DOMAIN operands[u] :
                   /\ Args[u][k] = usee(operands[u][k])
                   /\ operands[u][k] \in Held /\ usee(operands[u][k]) \in Vals
         /\ DOMAIN Definitions = DOMAIN current_def
         /\ \A d \in DOMAIN current_def :
              Definitions[d] = usee(current_def[d]) /\ current_def[d] \in Held
<1>1. ASSUME NEW u \in Users
      PROVE  /\ Len(operands[u]) \in Nat /\ DOMAIN operands[u] = 1..Len(operands[u])
             /\ \A k \in DOMAIN operands[u] :
                  operands[u][k] \in Held /\ usee(operands[u][k]) \in Vals
  <2>1. operands[u] \in Seq(Uses)
    BY DEF IInv, TypeOK
  <2>2. \A k \in DOMAIN operands[u] : operands[u][k] \in ToSet(operands[u])
    BY DEF ToSet
  <2> QED
    BY <2>1, <2>2, LenProperties, HeldFacts
<1>2. ASSUME NEW u \in Users
      PROVE  /\ Args[u] = [k \in 1..Len(operands[u]) |-> usee(operands[u][k])]
             /\ Args[u] \in [1..Len(operands[u]) -> Vals]
  BY <1>1 DEF Args
<1>3. ASSUME NEW u \in Users
      PROVE  Args[u] \in Seq(Vals) /\ Len(Args[u]) = Len(operands[u])
  <2>1. Len(operands[u]) \in Nat /\ Args[u] \in [1..Len(operands[u]) -> Vals]
    BY <1>1, <1>2
  <2> QED
    BY <2>1, FunctionIsList
<1>4. \A d \in DOMAIN current_def : current_def[d] \in Held
  BY HeldFacts DEF PureUses
<1>5. Args \in [Users -> Seq(Vals)]
  BY <1>3 DEF Args
<1> QED
  BY <1>1, <1>2, <1>3, <1>4, <1>5 DEF Definitions

(* Where the uses that are left have not changed, only the lists have.     *)
LEMMA RetainedViews ==
  ASSUME uses' = Retained(uses)
  PROVE  /\ Args' = [u \in Users |-> [k \in DOMAIN operands'[u] |-> usee(operands'[u][k])]]
         /\ Definitions' = [d \in DOMAIN current_def' |-> usee(current_def'[d])]
<1>1. \A i \in Held' : uses'[i] = uses[i]
  BY DEF Retained
<1>2. \A u \in Users : \A k \in DOMAIN operands'[u] : operands'[u][k] \in Held'
  BY DEF Held, ToSet
<1>3. \A d \in DOMAIN current_def' : current_def'[d] \in Held'
  BY DEF Held, PureUses
<1>4. \A u \in Users : [k \in DOMAIN operands'[u] |-> uses'[operands'[u][k]].usee]
                       = [k \in DOMAIN operands'[u] |-> uses[operands'[u][k]].usee]
  BY <1>1, <1>2
<1> QED
  BY <1>1, <1>3, <1>4 DEF Args, Definitions, usee

(* The lists that change, and those that do not.                           *)
LEMMA ArgsBut ==
  ASSUME IInv, NEW u \in Users
  PROVE  \A new : [Args EXCEPT ![u] = new] = [x \in Users |-> IF x = u THEN new ELSE Args[x]]
BY ViewFacts

LEMMA ConstructIsSeen ==
  ASSUME IInv, NEW v \in Vals, Construct(v)
  PROVE  Lists!Next
<1>1. Args' = Args /\ Definitions' = Definitions
  BY DEF Construct, Args, Definitions, usee
<1> QED
  BY <1>1 DEF Construct, Lists!Next, Lists!Create

LEMMA release_all_operandsIsSeen ==
  ASSUME IInv, NEW u \in Users, release_all_operands(u)
  PROVE  Lists!Next
<1>1. operands' = [operands EXCEPT ![u] = <<>>] /\ uses' = Retained(uses)
      /\ UNCHANGED <<alive, current_def>>
  BY DEF release_all_operands
<1>2. operands \in [Users -> Seq(Uses)]
  BY DEF IInv, TypeOK
<1>3. Definitions' = Definitions
  BY <1>1, RetainedViews DEF Definitions
<1>4. Args' = [Args EXCEPT ![u] = <<>>]
  <2>1. \A x \in Users : operands'[x] = IF x = u THEN <<>> ELSE operands[x]
    BY <1>1, <1>2
  <2>2. [k \in DOMAIN <<>> |-> usee(<<>>[k])] = <<>>
    OBVIOUS
  <2>3. \A x \in Users : [k \in DOMAIN operands'[x] |-> usee(operands'[x][k])]
                         = IF x = u THEN <<>> ELSE Args[x]
    BY <2>1, <2>2 DEF Args
  <2>4. Args' = [x \in Users |-> IF x = u THEN <<>> ELSE Args[x]]
    <3>1. Args' = [x \in Users |-> [k \in DOMAIN operands'[x] |-> usee(operands'[x][k])]]
      BY <1>1, RetainedViews
    <3> QED
      BY <2>3, <3>1
  <2> QED
    BY <2>4, ArgsBut
<1> QED
  BY <1>1, <1>3, <1>4 DEF Lists!Next, Lists!Clear

LEMMA release_operandIsSeen ==
  ASSUME IInv, NEW u \in Users, NEW k \in DOMAIN operands[u], release_operand(u, k)
  PROVE  Lists!Next
<1> DEFINE K == DOMAIN operands[u] \ {k}
<1>1. operands' = [operands EXCEPT ![u] = Lists!Kept(@, K)] /\ uses' = Retained(uses)
      /\ UNCHANGED <<alive, current_def>>
  BY DEF release_operand
<1>2. operands \in [Users -> Seq(Uses)]
  BY DEF IInv, TypeOK
<1>3. Definitions' = Definitions
  BY <1>1, RetainedViews DEF Definitions
<1>4. Args[u] \in Seq(Vals) /\ K \in SUBSET DOMAIN Args[u] /\ DOMAIN Args[u] = DOMAIN operands[u]
      /\ \A j \in DOMAIN operands[u] : Args[u][j] = usee(operands[u][j])
  BY ViewFacts
<1>5. Lists!Kept(Args[u], K) = [m \in DOMAIN Lists!Kept(operands[u], K) |-> usee(Lists!Kept(operands[u], K)[m])]
  <2>1. /\ DOMAIN Lists!Kept(operands[u], K) = 1..Cardinality(K)
        /\ \A m \in 1..Cardinality(K) :
             Lists!Nth(K, m) \in K /\ Lists!Kept(operands[u], K)[m] = operands[u][Lists!Nth(K, m)]
    BY <1>2, KeptProperties
  <2>2. Lists!Kept(Args[u], K) = [m \in 1..Cardinality(K) |-> Args[u][Lists!Nth(K, m)]]
    BY SameCardinality DEF Lists!Kept
  <2> QED
    BY <1>4, <2>1, <2>2
<1>6. Args' = [Args EXCEPT ![u] = Lists!Kept(@, DOMAIN @ \ {k})]
  <2> HIDE DEF K
  <2>1. \A x \in Users : operands'[x] = IF x = u THEN Lists!Kept(operands[u], K) ELSE operands[x]
    BY <1>1, <1>2
  <2>2. \A x \in Users : [j \in DOMAIN operands[x] |-> usee(operands[x][j])] = Args[x]
    BY DEF Args
  <2>3. \A x \in Users : [j \in DOMAIN operands'[x] |-> usee(operands'[x][j])]
                         = IF x = u THEN Lists!Kept(Args[u], K) ELSE Args[x]
    BY <1>5, <2>1, <2>2
  <2>4. K = DOMAIN Args[u] \ {k}
    BY <1>4 DEF K
  <2>5. Args' = [x \in Users |-> IF x = u THEN Lists!Kept(Args[u], K) ELSE Args[x]]
    <3>1. Args' = [x \in Users |-> [j \in DOMAIN operands'[x] |-> usee(operands'[x][j])]]
      BY <1>1, RetainedViews
    <3> QED
      BY <2>3, <3>1
  <2> QED
    BY <2>4, <2>5, ArgsBut
<1>7. k \in DOMAIN Args[u]
  BY <1>4
<1> QED
  BY <1>1, <1>3, <1>6, <1>7 DEF Lists!Next, Lists!Remove

LEMMA add_operandIsSeen ==
  ASSUME IInv, NEW u \in Users, NEW v \in Vals, add_operand(u, v)
  PROVE  Lists!Next
<1>1. DOMAIN uses = Held /\ u \in alive /\ v \in alive
  BY HeldFacts DEF add_operand
<1>2. PICK i \in Uses \ Held :
        /\ operands' = [operands EXCEPT ![u] = Append(@, i)]
        /\ uses' = With(uses, i, [user |-> u, usee |-> v])
        /\ UNCHANGED <<alive, current_def>>
  BY <1>1 DEF add_operand
<1>3. /\ uses'[i].usee = v
      /\ \A j \in Held : uses'[j] = uses[j]
  BY <1>1, <1>2 DEF With
<1>4. operands \in [Users -> Seq(Uses)]
  BY DEF IInv, TypeOK
<1>5. Definitions' = Definitions
  BY <1>2, <1>3, ViewFacts DEF Definitions, usee
<1>6. ASSUME NEW x \in Users, x # u
      PROVE  [k \in DOMAIN operands'[x] |-> uses'[operands'[x][k]].usee] = Args[x]
  <2>1. operands'[x] = operands[x]
    BY <1>2, <1>4, <1>6
  <2>2. \A k \in DOMAIN operands[x] : uses'[operands[x][k]].usee = usee(operands[x][k])
    BY <1>3, ViewFacts DEF usee
  <2> QED
    BY <2>1, <2>2 DEF Args
<1>7. [k \in DOMAIN operands'[u] |-> uses'[operands'[u][k]].usee] = Append(Args[u], v)
  <2> DEFINE n == Len(operands[u])
  <2>1. operands'[u] = Append(operands[u], i)
    BY <1>2, <1>4
  <2>2. /\ n \in Nat /\ DOMAIN operands[u] = 1..n
        /\ DOMAIN operands'[u] = 1..(n + 1) /\ operands'[u][n + 1] = i
        /\ \A k \in 1..n : operands'[u][k] = operands[u][k]
    BY <1>4, <2>1, LenProperties, AppendProperties
  <2>3. /\ Args[u] \in Seq(Vals) /\ Len(Args[u]) = n
        /\ \A k \in 1..n : Args[u][k] = uses'[operands[u][k]].usee
    BY <1>3, <2>2, ViewFacts DEF usee
  <2> HIDE DEF n
  <2>4. /\ Append(Args[u], v) = [k \in 1..(n + 1) |-> Append(Args[u], v)[k]]
        /\ Append(Args[u], v)[n + 1] = v
        /\ \A k \in 1..n : Append(Args[u], v)[k] = Args[u][k]
    <3>1. /\ Append(Args[u], v) \in Seq(Vals) /\ Len(Append(Args[u], v)) = n + 1
          /\ Append(Args[u], v)[n + 1] = v
          /\ \A k \in 1..n : Append(Args[u], v)[k] = Args[u][k]
      BY <2>2, <2>3, AppendProperties
    <3>2. Append(Args[u], v) \in [1..(n + 1) -> Vals]
      BY <3>1, LenProperties
    <3>3. Append(Args[u], v) = [k \in 1..(n + 1) |-> Append(Args[u], v)[k]]
      BY <3>2
    <3> QED
      BY <3>1, <3>3
  <2>5. \A k \in 1..(n + 1) : uses'[operands'[u][k]].usee = Append(Args[u], v)[k]
    <3>1. \A k \in 1..(n + 1) : k = n + 1 \/ k \in 1..n
      BY <2>2
    <3> QED
      BY <1>3, <2>2, <2>3, <2>4, <3>1
  <2> QED
    BY <2>2, <2>4, <2>5
<1>8. Args' = [Args EXCEPT ![u] = Append(@, v)]
  <2>1. Args' = [x \in Users |-> [k \in DOMAIN operands'[x] |-> uses'[operands'[x][k]].usee]]
    BY DEF Args, usee
  <2>2. Args' = [x \in Users |-> IF x = u THEN Append(Args[u], v) ELSE Args[x]]
    BY <1>6, <1>7, <2>1
  <2> QED
    BY <2>2, ArgsBut
<1> QED
  BY <1>1, <1>2, <1>5, <1>8 DEF Lists!Next, Lists!Add

LEMMA change_operandIsSeen ==
  ASSUME IInv, NEW u \in Users, NEW k \in DOMAIN operands[u], NEW v \in Vals,
         change_operand(u, k, v)
  PROVE  Lists!Next
<1> DEFINE i == operands[u][k]
<1>1. /\ i \in Held /\ i \notin PureUses /\ DOMAIN uses = Held
      /\ \A x \in Users : i \in ToSet(operands[x]) <=> x = u
      /\ \A j \in DOMAIN operands[u] : operands[u][j] = i => j = k
  BY OperandFacts, HeldFacts DEF IInv, ChainsAgree, OperandsAgree, IsInjective
<1>2. v \in alive /\ uses' = [uses EXCEPT ![i].usee = v] /\ UNCHANGED <<alive, operands, current_def>>
  BY DEF change_operand
<1> HIDE DEF i
<1>3. \A j \in Held : uses'[j].usee = IF j = i THEN v ELSE usee(j)
  <2>1. uses[i] \in [user : Users, usee : Vals]
    BY <1>1 DEF IInv, TypeOK
  <2> QED
    BY <1>1, <1>2, <2>1 DEF usee
<1>4. Definitions' = Definitions
  <2>1. \A d \in DOMAIN current_def : current_def[d] \in Held /\ current_def[d] # i
    BY <1>1, HeldFacts DEF PureUses
  <2> QED
    BY <1>2, <1>3, <2>1 DEF Definitions, usee
<1>5. ASSUME NEW x \in Users, x # u
      PROVE  [j \in DOMAIN operands[x] |-> uses'[operands[x][j]].usee] = Args[x]
  <2>1. \A j \in DOMAIN operands[x] : operands[x][j] \in Held /\ operands[x][j] # i
    BY <1>1, <1>5, ViewFacts DEF ToSet
  <2>2. \A j \in DOMAIN operands[x] : uses'[operands[x][j]].usee = usee(operands[x][j])
    BY <1>3, <2>1
  <2> QED
    BY <2>2 DEF Args
<1>6. [j \in DOMAIN operands[u] |-> uses'[operands[u][j]].usee] = [Args[u] EXCEPT ![k] = v]
  <2>1. \A j \in DOMAIN operands[u] :
          uses'[operands[u][j]].usee = IF j = k THEN v ELSE usee(operands[u][j])
    BY <1>1, <1>3, ViewFacts DEF i
  <2>2. Args[u] = [j \in DOMAIN operands[u] |-> usee(operands[u][j])]
    BY DEF Args
  <2> QED
    BY <2>1, <2>2
<1>7. Args' = [Args EXCEPT ![u][k] = v]
  <2>1. Args' = [x \in Users |-> [j \in DOMAIN operands[x] |-> uses'[operands[x][j]].usee]]
    BY <1>2 DEF Args, usee
  <2>2. Args' = [x \in Users |-> IF x = u THEN [Args[u] EXCEPT ![k] = v] ELSE Args[x]]
    BY <1>5, <1>6, <2>1
  <2> QED
    BY <2>2, ArgsBut
<1>8. k \in DOMAIN Args[u]
  BY ViewFacts
<1> QED
  BY <1>2, <1>4, <1>7, <1>8 DEF Lists!Next, Lists!Change

LEMMA replace_selfIsSeen ==
  ASSUME IInv, NEW v \in Vals, NEW w \in Vals, replace_self(v, w)
  PROVE  Lists!Next
<1>1. /\ v \in alive /\ w \in alive /\ UNCHANGED <<alive, operands, current_def>>
      /\ uses' = [i \in DOMAIN uses |->
                    IF i \in ToSet(users[v]) THEN [uses[i] EXCEPT !.usee = w] ELSE uses[i]]
  BY DEF replace_self
<1>2. ASSUME NEW i \in Held
      PROVE  uses'[i].usee = IF usee(i) = v THEN w ELSE usee(i)
  <2>1. i \in DOMAIN uses /\ uses[i] \in [user : Users, usee : Vals]
    BY HeldFacts DEF IInv, TypeOK
  <2>2. i \in ToSet(users[v]) <=> usee(i) = v
    BY <2>1 DEF IInv, ChainsAgree, UsesAreListed, UsersAgree
  <2> QED
    BY <1>1, <2>1, <2>2 DEF usee
<1>3. Definitions' = Lists!Substituted(Definitions, v, w)
  <2>1. \A d \in DOMAIN current_def : uses'[current_def[d]].usee = IF Definitions[d] = v THEN w ELSE Definitions[d]
    BY <1>2, ViewFacts
  <2>2. Definitions' = [d \in DOMAIN current_def |-> uses'[current_def[d]].usee]
    BY <1>1 DEF Definitions, usee
  <2> QED
    BY <2>1, <2>2, ViewFacts DEF Lists!Substituted
<1>4. ASSUME NEW u \in Users
      PROVE  [k \in DOMAIN operands[u] |-> uses'[operands[u][k]].usee] = Lists!Substituted(Args[u], v, w)
  <2>1. /\ DOMAIN Args[u] = DOMAIN operands[u]
        /\ \A k \in DOMAIN operands[u] : uses'[operands[u][k]].usee = IF Args[u][k] = v THEN w ELSE Args[u][k]
    BY <1>2, ViewFacts
  <2> QED
    BY <2>1 DEF Lists!Substituted
<1>5. Args' = [u \in Users |-> Lists!Substituted(Args[u], v, w)]
  <2>1. Args' = [u \in Users |-> [k \in DOMAIN operands[u] |-> uses'[operands[u][k]].usee]]
    BY <1>1 DEF Args, usee
  <2> QED
    BY <1>4, <2>1
<1> QED
  BY <1>1, <1>3, <1>5 DEF Lists!Next, Lists!Replace

LEMMA erase_blk_defIsSeen ==
  ASSUME IInv, NEW d \in DOMAIN current_def, erase_blk_def(d)
  PROVE  Lists!Next
<1>1. /\ UNCHANGED <<alive, operands>> /\ uses' = Retained(uses)
      /\ current_def' = [e \in DOMAIN current_def \ {d} |-> current_def[e]]
  BY DEF erase_blk_def
<1>2. Args' = Args
  <2>1. Args' = [u \in Users |-> [k \in DOMAIN operands[u] |-> usee(operands[u][k])]]
    BY <1>1, RetainedViews
  <2> QED
    BY <2>1 DEF Args
<1>3. Definitions' = [e \in DOMAIN Definitions \ {d} |-> Definitions[e]]
  <2>1. Definitions' = [e \in DOMAIN current_def' |-> usee(current_def'[e])]
    BY <1>1, RetainedViews
  <2> QED
    BY <1>1, <2>1, ViewFacts
<1>4. d \in DOMAIN Definitions
  BY ViewFacts
<1> QED
  BY <1>1, <1>2, <1>3, <1>4 DEF Lists!Next, Lists!Forget

LEMMA def_valIsSeen ==
  ASSUME IInv, NEW x \in Variables, NEW b \in Users, NEW v \in Vals, def_val(x, b, v)
  PROVE  Lists!Next
<1> DEFINE d == <<x, b>>
<1>1. DOMAIN uses = Held /\ b \in alive /\ v \in alive
  BY HeldFacts DEF def_val
<1>2. PICK i \in Uses \ Held :
        /\ current_def' = With(current_def, d, i)
        /\ UNCHANGED <<alive, operands>>
        /\ uses' = Retained(With(uses, i, [user |-> b, usee |-> v]))
  BY <1>1 DEF def_val
<1> HIDE DEF d
<1>3. /\ \A j \in Held : j \in Held' => uses'[j].usee = usee(j)
      /\ i \in Held' => uses'[i].usee = v
  <2>1. \A j \in Held' : uses'[j] = With(uses, i, [user |-> b, usee |-> v])[j]
    BY <1>2 DEF Retained
  <2>2. \A j \in Held : With(uses, i, [user |-> b, usee |-> v])[j] = uses[j]
    BY <1>1, <1>2 DEF With
  <2>3. With(uses, i, [user |-> b, usee |-> v])[i].usee = v
    BY DEF With
  <2> QED
    BY <2>1, <2>2, <2>3 DEF usee
<1>4. Args' = Args
  <2>1. ASSUME NEW u \in Users, NEW k \in DOMAIN operands[u]
        PROVE  uses'[operands[u][k]].usee = usee(operands[u][k])
    <3>1. operands'[u][k] \in Held'
      BY <1>2 DEF Held, ToSet
    <3> QED
      BY <1>2, <1>3, <3>1, ViewFacts
  <2>2. Args' = [u \in Users |-> [k \in DOMAIN operands[u] |-> uses'[operands[u][k]].usee]]
    BY <1>2 DEF Args, usee
  <2>3. \A u \in Users : [k \in DOMAIN operands[u] |-> uses'[operands[u][k]].usee]
                         = [k \in DOMAIN operands[u] |-> usee(operands[u][k])]
    BY <2>1
  <2> QED
    BY <2>2, <2>3 DEF Args
<1>5. Definitions' = [e \in DOMAIN Definitions \cup {d} |-> IF e = d THEN v ELSE Definitions[e]]
  <2>1. /\ DOMAIN current_def' = DOMAIN current_def \cup {d}
        /\ \A e \in DOMAIN current_def' : current_def'[e] = IF e = d THEN i ELSE current_def[e]
        /\ \A e \in DOMAIN current_def' : current_def'[e] \in Held'
    BY <1>2 DEF With, Held, PureUses
  <2>2. \A e \in DOMAIN current_def' : uses'[current_def'[e]].usee = IF e = d THEN v ELSE Definitions[e]
    BY <1>3, <2>1, ViewFacts
  <2>3. Definitions' = [e \in DOMAIN current_def' |-> uses'[current_def'[e]].usee]
    BY DEF Definitions, usee
  <2>4. DOMAIN Definitions = DOMAIN current_def
    BY ViewFacts
  <2> QED
    BY <2>1, <2>2, <2>3, <2>4
<1> QED
  BY <1>1, <1>2, <1>4, <1>5 DEF Lists!Next, Lists!Define, d

(* Each operand of u leaves, for u = v all of them, and no list of v stays.*)
LEMMA DestructIsSeen ==
  ASSUME IInv, NEW v \in Vals, Destruct(v)
  PROVE  Lists!Next
<1> DEFINE own == IF v \in Users THEN ToSet(operands[v]) ELSE {}
           operands1 == [u \in Users |-> IF u = v THEN <<>> ELSE operands[u]]
           users1 == IF v \in Users THEN Released(v) ELSE users
           left == ToSet(users1[v])
<1>1. /\ v \in alive /\ \A i \in PureUses : v # user(i) /\ v # usee(i)
      /\ operands' = [u \in Users |-> Without(operands1[u], {i \in left : user(i) = u})]
      /\ alive' = alive \ {v} /\ current_def' = current_def /\ uses' = Retained(uses)
  BY DEF Destruct
<1>2. left = ToSet(users[v]) \ own
  <2>1. CASE v \in Users
    BY <2>1, ReleasedFacts
  <2>2. CASE v \notin Users
    BY <2>2
  <2> QED
    BY <2>1, <2>2
<1> HIDE DEF users1, left
<1>3. Definitions' = Definitions
  <2>1. Definitions' = [d \in DOMAIN current_def |-> usee(current_def[d])]
    BY <1>1, RetainedViews
  <2> QED
    BY <2>1 DEF Definitions
<1>4. ASSUME NEW d \in DOMAIN Definitions
      PROVE  Definitions[d] # v /\ d[2] # v
  <2>1. /\ d \in DOMAIN current_def /\ Definitions[d] = usee(current_def[d])
        /\ user(current_def[d]) = d[2]
    BY ViewFacts DEF IInv, ChainsAgree, DefinitionsAgree
  <2>2. current_def[d] \in PureUses
    BY <2>1 DEF PureUses
  <2> QED
    BY <1>1, <2>1, <2>2
<1>5. ASSUME NEW u \in Users, u # v
      PROVE  [k \in DOMAIN operands'[u] |-> usee(operands'[u][k])]
             = Lists!Kept(Args[u], {k \in DOMAIN Args[u] : Args[u][k] # v})
  <2> DEFINE K == {k \in DOMAIN Args[u] : Args[u][k] # v}
  <2>1. /\ operands[u] \in Seq(Uses)
        /\ \A i \in ToSet(operands[u]) : user(i) = u /\ (i \in ToSet(users[v]) <=> usee(i) = v)
    <3>1. operands[u] \in Seq(Uses) /\ \A i \in ToSet(operands[u]) : user(i) = u
      BY DEF IInv, TypeOK, ChainsAgree, OperandsAgree
    <3>2. \A i \in ToSet(operands[u]) : i \in DOMAIN uses
      BY HeldFacts
    <3> QED
      BY <3>1, <3>2 DEF IInv, ChainsAgree, UsesAreListed, UsersAgree
  <2>2. own \cap ToSet(operands[u]) = {}
    BY <1>5, <2>1 DEF IInv, ChainsAgree, OperandsAgree
  <2>3. /\ DOMAIN Args[u] = DOMAIN operands[u]
        /\ \A k \in DOMAIN operands[u] : Args[u][k] = usee(operands[u][k])
    BY ViewFacts
  <2>4. ASSUME NEW k \in DOMAIN operands[u]
        PROVE  operands[u][k] \notin {i \in left : user(i) = u} <=> Args[u][k] # v
    <3>1. operands[u][k] \in ToSet(operands[u])
      BY DEF ToSet
    <3> QED
      BY <1>2, <2>1, <2>2, <2>3, <3>1
  <2>5. operands'[u] = Lists!Kept(operands[u], K)
    <3>1. operands'[u] = Without(operands[u], {i \in left : user(i) = u})
      BY <1>1, <1>5
    <3>2. {k \in DOMAIN operands[u] : operands[u][k] \notin {i \in left : user(i) = u}} = K
      BY <2>3, <2>4
    <3> QED
      BY <3>1, <3>2 DEF Without
  <2>6. K \in SUBSET DOMAIN operands[u]
    BY <2>3
  <2> HIDE DEF K
  <2>7. /\ DOMAIN operands'[u] = 1..Cardinality(K)
        /\ \A m \in 1..Cardinality(K) :
             Lists!Nth(K, m) \in K /\ operands'[u][m] = operands[u][Lists!Nth(K, m)]
    BY <2>1, <2>5, <2>6, KeptProperties
  <2>8. Lists!Kept(Args[u], K) = [m \in 1..Cardinality(K) |-> Args[u][Lists!Nth(K, m)]]
    BY SameCardinality DEF Lists!Kept
  <2>9. \A m \in 1..Cardinality(K) : usee(operands'[u][m]) = Args[u][Lists!Nth(K, m)]
    BY <2>3, <2>6, <2>7
  <2>10. [k \in DOMAIN operands'[u] |-> usee(operands'[u][k])] = Lists!Kept(Args[u], K)
    BY <2>7, <2>8, <2>9
  <2> QED
    BY <2>10 DEF K
<1>6. ASSUME v \in Users
      PROVE  [k \in DOMAIN operands'[v] |-> usee(operands'[v][k])] = <<>>
  <2>1. operands'[v] = Without(<<>>, {i \in left : user(i) = v})
    BY <1>1, <1>6
  <2>2. operands'[v] = <<>>
    BY <2>1, NothingIsLeft
  <2>3. [k \in DOMAIN <<>> |-> usee(<<>>[k])] = <<>>
    OBVIOUS
  <2> QED
    BY <2>2, <2>3
<1>7. Args' = [u \in Users |->
                 IF u = v THEN <<>> ELSE Lists!Kept(Args[u], {k \in DOMAIN Args[u] : Args[u][k] # v})]
  <2>1. Args' = [u \in Users |-> [k \in DOMAIN operands'[u] |-> usee(operands'[u][k])]]
    BY <1>1, RetainedViews
  <2>2. \A u \in Users : [k \in DOMAIN operands'[u] |-> usee(operands'[u][k])]
          = IF u = v THEN <<>> ELSE Lists!Kept(Args[u], {k \in DOMAIN Args[u] : Args[u][k] # v})
    BY <1>5, <1>6
  <2> QED
    BY <2>1, <2>2
<1> QED
  BY <1>1, <1>3, <1>4, <1>7 DEF Lists!Next, Lists!Destroy

LEMMA InitIsSeen ==
  ASSUME Init
  PROVE  Lists!Init
<1>1. Args = [u \in Users |-> <<>>]
  <2>1. \A u \in Users : [k \in DOMAIN operands[u] |-> usee(operands[u][k])] = <<>>
    BY DEF Init
  <2> QED
    BY <2>1 DEF Args
<1>2. Definitions = <<>>
  BY DEF Init, Definitions
<1> QED
  BY <1>1, <1>2 DEF Init, Lists!Init

LEMMA NextIsSeen ==
  ASSUME IInv, [Next]_vars
  PROVE  [Lists!Next]_Lists!vars
<1>1. ASSUME NEW v \in Vals, Construct(v)
      PROVE  Lists!Next
  BY <1>1, ConstructIsSeen
<1>2. ASSUME NEW v \in Vals, Destruct(v)
      PROVE  Lists!Next
  BY <1>2, DestructIsSeen
<1>3. ASSUME NEW v \in Vals, NEW w \in Vals, replace_self(v, w)
      PROVE  Lists!Next
  BY <1>3, replace_selfIsSeen
<1>4. ASSUME NEW u \in Users, release_all_operands(u)
      PROVE  Lists!Next
  BY <1>4, release_all_operandsIsSeen
<1>5. ASSUME NEW u \in Users, NEW v \in Vals, add_operand(u, v)
      PROVE  Lists!Next
  BY <1>5, add_operandIsSeen
<1>6. ASSUME NEW u \in Users, NEW k \in DOMAIN operands[u], release_operand(u, k)
      PROVE  Lists!Next
  BY <1>6, release_operandIsSeen
<1>7. ASSUME NEW u \in Users, NEW k \in DOMAIN operands[u], NEW v \in Vals, change_operand(u, k, v)
      PROVE  Lists!Next
  BY <1>7, change_operandIsSeen
<1>8. ASSUME NEW x \in Variables, NEW b \in Users, NEW v \in Vals, def_val(x, b, v)
      PROVE  Lists!Next
  BY <1>8, def_valIsSeen
<1>9. ASSUME NEW d \in DOMAIN current_def, erase_blk_def(d)
      PROVE  Lists!Next
  BY <1>9, erase_blk_defIsSeen
<1>10. CASE UNCHANGED vars
  <2>1. Args' = Args /\ Definitions' = Definitions /\ alive' = alive
    BY <1>10 DEF vars, Args, Definitions, usee
  <2> QED
    BY <2>1 DEF Lists!vars
<1> QED
  BY <1>1, <1>2, <1>3, <1>4, <1>5, <1>6, <1>7, <1>8, <1>9, <1>10 DEF Next

(* The use-def chains implement the operand lists the passes reckon with   *)
(* (src/src/ir_val.cpp): by way of the users of a value, replacing or      *)
(* destroying it reaches every place that has it, and none that has not.   *)
THEOREM ChainsAreLists == Spec => ListsAreSeen
<1>1. Init => IInv /\ Lists!Init
  BY InitAgrees, InitIsSeen
<1>2. IInv /\ [Next]_vars => IInv'
  BY NextAgrees
<1>3. IInv /\ [Next]_vars => [Lists!Next]_Lists!vars
  BY NextIsSeen
<1> QED
  BY <1>1, <1>2, <1>3, PTL DEF Spec, ListsAreSeen, Lists!Spec
-----------------------------------------------------------------------------
LEMMA SameSize ==
  ASSUME NEW S, NEW T, IsFiniteSet(T), NEW f \in [S -> T],
         \A x, y \in S : f[x] = f[y] => x = y,
         \A z \in T : \E x \in S : f[x] = z
  PROVE  IsFiniteSet(S) /\ Cardinality(S) = Cardinality(T)
<1>1. f \in Injection(S, T) /\ f \in Surjection(S, T)
  BY DEF Injection, Surjection, IsInjective
<1> QED
  BY <1>1, FS_Injection

LEMMA ListIsCounted ==
  ASSUME NEW S, NEW s \in Seq(S), IsInjective(s)
  PROVE  IsFiniteSet(ToSet(s)) /\ Cardinality(ToSet(s)) = Len(s)
<1>1. Len(s) \in Nat /\ DOMAIN s = 1..Len(s) /\ s \in [1..Len(s) -> ToSet(s)]
  BY LenProperties DEF ToSet
<1>2. IsFiniteSet(1..Len(s)) /\ Cardinality(1..Len(s)) = Len(s)
  <2>1. \A n \in Nat : IsFiniteSet(1..n) /\ Cardinality(1..n) = n
    <3> SUFFICES ASSUME NEW n \in Nat
                 PROVE  IsFiniteSet(1..n) /\ Cardinality(1..n) = n
      OBVIOUS
    <3>1. n \in Int /\ (1 > n => n = 0) /\ n - 1 + 1 = n
      OBVIOUS
    <3>2. IsFiniteSet(1..n) /\ Cardinality(1..n) = IF 1 > n THEN 0 ELSE n - 1 + 1
      BY FS_Interval
    <3> QED
      BY <3>1, <3>2
  <2> QED
    BY <1>1, <2>1
<1>3. s \in Surjection(1..Len(s), ToSet(s)) /\ s \in Injection(1..Len(s), ToSet(s))
  BY <1>1 DEF Surjection, Injection, ToSet
<1> QED
  BY <1>2, <1>3, FS_Surjection

LEMMA ChainsAreCounted ==
  ASSUME IInv
  PROVE  UsersAreCounted
<1> SUFFICES ASSUME NEW v \in Vals
             PROVE  Len(users[v]) = Cardinality(OperandsOf(v)) + Cardinality(DefinitionsOf(v))
  BY DEF UsersAreCounted
<1> DEFINE S == ToSet(users[v])
           f == [p \in OperandsOf(v) |-> operands[p[1]][p[2]]]
           g == [d \in DefinitionsOf(v) |-> current_def[d]]
<1>1. IsFiniteSet(S) /\ Cardinality(S) = Len(users[v])
  BY ListIsCounted DEF IInv, TypeOK, ChainsAgree, UsersAgree
<1>2. /\ IsFiniteSet(S \ PureUses) /\ IsFiniteSet(S \cap PureUses)
      /\ Cardinality(S \ PureUses) = Cardinality(S) - Cardinality(S \cap PureUses)
      /\ Cardinality(S) \in Nat /\ Cardinality(S \cap PureUses) \in Nat
  BY <1>1, FS_Difference, FS_Intersection, FS_CardinalityType
<1>3. \A i \in Held : i \in S <=> usee(i) = v
  BY HeldFacts DEF IInv, ChainsAgree, UsersAgree, UsesAreListed
<1> HIDE DEF S
<1>4. Cardinality(OperandsOf(v)) = Cardinality(S \ PureUses)
  <2>1. ASSUME NEW u \in Users, NEW k \in DOMAIN operands[u]
        PROVE  /\ operands[u][k] \in Held \ PureUses /\ user(operands[u][k]) = u
               /\ \A j \in DOMAIN operands[u] : operands[u][j] = operands[u][k] => j = k
    BY OperandFacts DEF IInv, ChainsAgree, OperandsAgree, IsInjective
  <2>2. OperandsOf(v) = UNION {{<<u, k>> : k \in {j \in DOMAIN operands[u] : usee(operands[u][j]) = v}} : u \in Users}
    <3>1. \A u \in Users : {j \in DOMAIN Args[u] : Args[u][j] = v}
                          = {j \in DOMAIN operands[u] : usee(operands[u][j]) = v}
      BY ViewFacts
    <3> QED
      BY <3>1 DEF OperandsOf
  <2>3. ASSUME NEW p \in OperandsOf(v)
        PROVE  /\ p[1] \in Users /\ p[2] \in DOMAIN operands[p[1]] /\ p = <<p[1], p[2]>>
               /\ operands[p[1]][p[2]] \in S \ PureUses
    BY <1>3, <2>1, <2>2
  <2>4. f \in [OperandsOf(v) -> S \ PureUses]
    BY <2>3
  <2>5. ASSUME NEW p \in OperandsOf(v), NEW q \in OperandsOf(v), f[p] = f[q]
        PROVE  p = q
    <3>1. operands[p[1]][p[2]] = operands[q[1]][q[2]]
      BY <2>5
    <3>2. p[1] = q[1]
      BY <2>1, <2>3, <3>1
    <3>3. p[2] = q[2]
      BY <2>1, <2>3, <3>1, <3>2
    <3> QED
      BY <2>3, <3>2, <3>3
  <2>6. ASSUME NEW i \in S \ PureUses
        PROVE  \E p \in OperandsOf(v) : f[p] = i
    <3>1. i \in Held
      BY HeldFacts DEF S
    <3>2. user(i) \in Users /\ i \in ToSet(operands[user(i)]) /\ usee(i) = v
      BY <1>3, <2>6, <3>1, HeldFacts DEF IInv, ChainsAgree, UsesAreListed
    <3>3. PICK k \in DOMAIN operands[user(i)] : operands[user(i)][k] = i
      BY <3>2 DEF ToSet
    <3>4. <<user(i), k>> \in OperandsOf(v)
      BY <2>2, <3>2, <3>3
    <3>5. f[<<user(i), k>>] = i
      BY <3>3, <3>4
    <3> QED
      BY <3>4, <3>5
  <2> HIDE DEF f
  <2> QED
    BY <1>2, <2>4, <2>5, <2>6, SameSize
<1>5. Cardinality(DefinitionsOf(v)) = Cardinality(S \cap PureUses)
  <2>1. ASSUME NEW d \in DOMAIN current_def
        PROVE  /\ d \in DefinitionsOf(v) <=> current_def[d] \in S
               /\ current_def[d] \in PureUses
    <3>1. Definitions[d] = usee(current_def[d]) /\ current_def[d] \in Held
          /\ DOMAIN Definitions = DOMAIN current_def
      BY ViewFacts
    <3> QED
      BY <1>3, <3>1 DEF DefinitionsOf, PureUses
  <2>2. DefinitionsOf(v) \subseteq DOMAIN current_def
    BY ViewFacts DEF DefinitionsOf
  <2>3. g \in [DefinitionsOf(v) -> S \cap PureUses]
    BY <2>1, <2>2
  <2>4. \A d, e \in DefinitionsOf(v) : g[d] = g[e] => d = e
    BY <2>2 DEF IInv, ChainsAgree, DefinitionsAgree, IsInjective
  <2>5. \A i \in S \cap PureUses : \E d \in DefinitionsOf(v) : g[d] = i
    BY <2>1 DEF PureUses
  <2> HIDE DEF g
  <2> QED
    BY <1>2, <2>3, <2>4, <2>5, SameSize
<1> QED
  BY <1>1, <1>2, <1>4, <1>5

(* A value has as many users as there are operands and definitions that    *)
(* are the value: where the passes ask for users().empty() or for          *)
(* users().size() == 1 nothing is missed, and nothing stands twice.        *)
THEOREM UsersAreAlwaysCounted == Spec => []UsersAreCounted
<1>1. IInv => UsersAreCounted
  BY ChainsAreCounted
<1> QED
  BY <1>1, ChainsAlwaysAgree, PTL DEF IInv
=============================================================================
