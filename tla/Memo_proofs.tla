---------------------------- MODULE Memo_proofs -----------------------------
(***************************************************************************)
(* Whatever the hash, the keys and the function: the cache holds values of *)
(* the function only, the registers are restored, and the rest of the      *)
(* program sees the function without a cache.                              *)
(*                                                                         *)
(* That an entry is sound when it is written depends on the whole          *)
(* recursion: the result is Fn of the activation's key because the results *)
(* it was made of are (Recursion), and it is entered under that key        *)
(* because every call in between restored the registers the key is made of *)
(* (RegistersRestored).                                                    *)
(***************************************************************************)
EXTENDS Memo, SequenceTheorems, TLAPS

(* Every activation was called by the one below it, after calls that       *)
(* returned the function's values.                                         *)
Recursion ==
  /\ stack # <<>> => stack[1].key = request
  /\ \A i \in DOMAIN stack : i > 1 =>
       stack[i].key = NextCall(stack[i - 1].key, stack[i - 1].results)
  /\ \A i \in DOMAIN stack : Agrees(stack[i].key, stack[i].results)

(* What is pending is a call wherever f_cached begins or has ended, and    *)
(* there its value is the function's.                                      *)
Control ==
  /\ at = "caller" <=> request = NoKey
  /\ at = "caller" => stack = <<>>
  /\ at = "f" => stack # <<>>
  /\ at \in {"f_cached", "return"} => Pending \in Keys
  /\ at = "return" => ret = Fn[Pending]

IInv == TypeOK /\ CacheIsSound /\ RegistersRestored /\ Recursion /\ Control
-----------------------------------------------------------------------------
(* A sequence without its last element is a shorter one.                   *)
LEMMA Pop ==
  ASSUME NEW S, NEW q \in Seq(S), q # <<>>
  PROVE  LET r == SubSeq(q, 1, Len(q) - 1)
         IN  /\ r \in Seq(S)
             /\ Len(r) = Len(q) - 1
             /\ DOMAIN r = 1..Len(q) - 1
             /\ \A i \in 1..Len(q) - 1 : r[i] = q[i]
             /\ Len(q) \in Nat \ {0}
             /\ DOMAIN q = 1..Len(q)
             /\ r = <<>> <=> Len(q) = 1
<1> DEFINE r == SubSeq(q, 1, Len(q) - 1)
<1>1. Len(q) \in Nat \ {0} /\ DOMAIN q = 1..Len(q)
  BY EmptySeq, LenProperties
<1>2. \A i \in 1..Len(q) - 1 : q[i] \in S
  BY <1>1, ElementOfSeq
<1>3. /\ r \in Seq(S)
      /\ Len(r) = Len(q) - 1
      /\ \A i \in 1..Len(q) - 1 : r[i] = q[i]
  BY <1>1, <1>2, SubSeqProperties
<1>4. DOMAIN r = 1..Len(q) - 1
  BY <1>3, LenProperties
<1> HIDE DEF r
<1>5. r # <<>> => Len(r) # 0
  BY <1>3, EmptySeq
<1>6. r = <<>> => Len(r) = 0
  BY EmptySeq
<1>7. r = <<>> <=> Len(q) = 1
  BY <1>1, <1>3, <1>5, <1>6
<1> QED
  BY <1>1, <1>3, <1>4, <1>7 DEF r

(* A sequence with one more element is a longer one.                       *)
LEMMA Push ==
  ASSUME NEW S, NEW q \in Seq(S), NEW e \in S
  PROVE  /\ Append(q, e) \in Seq(S)
         /\ Len(Append(q, e)) = Len(q) + 1
         /\ DOMAIN Append(q, e) = 1..Len(q) + 1
         /\ \A i \in 1..Len(q) : Append(q, e)[i] = q[i]
         /\ Append(q, e)[Len(q) + 1] = e
         /\ Append(q, e) # <<>>
         /\ Len(q) \in Nat
         /\ DOMAIN q = 1..Len(q)
         /\ q = <<>> <=> Len(q) = 0
  BY AppendProperties, LenProperties, EmptySeq

(* A sequence with another element in one place.                           *)
LEMMA Replace ==
  ASSUME NEW S, NEW q \in Seq(S), NEW i \in 1..Len(q), NEW e \in S
  PROVE  LET r == [q EXCEPT ![i] = e]
         IN  /\ r \in Seq(S)
             /\ Len(r) = Len(q)
             /\ DOMAIN r = 1..Len(q)
             /\ r[i] = e
             /\ \A j \in 1..Len(q) : j # i => r[j] = q[j]
             /\ Len(q) # 0 => r # <<>>
<1> DEFINE r == [q EXCEPT ![i] = e]
<1>1. r \in Seq(S) /\ Len(r) = Len(q)
  BY ExceptSeq
<1>2. q \in [1..Len(q) -> S]
  BY LenProperties
<1>3. DOMAIN r = 1..Len(q) /\ r[i] = e /\ \A j \in 1..Len(q) : j # i => r[j] = q[j]
  BY <1>2
<1> HIDE DEF r
<1>4. r = <<>> => Len(r) = 0
  BY EmptySeq
<1> QED
  BY <1>1, <1>3, <1>4 DEF r

(* The results an activation has are a sequence, bounded in length.        *)
LEMMA Results ==
  ASSUME NEW a \in Activation
  PROVE  /\ a.key \in Keys
         /\ a.saved \in Args
         /\ Len(a.results) \in 0..MaxCalls
         /\ a.results \in [1..Len(a.results) -> Value]
         /\ a.results \in Seq(Value)
<1>1. PICK n \in 0..MaxCalls : a.results \in [1..n -> Value]
  BY DEF Activation
<1>2. n \in Nat
  BY PureAssumption
<1>3. a.results \in Seq(Value) /\ Len(a.results) = n
  BY <1>1, <1>2, SeqDef, LenProperties, SMT
<1> QED
  BY <1>1, <1>3 DEF Activation
-----------------------------------------------------------------------------
(* The innermost activation, of a stack that is not empty.                 *)
LEMMA TopOfStack ==
  ASSUME TypeOK, stack # <<>>
  PROVE  /\ Top \in Activation
         /\ Len(stack) \in DOMAIN stack
         /\ Len(stack) \in Nat \ {0}
         /\ DOMAIN stack = 1..Len(stack)
         /\ Pending = NextCall(Top.key, Top.results)
<1>1. stack \in Seq(Activation)
  BY DEF TypeOK
<1>2. Len(stack) \in Nat \ {0} /\ DOMAIN stack = 1..Len(stack)
  BY <1>1, Pop
<1> QED
  BY <1>1, <1>2, ElementOfSeq DEF Top, Pending

(* The invariant holds at first: the tables are empty.                     *)
LEMMA Initially == Init => IInv
<1> SUFFICES ASSUME Init PROVE IInv
  OBVIOUS
<1>1. stack \in Seq(Activation)
  BY EmptySeq DEF Init
<1>2. answer \in Value
  BY PureAssumption DEF Init, Range
<1>3. TypeOK
  BY <1>1, <1>2, PureAssumption DEF Init, TypeOK
<1>4. DOMAIN stack = {}
  BY <1>1, EmptySeq, LenProperties DEF Init
<1> QED
  BY <1>3, <1>4 DEF Init, IInv, CacheIsSound, RegistersRestored, Recursion, Control

(* A call from the rest of the program.                                    *)
LEMMA CallKeeps == IInv /\ Call => IInv'
<1> SUFFICES ASSUME IInv, Call PROVE IInv'
  OBVIOUS
<1> USE DEF IInv, Call, tables
<1>1. stack = <<>> /\ DOMAIN stack = {}
  BY EmptySeq, LenProperties DEF Control, TypeOK
<1>2. request' # NoKey
  BY PureAssumption
<1>3. TypeOK'
  BY DEF TypeOK
<1>4. CacheIsSound'
  BY DEF CacheIsSound
<1>5. RegistersRestored' /\ Recursion'
  BY <1>1 DEF RegistersRestored, Recursion, Top
<1>6. Control'
  BY <1>1, <1>2 DEF Control, Pending
<1> QED
  BY <1>3, <1>4, <1>5, <1>6

(* A hit: the value of a sound cache is the function's.                    *)
LEMMA CachedHitKeeps == IInv /\ CachedHit => IInv'
<1> SUFFICES ASSUME IInv, CachedHit PROVE IInv'
  OBVIOUS
<1> USE DEF IInv, CachedHit, tables
<1>1. Pending \in Keys /\ Pending' = Pending
  BY DEF Control, Pending, Top
<1>2. Hash(Pending) \in Index
  BY <1>1 DEF Index
<1>3. ret' = Fn[Pending]
  BY <1>1, <1>2 DEF CacheIsSound, Hit
<1>4. TypeOK'
  BY <1>1, <1>3, PureAssumption DEF TypeOK
<1>5. CacheIsSound' /\ RegistersRestored' /\ Recursion'
  BY DEF CacheIsSound, RegistersRestored, Recursion, Top
<1>6. Control'
  BY <1>1, <1>3 DEF Control
<1> QED
  BY <1>4, <1>5, <1>6

(* A miss: a new activation on the stack, of the call that is pending.     *)
LEMMA CachedMissKeeps == IInv /\ CachedMiss => IInv'
<1> SUFFICES ASSUME IInv, CachedMiss PROVE IInv'
  OBVIOUS
<1> USE DEF IInv, CachedMiss, tables
<1> DEFINE a == [saved |-> s, key |-> Pending, results |-> <<>>]
<1>1. Pending \in Keys /\ request # NoKey
  BY DEF Control
<1>2. <<>> \in [1..0 -> Value] /\ 0 \in 0..MaxCalls
  BY PureAssumption, EmptySeq, LenProperties
<1>3. a \in Activation
  BY <1>1, <1>2 DEF Activation, TypeOK
<1>4. stack' = Append(stack, a) /\ stack \in Seq(Activation)
  BY DEF TypeOK
<1> HIDE DEF a
<1>5. /\ stack' \in Seq(Activation)
      /\ Len(stack') = Len(stack) + 1
      /\ DOMAIN stack' = 1..Len(stack) + 1
      /\ \A i \in 1..Len(stack) : stack'[i] = stack[i]
      /\ stack'[Len(stack) + 1] = a
      /\ stack' # <<>>
      /\ Len(stack) \in Nat
      /\ DOMAIN stack = 1..Len(stack)
      /\ stack = <<>> <=> Len(stack) = 0
  BY <1>3, <1>4, Push
<1>6. a.saved = s /\ a.key = Pending /\ a.results = <<>>
  BY DEF a
<1>7. Pending = IF stack = <<>> THEN request
                ELSE NextCall(stack[Len(stack)].key, stack[Len(stack)].results)
  BY DEF Pending, Top
<1>8. TypeOK'
  BY <1>1, <1>5, PureAssumption DEF TypeOK
<1>9. CacheIsSound'
  BY DEF CacheIsSound
<1>10. RegistersRestored'
  <2>1. s' = stack'[Len(stack')].key.args
    BY <1>5, <1>6
  <2>2. \A i \in 1..Len(stack) :
          stack'[i].saved = IF i = 1 THEN Caller ELSE stack'[i - 1].key.args
    BY <1>5 DEF RegistersRestored
  <2>3. a.saved = IF stack = <<>> THEN Caller ELSE stack[Len(stack)].key.args
    BY <1>6 DEF RegistersRestored, Top
  <2> QED
    BY <1>5, <2>1, <2>2, <2>3 DEF RegistersRestored, Top
<1>11. Recursion'
  <2>1. stack'[1].key = request'
    BY <1>5, <1>6, <1>7 DEF Recursion
  <2>2. \A i \in DOMAIN stack' : i > 1 =>
          stack'[i].key = NextCall(stack'[i - 1].key, stack'[i - 1].results)
    BY <1>5, <1>6, <1>7 DEF Recursion
  <2>3. Agrees(a.key, a.results)
    BY <1>6, EmptySeq, LenProperties DEF Agrees
  <2> QED
    BY <1>5, <2>1, <2>2, <2>3 DEF Recursion
<1>12. Control'
  BY <1>1, <1>5 DEF Control
<1> QED
  BY <1>8, <1>9, <1>10, <1>11, <1>12

(* A recursive call: the next one of the innermost activation.             *)
LEMMA RecurseKeeps == IInv /\ Recurse => IInv'
<1> SUFFICES ASSUME IInv, Recurse PROVE IInv'
  OBVIOUS
<1> USE DEF IInv, Recurse, tables
<1>1. stack # <<>> /\ Top \in Activation /\ Pending = NextCall(Top.key, Top.results)
  BY TopOfStack DEF Control
<1>2. Pending \in Keys /\ Pending' = Pending
  <2>1. NextCall(Top.key, Top.results) # NoKey
    BY <1>1
  <2> QED
    BY <1>1, <2>1, Results, PureAssumption DEF Pending, Top
<1>3. TypeOK' /\ CacheIsSound' /\ RegistersRestored' /\ Recursion'
  BY DEF TypeOK, CacheIsSound, RegistersRestored, Recursion, Top
<1>4. Control'
  BY <1>1, <1>2 DEF Control
<1> QED
  BY <1>3, <1>4

(* f returns: its value is the function's, and is entered under its key.   *)
LEMMA ReturnKeeps == IInv /\ Return => IInv'
<1> SUFFICES ASSUME IInv, Return PROVE IInv'
  OBVIOUS
<1> USE DEF IInv, Return, tables
<1> DEFINE k == Top.key
<1>1. /\ stack # <<>>
      /\ Top \in Activation
      /\ Pending = NextCall(Top.key, Top.results)
      /\ Len(stack) \in Nat \ {0}
      /\ DOMAIN stack = 1..Len(stack)
      /\ Top = stack[Len(stack)]
  BY TopOfStack DEF Control, Top
<1>2. /\ k \in Keys
      /\ Len(Top.results) \in 0..MaxCalls
      /\ Top.results \in [1..Len(Top.results) -> Value]
      /\ Top.saved \in Args
  BY <1>1, Results
<1>3. Agrees(k, Top.results)
  BY <1>1 DEF Recursion
<1>4. ret' = Fn[k] /\ Fn[k] \in Value
  BY <1>1, <1>2, <1>3, PureAssumption
<1>5. [id |-> k.id, args |-> s] = k
  <2>1. s = k.args
    BY <1>1 DEF RegistersRestored
  <2> QED
    BY <1>2, <2>1, PureAssumption
<1>6. Put(k, ret') /\ Hash(k) \in Index
  BY <1>2, <1>5 DEF Index
<1>7. /\ stack' \in Seq(Activation)
      /\ Len(stack') = Len(stack) - 1
      /\ DOMAIN stack' = 1..Len(stack) - 1
      /\ \A i \in 1..Len(stack) - 1 : stack'[i] = stack[i]
      /\ stack' = <<>> <=> Len(stack) = 1
  BY <1>1, Pop DEF Rest, TypeOK
<1>8. Pending' = k
  <2>1. CASE Len(stack) = 1
    BY <1>1, <1>7, <2>1 DEF Recursion, Pending
  <2>2. CASE Len(stack) # 1
    <3>1. Top' = stack[Len(stack) - 1]
      BY <1>1, <1>7, <2>2 DEF Top
    <3>2. Pending' = NextCall(Top'.key, Top'.results)
      BY <1>7, <2>2 DEF Pending
    <3>3. Len(stack) \in DOMAIN stack /\ Len(stack) > 1
      BY <1>1, <2>2
    <3>4. k = NextCall(stack[Len(stack) - 1].key, stack[Len(stack) - 1].results)
      BY <1>1, <3>3 DEF Recursion
    <3> QED
      BY <3>1, <3>2, <3>4
  <2> QED
    BY <2>1, <2>2
<1> HIDE DEF k
<1>9. TypeOK'
  <2>1. /\ VALID' \in [Index -> BOOLEAN]
        /\ KEY' \in [Index -> Keys \cup {ZeroKey}]
        /\ VALUE' \in [Index -> Value \cup {0}]
    BY <1>2, <1>4, <1>6 DEF TypeOK, Put
  <2> QED
    BY <1>2, <1>4, <1>7, <2>1 DEF TypeOK, Epilog
<1>10. CacheIsSound'
  <2> SUFFICES ASSUME NEW i \in Index, VALID'[i]
               PROVE  KEY'[i] \in Keys /\ Hash(KEY'[i]) = i /\ VALUE'[i] = Fn[KEY'[i]]
    BY DEF CacheIsSound
  <2>1. CASE i = Hash(k)
    BY <1>2, <1>4, <1>6, <2>1 DEF Put, TypeOK
  <2>2. CASE i # Hash(k)
    BY <1>6, <2>2 DEF Put, TypeOK, CacheIsSound
  <2> QED
    BY <2>1, <2>2
<1>11. RegistersRestored'
  <2>1. \A i \in 1..Len(stack) - 1 :
          stack'[i].saved = IF i = 1 THEN Caller ELSE stack'[i - 1].key.args
    <3> SUFFICES ASSUME NEW i \in 1..Len(stack) - 1
                 PROVE  stack'[i].saved = IF i = 1 THEN Caller ELSE stack'[i - 1].key.args
      OBVIOUS
    <3>1. i \in DOMAIN stack /\ (i # 1 => i - 1 \in 1..Len(stack) - 1)
      BY <1>1
    <3>2. stack[i].saved = IF i = 1 THEN Caller ELSE stack[i - 1].key.args
      BY <3>1 DEF RegistersRestored
    <3>3. stack'[i] = stack[i] /\ (i # 1 => stack'[i - 1] = stack[i - 1])
      BY <1>7, <3>1
    <3> QED
      BY <3>2, <3>3
  <2>2. s' = IF Len(stack) = 1 THEN Caller ELSE stack[Len(stack) - 1].key.args
    BY <1>1 DEF RegistersRestored, Epilog
  <2> QED
    BY <1>1, <1>7, <2>1, <2>2 DEF RegistersRestored, Top
<1>12. Recursion'
  BY <1>1, <1>7 DEF Recursion
<1>13. Control'
  BY <1>2, <1>4, <1>8 DEF Control
<1> QED
  BY <1>9, <1>10, <1>11, <1>12, <1>13

(* f has the result of its call: one more that agrees with the function.   *)
LEMMA ResumeKeeps == IInv /\ Resume => IInv'
<1> SUFFICES ASSUME IInv, Resume PROVE IInv'
  OBVIOUS
<1> USE DEF IInv, Resume, tables
<1> DEFINE n == Len(Top.results)
           results == Append(Top.results, ret)
           a == [Top EXCEPT !.results = results]
<1>1. /\ Top \in Activation
      /\ Pending = NextCall(Top.key, Top.results)
      /\ Len(stack) \in Nat \ {0}
      /\ DOMAIN stack = 1..Len(stack)
      /\ Top = stack[Len(stack)]
      /\ stack \in Seq(Activation)
  BY TopOfStack DEF TypeOK, Top
<1>2. /\ Top.key \in Keys
      /\ n \in 0..MaxCalls
      /\ Top.results \in [1..n -> Value]
      /\ Top.results \in Seq(Value)
      /\ Top.saved \in Args
  BY <1>1, Results
<1>3. Pending \in Keys /\ ret = Fn[Pending] /\ ret \in Value
  BY DEF Control, TypeOK
<1>4. n < MaxCalls
  BY <1>1, <1>2, <1>3, PureAssumption
<1>5. /\ results \in [1..n + 1 -> Value]
      /\ DOMAIN results = 1..n + 1
      /\ \A i \in 1..n : results[i] = Top.results[i]
      /\ results[n + 1] = ret
  <2>1. /\ results \in Seq(Value)
        /\ Len(results) = n + 1
        /\ DOMAIN results = 1..n + 1
        /\ \A i \in 1..n : results[i] = Top.results[i]
        /\ results[n + 1] = ret
    BY <1>2, <1>3, Push
  <2> HIDE DEF results, n
  <2> QED
    BY <2>1, LenProperties
<1>6. /\ a \in Activation
      /\ a.key = Top.key
      /\ a.saved = Top.saved
      /\ a.results = results
  <2>1. n + 1 \in 0..MaxCalls
    BY <1>2, <1>4, PureAssumption
  <2> HIDE DEF results
  <2>2. results \in UNION {[1..m -> Value] : m \in 0..MaxCalls}
    BY <1>5, <2>1
  <2> QED
    BY <1>1, <2>2 DEF Activation
<1>7. /\ stack' \in Seq(Activation)
      /\ Len(stack') = Len(stack)
      /\ DOMAIN stack' = 1..Len(stack)
      /\ \A i \in 1..Len(stack) - 1 : stack'[i] = stack[i]
      /\ stack'[Len(stack)] = a
      /\ stack' # <<>>
  <2>1. stack' = [stack EXCEPT ![Len(stack)] = a]
    BY <1>1
  <2>2. Len(stack) \in 1..Len(stack) /\ Len(stack) # 0
    BY <1>1
  <2> DEFINE q == [stack EXCEPT ![Len(stack)] = a]
  <2> HIDE DEF a
  <2>3. /\ q \in Seq(Activation)
        /\ Len(q) = Len(stack)
        /\ DOMAIN q = 1..Len(stack)
        /\ q[Len(stack)] = a
        /\ \A j \in 1..Len(stack) : j # Len(stack) => q[j] = stack[j]
        /\ q # <<>>
    BY <1>1, <1>6, <2>2, Replace
  <2>4. stack' = q
    BY <2>1
  <2>5. \A i \in 1..Len(stack) - 1 : i \in 1..Len(stack) /\ i # Len(stack)
    BY <1>1
  <2> HIDE DEF q
  <2> QED
    BY <2>3, <2>4, <2>5
<1>8. Agrees(Top.key, results)
  <2>1. Agrees(Top.key, Top.results)
    BY <1>1 DEF Recursion
  <2>2. \A i \in 1..n + 1 : Prefix(results, i - 1) = Prefix(Top.results, i - 1)
    BY <1>2, <1>5 DEF Prefix
  <2>3. Prefix(Top.results, n) = Top.results
    BY <1>2 DEF Prefix
  <2> HIDE DEF n, results
  <2>4. ASSUME NEW i \in 1..n
        PROVE  /\ NextCall(Top.key, Prefix(results, i - 1)) \in Keys
               /\ results[i] = Fn[NextCall(Top.key, Prefix(results, i - 1))]
    BY <1>2, <1>5, <2>1, <2>2 DEF Agrees
  <2>5. /\ NextCall(Top.key, Prefix(results, n)) \in Keys
        /\ results[n + 1] = Fn[NextCall(Top.key, Prefix(results, n))]
    BY <1>1, <1>2, <1>3, <1>5, <2>2, <2>3
  <2> QED
    BY <1>2, <1>5, <2>4, <2>5 DEF Agrees
<1> HIDE DEF a, results, n
<1>9. TypeOK' /\ CacheIsSound'
  BY <1>7 DEF TypeOK, CacheIsSound
<1>10. \A i \in DOMAIN stack' :
         stack'[i].key = stack[i].key /\ stack'[i].saved = stack[i].saved
  BY <1>1, <1>6, <1>7
<1>11. RegistersRestored'
  BY <1>1, <1>7, <1>10 DEF RegistersRestored, Top
<1>12. Recursion'
  <2>1. stack'[1].key = request'
    BY <1>1, <1>7, <1>10 DEF Recursion
  <2>2. \A i \in DOMAIN stack' : i > 1 =>
          stack'[i].key = NextCall(stack'[i - 1].key, stack'[i - 1].results)
    <3> SUFFICES ASSUME NEW i \in DOMAIN stack', i > 1
                 PROVE  stack'[i].key = NextCall(stack'[i - 1].key, stack'[i - 1].results)
      OBVIOUS
    <3>1. stack[i].key = NextCall(stack[i - 1].key, stack[i - 1].results)
      BY <1>1, <1>7 DEF Recursion
    <3>2. i - 1 \in 1..Len(stack) - 1
      BY <1>1, <1>7
    <3> QED
      BY <1>7, <1>10, <3>1, <3>2
  <2>3. \A i \in DOMAIN stack' : Agrees(stack'[i].key, stack'[i].results)
    <3> SUFFICES ASSUME NEW i \in DOMAIN stack'
                 PROVE  Agrees(stack'[i].key, stack'[i].results)
      OBVIOUS
    <3>1. CASE i = Len(stack)
      BY <1>6, <1>7, <1>8, <3>1
    <3>2. CASE i # Len(stack)
      <4>1. i \in 1..Len(stack) - 1 /\ i \in DOMAIN stack
        BY <1>1, <1>7, <3>2
      <4> QED
        BY <1>7, <4>1 DEF Recursion
    <3> QED
      BY <3>1, <3>2
  <2> QED
    BY <2>1, <2>2, <2>3 DEF Recursion
<1>13. Control'
  BY <1>7 DEF Control
<1> QED
  BY <1>9, <1>11, <1>12, <1>13

(* The rest of the program goes on.                                        *)
LEMMA ReplyKeeps == IInv /\ Reply => IInv'
<1> SUFFICES ASSUME IInv, Reply PROVE IInv'
  OBVIOUS
<1> USE DEF IInv, Reply, tables
<1>1. DOMAIN stack = {}
  BY EmptySeq, LenProperties DEF TypeOK
<1> QED
  BY <1>1 DEF TypeOK, CacheIsSound, RegistersRestored, Recursion, Control, Top

(* A step that changes nothing.                                            *)
LEMMA StutterKeeps == IInv /\ UNCHANGED vars => IInv'
  BY DEF vars, tables, IInv, TypeOK, CacheIsSound, RegistersRestored, Recursion, Control,
         Pending, Top
-----------------------------------------------------------------------------
(* The memoized program and the invariant it keeps.                        *)
THEOREM MemoInvariant == Spec => []IInv
<1>1. IInv /\ [Next]_vars => IInv'
  BY CallKeeps, CachedHitKeeps, CachedMissKeeps, RecurseKeeps, ReturnKeeps, ResumeKeeps,
     ReplyKeeps, StutterKeeps DEF Next
<1> QED
  BY Initially, <1>1, PTL DEF Spec

(* The tables, the stack and the registers keep their types.               *)
THEOREM TypeCorrect == Spec => []TypeOK
<1>1. IInv => TypeOK
  BY DEF IInv
<1> QED
  BY MemoInvariant, <1>1, PTL

(* A valid entry holds the function's value for its key, for every hash.   *)
THEOREM SoundCache == Spec => []CacheIsSound
<1>1. IInv => CacheIsSound
  BY DEF IInv
<1> QED
  BY MemoInvariant, <1>1, PTL

(* Every activation of f_cached finds its own s1, s2 and s3 again.         *)
THEOREM CalleeSavedRegisters == Spec => []RegistersRestored
<1>1. IInv => RegistersRestored
  BY DEF IInv
<1> QED
  BY MemoInvariant, <1>1, PTL

(* The memoized function answers as the function does: a call from the     *)
(* rest of the program is Ask, a return to it Reply, and everything in     *)
(* between a stutter.                                                      *)
THEOREM Transparent == Spec => CachedCallsAreTransparent
<1>1. Init => Function!Init
  BY PureAssumption DEF Init, Function!Init, Range
<1>2. IInv /\ [Next]_vars => [Function!Next]_<<request, answer>>
  <2> SUFFICES ASSUME IInv, [Next]_vars
               PROVE  [Function!Next]_<<request, answer>>
    OBVIOUS
  <2>1. CASE Call
    BY <2>1 DEF IInv, Control, Call, Function!Next, Function!Ask
  <2>2. CASE Reply
    <3>1. request # NoKey /\ answer' = Fn[request]
      BY <2>2 DEF IInv, Control, Reply, Pending
    <3> QED
      BY <2>2, <3>1 DEF Reply, Function!Next, Function!Reply
  <2>3. CASE CachedHit \/ CachedMiss \/ Recurse \/ Return \/ Resume \/ UNCHANGED vars
    BY <2>3 DEF CachedHit, CachedMiss, Recurse, Return, Resume, vars
  <2> QED
    BY <2>1, <2>2, <2>3 DEF Next
<1> QED
  BY MemoInvariant, <1>1, <1>2, PTL DEF Spec, CachedCallsAreTransparent, Function!Spec
=============================================================================
