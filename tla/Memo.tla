-------------------------------- MODULE Memo --------------------------------
(***************************************************************************)
(* The memoization of recursive functions in the compiled program          *)
(* (src/src/trans_wrapper.cc).  memoi_wrapper::ap turns every call of a    *)
(* memoized function f, the recursive ones too, into a call of f_cached;   *)
(* construct emits f_cached, and bk_fill the tables and the routines they  *)
(* are used with.  There is one entry for every value of __hash, shared by *)
(* all functions: an entry may be replaced while the call that will write  *)
(* it next is still under way.                                             *)
(*                                                                         *)
(* A key is the number of a function, which f_cached has as an immediate,  *)
(* and the three arguments, which it keeps in the callee-saved registers   *)
(* s1, s2 and s3; a missing argument is zero.                              *)
(***************************************************************************)
EXTENDS Integers, Sequences, Functions

CONSTANTS
  Keys,            \* the keys of the calls that may be made
  Value,           \* the values of the functions, as 32-bit patterns
  Hash(_),         \* __hash
  NextCall(_, _),  \* the call the body of f makes after the calls whose
                   \* results are given, or NoKey if it returns
  Result(_, _),    \* what it returns then
  Fn,              \* the function f computes without a cache
  MaxCalls,        \* no activation of f makes more calls than this
  NoKey,
  Caller           \* what s1, s2, s3 hold in the caller

Args == Int \X Int \X Int

(* The results f has at some point are those of the calls it made.         *)
Prefix(results, n) == [i \in 1..n |-> results[i]]
Agrees(k, results) ==
  \A i \in DOMAIN results :
    LET called == NextCall(k, Prefix(results, i - 1))
    IN  called \in Keys /\ results[i] = Fn[called]

(* f is a function: what it does depends on its arguments and on what its  *)
(* calls return, and they determine its result.  This is what              *)
(* is_purely_recursive is to make sure of.                                 *)
ASSUME PureAssumption ==
  /\ Keys \subseteq [id : Nat, args : Args]
  /\ NoKey \notin Keys
  /\ Fn \in [Keys -> Value]
  /\ MaxCalls \in Nat
  /\ Caller \in Args
  /\ \A k \in Keys : \A n \in 0..MaxCalls : \A results \in [1..n -> Value] :
       IF NextCall(k, results) = NoKey
         THEN Agrees(k, results) => Result(k, results) = Fn[k]
         ELSE n < MaxCalls /\ NextCall(k, results) \in Keys

VARIABLES
  VALID, KEY, VALUE,   \* the tables
  at,                  \* where control is
  stack,               \* the calls f_cached has passed on to f
  s,                   \* s1, s2 and s3
  ret,                 \* a0 or fa0 after a call
  request, answer      \* the call of the rest of the program, and its result

tables == <<VALID, KEY, VALUE>>
vars == <<tables, at, stack, s, ret, request, answer>>

Index == {Hash(k) : k \in Keys}
ZeroKey == [id |-> 0, args |-> <<0, 0, 0>>]

(* A call f_cached has passed on: what the prolog saved, and the activation *)
(* of f with the results of its calls so far.                              *)
Activation == [saved : Args, key : Keys, results : UNION {[1..n -> Value] : n \in 0..MaxCalls}]

Top == stack[Len(stack)]
Rest == SubSeq(stack, 1, Len(stack) - 1)

(* The call that is being made, or was answered last.                      *)
Pending == IF stack = <<>> THEN request ELSE NextCall(Top.key, Top.results)

Init ==
  /\ VALID = [i \in Index |-> FALSE]
  /\ KEY = [i \in Index |-> ZeroKey]
  /\ VALUE = [i \in Index |-> 0]
  /\ at = "caller"
  /\ stack = <<>>
  /\ s = Caller
  /\ ret \in Value
  /\ request = NoKey
  /\ answer \in Range(Fn)
-----------------------------------------------------------------------------
(* A slip: the byte in VALID is not looked at.                             *)
HitIfInvalid(k) == KEY[Hash(k)] = k

(* __hit: all four words of the key are compared.                          *)
Hit(k) == VALID[Hash(k)] /\ KEY[Hash(k)] = k

(* A slip: the key stays as it was.                                        *)
PutValueOnly(k, v) ==
  /\ VALUE' = [VALUE EXCEPT ![Hash(k)] = v]
  /\ VALID' = [VALID EXCEPT ![Hash(k)] = TRUE]
  /\ UNCHANGED KEY

(* __put                                                                   *)
Put(k, v) ==
  /\ KEY' = [KEY EXCEPT ![Hash(k)] = k]
  /\ VALUE' = [VALUE EXCEPT ![Hash(k)] = v]
  /\ VALID' = [VALID EXCEPT ![Hash(k)] = TRUE]

(* The rest of the program calls f_cached.                                 *)
Call ==
  /\ at = "caller"
  /\ request' \in Keys
  /\ at' = "f_cached"
  /\ UNCHANGED <<tables, stack, s, ret, answer>>

(* f_cached, with the arguments of the call now in s1, s2 and s3, finds    *)
(* them in the table; __get; the epilog restores the registers.            *)
CachedHit ==
  /\ at = "f_cached"
  /\ Hit(Pending)
  /\ ret' = VALUE[Hash(Pending)]
  /\ at' = "return"
  /\ UNCHANGED <<tables, stack, s, request, answer>>

(* It does not, and passes the call on to f.                               *)
CachedMiss ==
  /\ at = "f_cached"
  /\ ~Hit(Pending)
  /\ stack' = Append(stack, [saved |-> s, key |-> Pending, results |-> <<>>])
  /\ s' = Pending.args
  /\ at' = "f"
  /\ UNCHANGED <<tables, ret, request, answer>>

(* f runs up to its next recursive call ...                                *)
Recurse ==
  /\ at = "f"
  /\ Pending # NoKey
  /\ at' = "f_cached"
  /\ UNCHANGED <<tables, stack, s, ret, request, answer>>

(* A slip: the epilog without the loads of s1, s2 and s3.                  *)
EpilogWithoutLoads == UNCHANGED s

(* The epilog of f_cached.                                                 *)
Epilog == s' = Top.saved

(* A slip: the registers are restored before the key is made of them.      *)
ReturnAfterEpilog ==
  /\ at = "f"
  /\ Pending = NoKey
  /\ ret' = Result(Top.key, Top.results)
  /\ Put([id |-> Top.key.id, args |-> Top.saved], ret')
  /\ Epilog
  /\ stack' = Rest
  /\ at' = "return"
  /\ UNCHANGED <<request, answer>>

(* ... or it returns to f_cached, which enters the result under the key    *)
(* made of its registers and returns.                                      *)
Return ==
  /\ at = "f"
  /\ Pending = NoKey
  /\ ret' = Result(Top.key, Top.results)
  /\ Put([id |-> Top.key.id, args |-> s], ret')
  /\ Epilog
  /\ stack' = Rest
  /\ at' = "return"
  /\ UNCHANGED <<request, answer>>

(* A slip: the recursive call is made once more.                           *)
ResumeBefore ==
  /\ at = "return"
  /\ stack # <<>>
  /\ at' = "f"
  /\ UNCHANGED <<tables, stack, s, ret, request, answer>>

(* f goes on with the result of its call.                                  *)
Resume ==
  /\ at = "return"
  /\ stack # <<>>
  /\ stack' = [stack EXCEPT ![Len(stack)].results = Append(@, ret)]
  /\ at' = "f"
  /\ UNCHANGED <<tables, s, ret, request, answer>>

(* The rest of the program goes on.                                        *)
Reply ==
  /\ at = "return"
  /\ stack = <<>>
  /\ answer' = ret
  /\ request' = NoKey
  /\ at' = "caller"
  /\ UNCHANGED <<tables, stack, s, ret>>

Next ==
  \/ Call
  \/ CachedHit
  \/ CachedMiss
  \/ Recurse
  \/ Return
  \/ Resume
  \/ Reply

Spec == Init /\ [][Next]_vars

(* The compiled program is one thread.                                     *)
FairSpec == Spec /\ WF_vars(Next)
-----------------------------------------------------------------------------
TypeOK ==
  /\ VALID \in [Index -> BOOLEAN]
  /\ KEY \in [Index -> Keys \cup {ZeroKey}]
  /\ VALUE \in [Index -> Value \cup {0}]
  /\ at \in {"caller", "f_cached", "f", "return"}
  /\ stack \in Seq(Activation)
  /\ s \in Args
  /\ ret \in Value
  /\ request \in Keys \cup {NoKey}
  /\ answer \in Value

(* A valid entry is where its key will be looked for, and holds the        *)
(* function's value for it, however often the entry was replaced by the    *)
(* recursive calls of the call that wrote it.                              *)
CacheIsSound ==
  \A i \in Index : VALID[i] => KEY[i] \in Keys /\ Hash(KEY[i]) = i /\ VALUE[i] = Fn[KEY[i]]

(* s1, s2 and s3 hold the arguments of the innermost call that was passed  *)
(* on to f, and every outer one finds its own in them again, down to the   *)
(* rest of the program.                                                    *)
RegistersRestored ==
  /\ s = IF stack = <<>> THEN Caller ELSE Top.key.args
  /\ \A i \in DOMAIN stack :
       stack[i].saved = IF i = 1 THEN Caller ELSE stack[i - 1].key.args

(* The rest of the program cannot tell the cached function from the one    *)
(* without a cache.                                                        *)
Function == INSTANCE PureFunction
CachedCallsAreTransparent == Function!Spec

(* A recursion that ends without the cache ends with it.                   *)
EveryCallReturns == at = "f_cached" ~> at = "caller"
=============================================================================
