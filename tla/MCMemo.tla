------------------------------- MODULE MCMemo -------------------------------
(***************************************************************************)
(* Two memoized functions of a program, with the hash of the code:         *)
(*   int fib(int n) { return n < 2 ? n + 1 : fib(n - 1) + fib(n - 2); }    *)
(*   int ack(int m, int n) {                                               *)
(*     if (m == 0) return n + 1;                                           *)
(*     return ack(m - 1, n == 0 ? 1 : ack(m, n - 1)); }                    *)
(* fib(2), ack(0, 0) and ack(1, 2) share an entry, fib(3), ack(0, 2) and   *)
(* ack(1, 0), ack(0, 3) and ack(1, 1); and so do ack(1, 3) and ack(0, 1),  *)
(* which it calls before it can enter its own result.                      *)
(***************************************************************************)
EXTENDS Memo, MemoHash

Key(id, a, b) == [id |-> id, args |-> <<a, b, 0>>]
fib == 0
ack == 1

MCKeys == {Key(fib, n, 0) : n \in 0..3} \cup {Key(ack, 0, n) : n \in 0..4}
            \cup {Key(ack, 1, n) : n \in 0..3}
MCValue == 1..5
MCNoKey == [id |-> -1, args |-> <<0, 0, 0>>]
MCHashes == [k \in MCKeys |-> __hash(k)]
MCHash(k) == IF k \in MCKeys THEN MCHashes[k] ELSE __hash(k)
MCCaller == <<7, 7, 7>>

(* A recursive call is made only for arguments in the family: outside of   *)
(* it the value is never used.                                             *)
MCNextCall(k, results) ==
  LET a == k.args[1]
      b == k.args[2]
      n == Len(results)
  IN  CASE k.id = fib /\ a >= 2 /\ n < 2 -> Key(fib, a - 1 - n, 0)
        [] k.id = ack /\ a > 0 /\ b > 0 /\ n = 0 -> Key(ack, a, b - 1)
        [] k.id = ack /\ a > 0 /\ b > 0 /\ n = 1 /\ results[1] \in 0..4 -> Key(ack, 0, results[1])
        [] k.id = ack /\ a > 0 /\ b = 0 /\ n = 0 -> Key(ack, 0, 1)
        [] OTHER -> MCNoKey

MCResult(k, results) ==
  CASE Len(results) = 0 -> k.args[1] + k.args[2] + 1
    [] k.id = fib /\ Len(results) > 0 -> results[1] + results[Len(results)]
    [] OTHER -> results[Len(results)]

MCFn == [k \in MCKeys |->
  IF k.id = fib THEN <<1, 2, 3, 5>>[k.args[1] + 1] ELSE k.args[1] + k.args[2] + 1]
=============================================================================
