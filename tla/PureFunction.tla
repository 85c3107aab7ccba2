---------------------------- MODULE PureFunction ----------------------------
(***************************************************************************)
(* What a caller of a recursive function without side effects sees,        *)
(* memoized or not: it asks for a value and gets that of the function.     *)
(***************************************************************************)
CONSTANTS Keys, Fn, NoKey

VARIABLES request, answer

Init == request = NoKey /\ answer \in {Fn[k] : k \in Keys}

Ask ==
  /\ request = NoKey
  /\ request' \in Keys
  /\ UNCHANGED answer

Reply ==
  /\ request # NoKey
  /\ answer' = Fn[request]
  /\ request' = NoKey

Next == Ask \/ Reply

Spec == Init /\ [][Next]_<<request, answer>>
=============================================================================
