---------------------------- MODULE OperandLists ----------------------------
(***************************************************************************)
(* What the passes take the intermediate code for: every user has a list   *)
(* of operands, SSA construction knows the definition of a variable in a   *)
(* block, and a value that is replaced or goes does so in all these places *)
(* at once.  The modules from IR on are written with such lists.           *)
(***************************************************************************)
EXTENDS Integers, Sequences, FiniteSets

CONSTANTS Vals, Users, Variables

VARIABLES
  alive,   \* the values there are
  args,    \* user -> the values it operates on
  defs     \* <<variable, label>> -> the value the variable has in the block

vars == <<alive, args, defs>>

(* The elements of s at the positions K, in their order.                   *)
Nth(K, n) == CHOOSE k \in K : Cardinality({j \in K : j <= k}) = n
Kept(s, K) == [n \in 1..Cardinality(K) |-> s[Nth(K, n)]]

(* f with w in the places of v.                                            *)
Substituted(f, v, w) == [k \in DOMAIN f |-> IF f[k] = v THEN w ELSE f[k]]

Init ==
  /\ alive = {}
  /\ args = [u \in Users |-> <<>>]
  /\ defs = <<>>

Create ==
  /\ \E v \in Vals \ alive : alive' = alive \cup {v}
  /\ UNCHANGED <<args, defs>>

Add ==
  /\ \E u \in alive \cap Users, v \in alive : args' = [args EXCEPT ![u] = Append(@, v)]
  /\ UNCHANGED <<alive, defs>>

Change ==
  /\ \E u \in Users, v \in alive : \E k \in DOMAIN args[u] : args' = [args EXCEPT ![u][k] = v]
  /\ UNCHANGED <<alive, defs>>

Remove ==
  /\ \E u \in Users : \E k \in DOMAIN args[u] :
       args' = [args EXCEPT ![u] = Kept(@, DOMAIN @ \ {k})]
  /\ UNCHANGED <<alive, defs>>

Clear ==
  /\ \E u \in Users : args' = [args EXCEPT ![u] = <<>>]
  /\ UNCHANGED <<alive, defs>>

Replace ==
  \E v \in alive, w \in alive :
    /\ args' = [u \in Users |-> Substituted(args[u], v, w)]
    /\ defs' = Substituted(defs, v, w)
    /\ UNCHANGED alive

(* No variable has the value that goes, and no block that goes has one.    *)
Destroy ==
  \E v \in alive :
    /\ \A d \in DOMAIN defs : defs[d] # v /\ d[2] # v
    /\ alive' = alive \ {v}
    /\ args' = [u \in Users |->
                  IF u = v THEN <<>> ELSE Kept(args[u], {k \in DOMAIN args[u] : args[u][k] # v})]
    /\ UNCHANGED defs

Define ==
  \E x \in Variables, b \in alive \cap Users, v \in alive :
    /\ defs' = [d \in DOMAIN defs \cup {<<x, b>>} |-> IF d = <<x, b>> THEN v ELSE defs[d]]
    /\ UNCHANGED <<alive, args>>

Forget ==
  /\ \E d \in DOMAIN defs : defs' = [e \in DOMAIN defs \ {d} |-> defs[e]]
  /\ UNCHANGED <<alive, args>>

Next == Create \/ Add \/ Change \/ Remove \/ Clear \/ Replace \/ Destroy \/ Define \/ Forget

Spec == Init /\ [][Next]_vars
=============================================================================
