------------------------------- MODULE UseDef -------------------------------
(***************************************************************************)
(* The use-def chains of the intermediate code (src/src/ir_val.cpp,        *)
(* src/include/ir_val.h).  A Use is shared by two lists: the operands of   *)
(* its user and the users of the value it is a use of.  Every operation    *)
(* walks one of them and repairs the other, comparing uses by address.     *)
(* SSA construction adds pure uses, which are no operands: they stand in   *)
(* the users of the value a variable has in a block, so that replacing the *)
(* value replaces the definition.                                          *)
(*                                                                         *)
(* Values and uses are addresses: one that was freed may come again.  A    *)
(* Use is freed with the last list that holds it (shared_ptr).  The model  *)
(* leaves out which class a value is of, but for whether it has operands.  *)
(***************************************************************************)
EXTENDS Integers, Sequences, FiniteSets, SequencesExt

CONSTANTS
  Vals,        \* addresses of values
  Users,       \* those of values that have operands
  Uses,        \* addresses of uses
  Variables    \* what SSA construction promotes

ASSUME UsersAssumption == Users \subseteq Vals

VARIABLES
  alive,        \* the values there are
  operands,     \* User::_operands
  users,        \* Val::_users
  uses,         \* use -> its user and usee, for the uses there are
  current_def   \* SSA_pass::current_def: <<variable, label>> -> pure use

vars == <<alive, operands, users, uses, current_def>>

user(i) == uses[i].user
usee(i) == uses[i].usee
PureUses == {current_def[d] : d \in DOMAIN current_def}

(* The lists of operands and the definitions that the passes see.          *)
Args == [u \in Users |-> [k \in DOMAIN operands[u] |-> usee(operands[u][k])]]
Definitions == [d \in DOMAIN current_def |-> usee(current_def[d])]

Lists == INSTANCE OperandLists WITH args <- Args, defs <- Definitions

(* The loops of val_release_use and user_release_use for all uses of R.    *)
Without(list, R) == Lists!Kept(list, {k \in DOMAIN list : list[k] \notin R})

(* Val::remove_use, which stops at the first entry.                        *)
remove_use(list, i) ==
  LET first == {k \in DOMAIN list : list[k] = i /\ \A j \in 1..(k - 1) : list[j] # i}
  IN Lists!Kept(list, DOMAIN list \ first)

(* What is held by a list or by the pass goes on to exist, as f has it.    *)
Held ==
  (UNION {ToSet(operands[u]) : u \in Users}) \cup (UNION {ToSet(users[v]) : v \in Vals}) \cup PureUses
Retained(f) == [i \in Held' |-> f[i]]
With(f, x, y) == [z \in DOMAIN f \cup {x} |-> IF z = x THEN y ELSE f[z]]

Init ==
  /\ alive = {}
  /\ operands = [u \in Users |-> <<>>]
  /\ users = [v \in Vals |-> <<>>]
  /\ uses = <<>>
  /\ current_def = <<>>

Construct(v) ==
  /\ v \notin alive
  /\ alive' = alive \cup {v}
  /\ UNCHANGED <<operands, users, uses, current_def>>

add_operand(u, v) ==
  /\ u \in alive /\ v \in alive
  /\ \E i \in Uses \ DOMAIN uses :
       /\ operands' = [operands EXCEPT ![u] = Append(@, i)]
       /\ users' = [users EXCEPT ![v] = Append(@, i)]
       /\ uses' = With(uses, i, [user |-> u, usee |-> v])
  /\ UNCHANGED <<alive, current_def>>

(* A slip: val_release_use is not called.                                  *)
change_operandListed(u, k, v) ==
  LET i == operands[u][k]
  IN  /\ v \in alive
      /\ users' = [users EXCEPT ![v] = Append(@, i)]
      /\ uses' = [uses EXCEPT ![i].usee = v]
      /\ UNCHANGED <<alive, operands, current_def>>

change_operand(u, k, v) ==
  LET i == operands[u][k]
      released == [users EXCEPT ![usee(i)] = Without(@, {i})]
  IN  /\ v \in alive
      /\ users' = [released EXCEPT ![v] = Append(@, i)]
      /\ uses' = [uses EXCEPT ![i].usee = v]
      /\ UNCHANGED <<alive, operands, current_def>>

release_operand(u, k) ==
  LET i == operands[u][k]
  IN  /\ users' = [users EXCEPT ![usee(i)] = Without(@, {i})]
      /\ operands' = [operands EXCEPT ![u] = Lists!Kept(@, DOMAIN @ \ {k})]
      /\ UNCHANGED <<alive, current_def>>
      /\ uses' = Retained(uses)

(* Each of the operands of u leaves the list of its value: user_release    *)
(* and release_all_operands.                                               *)
Released(u) ==
  [v \in Vals |-> Without(users[v], {i \in ToSet(operands[u]) : usee(i) = v})]

release_all_operands(u) ==
  /\ u \in alive
  /\ users' = Released(u)
  /\ operands' = [operands EXCEPT ![u] = <<>>]
  /\ UNCHANGED <<alive, current_def>>
  /\ uses' = Retained(uses)

(* A slip: definitions are no operands and are left out.                   *)
replace_selfOperands(v, w) ==
  LET moved == ToSet(users[v]) \ PureUses
  IN  /\ v \in alive /\ w \in alive /\ v # w
      /\ users' = [users EXCEPT ![w] = @ \o Without(users[v], PureUses), ![v] = Without(@, moved)]
      /\ uses' = [i \in DOMAIN uses |->
                    IF i \in moved THEN [uses[i] EXCEPT !.usee = w] ELSE uses[i]]
      /\ UNCHANGED <<alive, operands, current_def>>

replace_self(v, w) ==
  /\ v \in alive /\ w \in alive /\ v # w
  /\ users' = [users EXCEPT ![w] = @ \o users[v], ![v] = <<>>]
  /\ uses' = [i \in DOMAIN uses |->
                IF i \in ToSet(users[v]) THEN [uses[i] EXCEPT !.usee = w] ELSE uses[i]]
  /\ UNCHANGED <<alive, operands, current_def>>

(* ~User releases the operands, and ~Val the uses that are left.  SSA      *)
(* construction erases loads, stores, phis and variables, those that have  *)
(* a value only after replace_self, and no blocks: nothing is destroyed    *)
(* that a pure use belongs to.                                             *)
Destruct(v) ==
  LET operands1 == [u \in Users |-> IF u = v THEN <<>> ELSE operands[u]]
      users1    == IF v \in Users THEN Released(v) ELSE users
      left      == ToSet(users1[v])
  IN  /\ v \in alive
      /\ \A i \in PureUses : v # user(i) /\ v # usee(i)
      /\ operands' = [u \in Users |-> Without(operands1[u], {i \in left : user(i) = u})]
      /\ users' = [users1 EXCEPT ![v] = <<>>]
      /\ alive' = alive \ {v}
      /\ UNCHANGED current_def
      /\ uses' = Retained(uses)

(* A slip: the old definition stays in the list.                           *)
def_valKept(x, b, v) ==
  /\ b \in alive /\ v \in alive
  /\ \E i \in Uses \ DOMAIN uses :
       /\ users' = [users EXCEPT ![v] = Append(@, i)]
       /\ current_def' = With(current_def, <<x, b>>, i)
       /\ UNCHANGED <<alive, operands>>
       /\ uses' = Retained(With(uses, i, [user |-> b, usee |-> v]))

(* SSA_pass::def_val: the old definition goes, the new one is a new use.   *)
def_val(x, b, v) ==
  LET d == <<x, b>>
      erased == IF d \in DOMAIN current_def
                THEN [users EXCEPT ![usee(current_def[d])] = remove_use(@, current_def[d])]
                ELSE users
  IN  /\ b \in alive /\ v \in alive
      /\ \E i \in Uses \ DOMAIN uses :
           /\ users' = [erased EXCEPT ![v] = Append(@, i)]
           /\ current_def' = With(current_def, d, i)
           /\ UNCHANGED <<alive, operands>>
           /\ uses' = Retained(With(uses, i, [user |-> b, usee |-> v]))

(* SSA_pass::~SSA_pass, one definition after the other.                    *)
erase_blk_def(d) ==
  LET i == current_def[d]
  IN  /\ users' = [users EXCEPT ![usee(i)] = remove_use(@, i)]
      /\ current_def' = [e \in DOMAIN current_def \ {d} |-> current_def[e]]
      /\ UNCHANGED <<alive, operands>>
      /\ uses' = Retained(uses)

Next ==
  \/ \E v \in Vals : Construct(v) \/ Destruct(v)
  \/ \E v, w \in Vals : replace_self(v, w)
  \/ \E u \in Users :
       \/ release_all_operands(u)
       \/ \E v \in Vals : add_operand(u, v)
       \/ \E k \in DOMAIN operands[u] :
            release_operand(u, k) \/ \E v \in Vals : change_operand(u, k, v)
  \/ \E x \in Variables, b \in Users, v \in Vals : def_val(x, b, v)
  \/ \E d \in DOMAIN current_def : erase_blk_def(d)

Spec == Init /\ [][Next]_vars
-----------------------------------------------------------------------------
(* The types, and that the uses there are are those some list holds.       *)
TypeOK ==
  /\ alive \subseteq Vals
  /\ operands \in [Users -> Seq(Uses)]
  /\ users \in [Vals -> Seq(Uses)]
  /\ DOMAIN current_def \subseteq Variables \X Users
  /\ current_def \in [DOMAIN current_def -> Uses]
  /\ uses \in [Held -> [user : Users, usee : Vals]]

UsesAreListed ==
  \A i \in DOMAIN uses :
    /\ user(i) \in alive /\ usee(i) \in alive
    /\ i \in ToSet(users[usee(i)])
    /\ i \in ToSet(operands[user(i)]) <=> i \notin PureUses

UsersAgree ==
  \A v \in Vals : IsInjective(users[v]) /\ \A i \in ToSet(users[v]) : usee(i) = v

OperandsAgree ==
  \A u \in Users : IsInjective(operands[u]) /\ \A i \in ToSet(operands[u]) : user(i) = u

DefinitionsAgree ==
  IsInjective(current_def) /\ \A d \in DOMAIN current_def : user(current_def[d]) = d[2]

(* A use stands once in the users of its usee and in no other list of      *)
(* users, once in the operands of its user and in no other operands, or it *)
(* is the definition of one variable in the block that is its user; both   *)
(* its user and its usee exist.  The pointers of a Use dangle otherwise,   *)
(* and the destructors write through them (src/src/ir_val.cpp:78-92).      *)
ChainsAgree == UsesAreListed /\ UsersAgree /\ OperandsAgree /\ DefinitionsAgree

(* Where the passes see v.                                                 *)
OperandsOf(v) == UNION {{<<u, k>> : k \in {j \in DOMAIN Args[u] : Args[u][j] = v}} : u \in Users}
DefinitionsOf(v) == {d \in DOMAIN Definitions : Definitions[d] = v}

(* A value has as many users as there are operands and definitions that    *)
(* are the value: code without users is removed, and an instruction with   *)
(* one user becomes part of it (users().empty() and users().size() == 1).  *)
UsersAreCounted ==
  \A v \in Vals : Len(users[v]) = Cardinality(OperandsOf(v)) + Cardinality(DefinitionsOf(v))

(* By way of the users of a value, replacing it (replace_self) or          *)
(* destroying it reaches every operand and every definition that is the    *)
(* value, and no other; the order of operands is kept.                     *)
ListsAreSeen == Lists!Spec
=============================================================================
