------------------------------ MODULE Compiler ------------------------------
(***************************************************************************)
(* The compiler up to register allocation: main of src/frontend/main.cpp   *)
(* with -O1 or without, optimize of src/src/opt.cpp and                    *)
(* Convertor::convert of src/src/convert_ir_to_asm.cpp.  The program is    *)
(* converted one definition at a time, then the optimizations run over the *)
(* module in the order of the pipeline, and its functions are selected.    *)
(* What is left of the current stage is the agenda: items [do, f, k,       *)
(* changed], a pass or a method for function f, the k-th of its kind.      *)
(* Stages bounds how much of the pipeline is run.                          *)
(***************************************************************************)
EXTENDS Convertor, Interprocedural, LoopIteration, ValueNumbering, SelectedMachine

CONSTANTS Programs, Inputs, Stages
ASSUME StagesAssumption == Stages \in 0..7

VARIABLES
  prog,    \* the syntax trees of the program
  conv,    \* the Convertor
  pos,     \* the next definition to convert
  mod,     \* the module
  stage,   \* the number of stages of the pipeline begun
  agenda,  \* what is left to do of the stage
  count,   \* opt_cnt of pass_dfa
  code     \* what was selected for the functions
vars == <<prog, conv, pos, mod, stage, agenda, count, code>>

NoModule == [globals |-> <<>>, order |-> <<>>, inlined |-> 0, cached |-> <<>>, funs |-> <<>>]

Init ==
  /\ prog \in Programs
  /\ conv = NewConvertor
  /\ pos = 1
  /\ mod = NoModule
  /\ stage = 0
  /\ agenda = <<>>
  /\ count = 0
  /\ code = <<>>

(* Convertor::generate.                                                    *)
Convert(Single(_, _)) ==
  /\ pos <= Len(prog) /\ ~conv.err
  /\ conv' = Single(conv, prog[pos])
  /\ pos' = pos + 1
  /\ UNCHANGED <<prog, mod, stage, agenda, count, code>>
GenerateSingle == Convert(generate_single)
FinishModule ==
  /\ pos = Len(prog) + 1 /\ ~conv.err
  /\ mod' = ModuleOf(conv)
  /\ pos' = pos + 1
  /\ UNCHANGED <<prog, conv, stage, agenda, count, code>>
-----------------------------------------------------------------------------
Job(do, f) == [do |-> do, f |-> f, k |-> 1, changed |-> FALSE]
ForEach(M, passes) ==
  FlattenSeq([n \in DOMAIN M.order |-> [k \in DOMAIN passes |-> Job(passes[k], M.order[n])]])

(* optimize: its statements one after the other.                           *)
Pipeline(M, n) ==
  CASE n = 1 -> <<Job("unused", ""), Job("inline", "")>>
    [] n = 2 -> ForEach(M, <<"const_propagate", "plain">>)
    [] n = 3 -> <<Job("global2local", "")>>
    [] n = 4 -> ForEach(M, <<"plain", "ssa", "plain">>)
    [] n = 5 -> ForEach(M, <<"dfa">>)
    [] n = 6 -> ForEach(M, <<"canonicalizer", "gep_motion", "fill_zero", "plain", "accumulate", "dse", "plain",
                             "plain", "pointer", "plain", "unroll", "plain", "gvn">>)
    [] n = 7 -> <<Job("uninitialized", ""), Job("unused", ""), Job("select", "")>>

(* With -O1.                                                               *)
MemoizeFunctions ==
  /\ pos = Len(prog) + 2 /\ stage = 0 /\ DOMAIN mod.cached = {}
  /\ mod' = memoi_wrapper(mod)
  /\ UNCHANGED <<prog, conv, pos, stage, agenda, count, code>>

BeginStage ==
  /\ pos = Len(prog) + 2 /\ agenda = <<>> /\ stage < Stages /\ ~Crashed(mod)
  /\ stage' = stage + 1
  /\ agenda' = Pipeline(mod, stage')
  /\ UNCHANGED <<prog, conv, pos, mod, count, code>>

Doing(do) == agenda # <<>> /\ Head(agenda).do = do /\ ~Crashed(mod)
Current == Head(agenda)
Cur == mod.funs[Current.f]
Then(items) == agenda' = items \o Tail(agenda)
Still == UNCHANGED <<prog, conv, pos, stage, code>>

(* remove_unused_function, inline_all_function.                            *)
OnModule(do, Opt(_)) ==
  /\ Doing(do)
  /\ mod' = Opt(mod)
  /\ UNCHANGED count /\ Still
RemoveUnused == OnModule("unused", remove_unused_function) /\ Then(<<>>)
InlineAll ==
  /\ OnModule("inline", inline_all_function)
  /\ Then(IF mod'.inlined = 0 THEN <<Job("unused", "")>>
          ELSE ForEach(mod, <<"plain">>) \o <<Job("unused", ""), Job("inline", "")>>)
GlobalsToLocals == OnModule("global2local", global2local) /\ Then(<<>>)
-----------------------------------------------------------------------------
(* plain_opt_bb: five methods whose changes call for another round, then   *)
(* two more.                                                               *)
AgainChanged(changed) == IF changed THEN <<[Job("plain", Current.f) EXCEPT !.changed = TRUE]>> ELSE <<>>
Again(changed) == IF changed THEN <<Job("plain", Current.f)>> ELSE <<>>
Method(k, Opt(_, _)) ==
  /\ Doing("plain") /\ Current.k = k
  /\ mod' = [mod EXCEPT !.funs[Current.f] = Opt(mod, @)]
  /\ LET changed == Current.changed \/ (k <= 5 /\ mod' # mod)
     IN Then(IF k < 7 THEN <<[Current EXCEPT !.k = k + 1, !.changed = changed]>>
             ELSE Again(changed))
  /\ UNCHANGED count /\ Still
JoinBlocks == Method(1, LAMBDA M, F : opt_join_blocks(F))
SimplifyBranches == Method(2, LAMBDA M, F : opt_simplify_branch(F))
RemoveSimpleBranches == Method(3, opt_remove_simple_branch)
RemoveUnreachable == Method(4, LAMBDA M, F : opt_remove_unreachable_block(F))
RemoveOnlyJumps == Method(5, LAMBDA M, F : opt_remove_only_jump_block(F))
Trivial == Method(6, LAMBDA M, F : opt_trivial(F))
RemoveDeadCode == Method(7, opt_remove_dead_code)
PlainOptimization ==
  \/ JoinBlocks \/ SimplifyBranches \/ RemoveSimpleBranches \/ RemoveUnreachable
  \/ RemoveOnlyJumps \/ Trivial \/ RemoveDeadCode
-----------------------------------------------------------------------------
Counting(do, Opt(_)) ==
  /\ Doing(do)
  /\ LET R == Opt(Cur)
     IN /\ mod' = [mod EXCEPT !.funs[Current.f] = R.F]
        /\ count' = count + R.cnt
  /\ Then(<<>>) /\ Still
ConstPropagate == Counting("const_propagate", const_propagate)
DeadStores == Counting("dse", dse)
Rebuild(do, Opt(_, _)) ==
  /\ Doing(do)
  /\ mod' = [mod EXCEPT !.funs[Current.f] = Opt(mod, @)]
  /\ Then(<<>>) /\ UNCHANGED count /\ Still
Reconstruct == Rebuild("ssa", LAMBDA M, F : reconstruct(F))
Canonicalizer == Rebuild("canonicalizer", LAMBDA M, F : canonicalize(F))
LoopGEPMotion == Rebuild("gep_motion", LAMBDA M, F : loop_gep_motion(F))
FillZeroLoops == Rebuild("fill_zero", replace_init_with_fill_zero)
ArrayAccumulate == Rebuild("accumulate", LAMBDA M, F : array_accumulate(F))
PointerIteration == Rebuild("pointer", LAMBDA M, F : pointer_iteration(F))
LoopUnrolling == Rebuild("unroll", LAMBDA M, F : loop_unrolling(F))
Choosing(do, Options(_), Opt(_, _)) ==
  /\ Doing(do)
  /\ \E c \in Options(Cur) : mod' = [mod EXCEPT !.funs[Current.f] = Opt(@, c)]
  /\ Then(<<>>) /\ UNCHANGED count /\ Still
GlobalValueNumbering == Choosing("gvn", MissedOnce, func_pass_gvn)
LoopPass ==
  \/ Canonicalizer \/ LoopGEPMotion \/ FillZeroLoops
  \/ ArrayAccumulate \/ PointerIteration \/ LoopUnrolling \/ GlobalValueNumbering

(* pass_dfa: at most MAX_OPT_COUNT rounds for a function, until one leaves *)
(* everything as it was.                                                   *)
MAX_OPT_COUNT == 8
DataFlowRound ==
  /\ Doing("dfa")
  /\ Then(IF Current.k > MAX_OPT_COUNT \/ (Current.k > 1 /\ count = 0) THEN <<>>
          ELSE <<Job("dse", Current.f), Job("plain", Current.f), Job("const_propagate", Current.f),
                 Job("plain", Current.f), [Current EXCEPT !.k = @ + 1]>>)
  /\ count' = 0
  /\ UNCHANGED mod /\ Still
-----------------------------------------------------------------------------
(* Convertor::convert: the call of the initializer goes, then every        *)
(* function is selected and freed of moves and jumps that do nothing.  The *)
(* code has its registers by then; that makes more moves idle, no fewer.   *)
remove_unused_initialization(M) ==
  LET unused == "__buildin_initializer"
      callers == {f \in DOMAIN M.funs : Calls(M.funs[f], unused) # {}}
      f == CHOOSE g \in callers : TRUE
      i == Min(Calls(M.funs[f], unused))
  IN IF callers = {} THEN M ELSE [M EXCEPT !.funs[f] = EraseInstr(@, BlockOf(@, i), i)]
RemoveInitialization == OnModule("uninitialized", remove_unused_initialization) /\ Then(<<>>)
SelectAll ==
  /\ Doing("select") /\ Current.f = ""
  /\ Then(ForEach(mod, <<"select", "peephole">>))
  /\ UNCHANGED <<mod, count>> /\ Still
Backend(do, Code1(_)) ==
  /\ Doing(do) /\ Current.f # ""
  /\ code' = Code1(Current.f)
  /\ UNCHANGED <<prog, conv, pos, stage, count>>
SelectFunction ==
  /\ Backend("select", LAMBDA f : (f :> translate(mod, f)) @@ code)
  /\ mod' = [mod EXCEPT !.funs[Current.f].crash = code'[Current.f].thrown]
  /\ Then(<<>>)
Peephole ==
  /\ Backend("peephole", LAMBDA f : [code EXCEPT ![f] = peephole(@)])
  /\ Then(IF code' = code THEN <<>> ELSE <<Current>>)
  /\ UNCHANGED mod

Next ==
  \/ GenerateSingle \/ FinishModule \/ MemoizeFunctions \/ BeginStage
  \/ RemoveUnused \/ InlineAll \/ GlobalsToLocals
  \/ PlainOptimization
  \/ ConstPropagate \/ DeadStores \/ Reconstruct \/ DataFlowRound \/ LoopPass
  \/ RemoveInitialization \/ SelectAll \/ SelectFunction \/ Peephole

Converted == pos = Len(prog) + 2
Finished == Converted /\ stage = Stages /\ agenda = <<>>
Stopped == conv.err \/ Crashed(mod) \/ Finished

(* A compiler runs until it stops: weak fairness of Next, spelled out with *)
(* the states in which Next is not enabled.                                *)
Spec == Init /\ [][Next]_vars /\ ([]<>Stopped \/ []<><<TRUE>>_vars)
-----------------------------------------------------------------------------
(* Whatever pass ran last, the module in memory does what the program      *)
(* means, for every input for which it means something: it prints the same *)
(* numbers and main returns the same one.  This is what test_2024.cpp asks *)
(* of the finished program.                                                *)
SameMeaning(M) ==
  \A in \in Inputs : LET want == Meaning(prog, in) IN want.st = "done" => IRMeaning(M, in) = want
MeaningKept == [][mod' # mod /\ ~Crashed(mod') => SameMeaning(mod')]_vars

(* The code selected for the whole program does the same, and does so      *)
(* after every round of the peephole optimizations.                        *)
SameCodeMeaning(M, C) ==
  \A in \in Inputs : LET want == Meaning(prog, in) IN want.st = "done" => CodeMeaning(M, C, in) = want
CodeMeaningKept ==
  [][code' # code /\ DOMAIN code' = DOMAIN mod'.funs /\ ~Crashed(mod') => SameCodeMeaning(mod', code')]_vars

(* The converter throws for no program that is well formed: every scope,   *)
(* constant and conversion of a legal program finds its case.              *)
Accepted == ~conv.err

(* No pass reads what is gone, divides by zero for the program or turns in *)
(* circles: the lists of uses are not walked past their end, blocks are    *)
(* not joined to themselves, analyses come to rest.                        *)
NoCrash == ~Crashed(mod)

(* Between the steps of plain_opt_bb every phi has a value for each of its *)
(* block's predecessors: what check_invalid_phi asserts there.             *)
PhisComplete ==
  agenda # <<>> /\ Current.do = "plain" /\ Current.k \in 2..6 => NoInvalidPhi(Cur)

(* Every operand of an instruction in place is the result of one that runs *)
(* before it on every path; for a phi, before the end of that path.        *)
Results(x) == {o[2] : o \in {a \in ToSet(x.args) : IsRef(a)}}
DefinitionsAbove(F) ==
  LET D == build_dom(F)
      Defined(S) == UNION {ToSet(F.body[c]) : c \in S}
      OfPhi(x) == \A k \in 1..phi_pairs(x) :
                  LET p == phi_label(x, k)
                  IN p \in DOMAIN D.dom /\ IsRef(phi_val(x, k)) => phi_val(x, k)[2] \in Defined(D.dom[p])
      Block(b, above) ==
        \A k \in DOMAIN F.body[b] :
          LET x == F.ins[F.body[b][k]]
          IN IF x.op = "phi" THEN OfPhi(x) ELSE Results(x) \subseteq above \cup ToSet(SubSeq(F.body[b], 1, k - 1))
  IN \A b \in DOMAIN D.dom : Block(b, Defined(D.dom[b] \ {b}))

DefinitionsDominate == \A f \in DOMAIN mod.funs : ~mod.funs[f].crash => DefinitionsAbove(mod.funs[f])

UseListsExact(F) ==
  LET Uses(b, i) == Cardinality({k \in DOMAIN F.ins[i].args : F.ins[i].args[k] = Label(b)})
      Listed(b, i) == Cardinality({k \in DOMAIN F.users[b] : F.users[b][k] = i})
  IN /\ DOMAIN F.ins = Alive(F)
     /\ DOMAIN F.users = ToSet(F.blocks)
     /\ \A i \in DOMAIN F.ins : \A b \in LabelsIn(F.ins[i].args) : Listed(b, i) = Uses(b, i)
     /\ \A b \in DOMAIN F.users : \A i \in ToSet(F.users[b]) : Label(b) \in ToSet(F.ins[i].args)
(* The uses a label lists are the operands that name it, no more and no    *)
(* less: in_blocks, squeeze_out and erase_from_phi rely on the lists, the  *)
(* code that is printed on the operands.                                   *)
UseListsAgree == \A f \in DOMAIN mod.funs : ~mod.funs[f].crash => UseListsExact(mod.funs[f])

(* The compiler comes to an end: plain_opt_bb, which repeats while a round *)
(* changes something, cannot go round for ever, nor can inlining.          *)
Terminates == <>Stopped
=============================================================================
