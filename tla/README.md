# A verification of the Staisp compiler

Staisp compiles SysY, a subset of C, to RISC-V assembly. It is a sequential C++
program without persistent state: what is hard about it is not concurrency but
long chains of passes over shared, mutable structures, worklists that have to
reach the right fixed point in whatever order they run, iteration over hash
maps and unstable sorts whose order is not defined, and the agreement between
what one pass records and another one believes. A wrong step seldom crashes; it
produces a program that computes something else.

This directory holds TLA+ modules of the parts of the compiler that carry its
logic, TLC configurations that check them on small instances, and theorems with
proofs checked by TLAPS. `PROJECT.json` lists the runs, the source lines every
definition stands for, the hazards and which properties cover them.

## The system

    lexer/parser -> AST -> Convertor (AST to IR) -> [memoi_wrapper, with -O1]
      -> Optimize::optimize -> Backend::Convertor -> assembly

`optimize` is a fixed sequence of passes over one mutable module; the backend
takes each function through selection, the peephole optimizations, liveness,
allocation and rewriting. Two models cover this. `Compiler` starts from the
syntax trees and ends at selected code whose registers are still virtual; what a
program means is defined at three levels (trees, intermediate code, selected
code) and compared after every pass. `Func` and `Execution` start from selected
code in the form the allocator looks at and end at code that runs on a machine
with registers and a frame.

| component | state | operations | hard parts | correct when |
|---|---|---|---|---|
| AST to IR (`convert_ast_to_ir.cpp`, `env.h`) | scopes, current function, loop stack | lower declarations, control flow, `&&`/`||` | scopes of nested blocks, short circuit | every name means its innermost declaration; an operand right of `&&` is evaluated only if needed |
| Memoization (`trans_wrapper.cc`) | VALID, KEY, VALUE tables in the compiled program | hit, get, put; renaming of calls | recursion between the miss and the put, aliasing keys, purity test | a cached call returns what the function returns |
| Use-def chains (`ir_val`, `ir_instr`, `ir_phi_instr`) | users of a value, operands of an instruction | add, release, change an operand, replace a value | lists modified while somebody walks over them | users and operands mirror each other |
| IR control flow (`ir_block.cpp`, `opt_plain.cpp`) | blocks with terminators, phis by predecessor | squeeze a branch, join, bypass and delete blocks | phis must follow every change of an edge | each phi has one value per predecessor |
| Dominators, loops (`alys_*.cc`) | dominator tree, natural loops | build | unreachable blocks, shared headers | idom is the nearest strict dominator |
| SSA construction (`trans_SSA.cc`) | current definitions, sealed blocks, incomplete phis | read, write, seal, remove a trivial phi | recursion through loops, definitions that are removed later | a read sees the last write on every path |
| Data flow, constant propagation, DSE (`opt_DFA.h`, `opt_const_propagate.cpp`, `opt_DSE.cpp`) | IN and OUT per block, worklist | merge, transfer | termination, what is merged at joins | a constant is a constant on every path |
| Loop passes (`trans_loop.cc`, `opt_ptr_iter.cpp`, `opt_array_accumulate.cpp`) | loop descriptions | unroll, fold, fill | bounds, overflow, steps other than one | same stores and results as the loop |
| GVN, inlining (`opt_GVN.cpp`, `opt_interprocedural.cpp`) | value classes, cloned bodies | merge, hoist, inline | order of equal expressions | same values |
| Instruction selection (`convert_ir_to_asm.cpp`) | virtual register map, frame locals | one conversion per IR instruction | phi copies, tail calls, fused instructions | machine code means what the IR means |
| Liveness (`bkd_func.cpp`) | block graph, numbering, IN, OUT, live ranges | five passes | fixed point, numbering, ranges of reads and writes in one instruction | two values needed at once have conflicting ranges |
| Register allocation (`bkd_reg_alloc.cpp`) | statuses, queue, registers' occupants and their ranges, hints, spill slots | try, split, spill, rewrite | partial scan of ranges, undefined orders, blocks without numbers, temporaries | no value is overwritten while it is needed |
| Stack frame (`bkd_func.h`) | offset, locals, argument area | push, reserve arguments, compute addresses | alignment, growing downwards | no two objects share a byte |
| Prolog, epilog (`convert_ir_to_asm.cpp`) | saved registers | save, restore | order of passes, offsets | the caller's registers survive |
| Peephole (`bkd_peephole.cpp`) | layout of blocks | drop self moves and jumps to the next block | blocks that become empty | same control flow |

What is left out is listed under "Not modelled".

## The modules

| module | models | state and actions |
|---|---|---|
| `MachineCode` | instructions as the allocator sees them (`bkd_instr.h`, `bkd_block.h`): operands written (`def`) and read (`use`), jump label, whether it is a move | operators only |
| `LiveRange` | `LiveRange::conflict`, `operator<`, the order of `occupied_range_map`, and the part of it that `try_allocate` looks at | operators only; `Overlap` is what `conflict` is meant to decide |
| `StackFrame` | `StackFrame::push`, `spill_args`, `size`, `Func::translate(StackObjectType)` | operators on a frame record |
| `FrameLayout` | the frame while a function is compiled | `frame`; `Alloca`, `PushDoubleword`, `CallWithStackArgs` |
| `Liveness` | `build_block_graph`, `build_block_def_use`, `number_instruction`, `liveness_analysis` | a step is a pass, an activation of the recursive numbering, a turn of the worklist, or an instruction of the backward scan |
| `RegAlloc` | `allocate_hint` to `rewrite_operands`, `spill`, `add_saved_register` | a step is a pass, a turn of the queue's loop (`TryAllocate`, `TrySplit`, `SpillOperand`) or the rewriting of one operand |
| `Func` | `Func::passes` from the block graph to `rewrite_operands` | composes `Liveness` and `RegAlloc` over shared blocks, numbers and ranges |
| `VirtualMachine` | what the code means before allocation: the abstract specification | `env`; `Call`, `Execute`, `TailCall` |
| `Execution` | the compiled code on a machine with registers and a frame: `generate_prolog`, the spill code, `generate_epilog` | `regs`, `mem`; `Compile` (= `Func`), `Prolog`, `Run`, `TailCall`, `Epilog`; refines `VirtualMachine` |
| `Types` | `type.h`, `imm.cpp`, `value.h`: types, the order of `ImmType` that `join_imm_type` uses, constants and what the compiler calculates with them | operators only |
| `IR` | `ir_val`, `ir_instr`, `ir_block`, `ir_phi_instr`: blocks, instructions by number, the list of uses of every label; `replace_self`, `squeeze_out`, `replace_in`, `erase_from_phi`, the release of values | operators on a function record |
| `IRMachine` | what a module of the intermediate code does when it runs, `getint`, `putint`, `__builtin_fill_zero` and memoized calls included | `IRMeaning`: a recursive evaluator |
| `SysY` | the syntax trees of `ast_node.h` and what a program means by the rules of the language: the reference | `Meaning` |
| `Convertor` | `AstToIr::Convertor`: scopes, constants, initializer lists, `&&` and `\|\|`, loops, functions, the initialization that main gets | operators on the state of the object (`ctx`, `env`, `cenv`, `loops`, ...) |
| `Simplify` | `opt_plain.cpp` and the parts of `ir_block.cpp` it uses: the seven methods of `plain_opt_bb` | one operator per method |
| `Dominators` | `alys_dom.cc`, `alys_loop.cc` | operators only |
| `SSA` | `trans_SSA.cc`: `current_def`, sealed blocks, incomplete phis | the state of the pass, folded over the blocks |
| `DataFlow` | the worklists of `opt_DFA.h`, constant propagation, dead store elimination | operators only; a step of a worklist is one step of a recursion |
| `Interprocedural` | inlining, globals into locals, unused functions, and `is_purely_recursive` and `ap` of `trans_wrapper.cc` | operators on a module |
| `LoopMotion` | canonical comparisons, preheaders, motion out of loops (`trans_loop.cc`) | operators only |
| `LoopIteration` | `detect_iteration`, loops that clear or add up an array, indices into pointers, unrolling by eight (`opt_array_accumulate.cpp`, `opt_ptr_iter.cpp`) | operators only |
| `ValueNumbering` | `opt_GVN.cpp`: rounds over touched instructions, congruence, hoisting, merging of phis | the state of the pass |
| `Selection` | `convert_ir_to_asm.cpp` for integers, and `bkd_peephole.cpp` | operators on a `ConvertBulk` record |
| `SelectedMachine` | what selected code does: activations with virtual registers, variables of the frame, stack arguments | `CodeMeaning` |
| `Compiler` | `main`, `optimize`, `pass_inline`, `plain_opt_bb`, `pass_dfa`, `Convertor::convert`: the pipeline | `prog`, `conv`, `pos`, `mod`, `stage`, `agenda`, `count`, `code`; one action per pass or method |
| `Samples` | parts of programs to compile | definitions for TLC |
| `OperandLists` | what the passes take the intermediate code for: lists of operands, and SSA construction's definitions: an abstract specification | `alive`, `args`, `defs`; one action per operation |
| `UseDef` | `ir_val.cpp`: `Use` objects in two lists at once, and the pure uses of `trans_SSA.cc` | `alive`, `operands`, `users`, `uses`, `current_def`; one action per operation, destructors included; refines `OperandLists` |
| `PureFunction` | what the callers of a recursive function see: an abstract specification | `request`, `answer`; `Ask`, `Reply` |
| `Memo` | the memoized functions in the compiled program: `f_cached` (`construct`), `__hit`, `__get`, `__put` and the tables (`bk_fill`), every call renamed (`ap`) | tables `VALID`, `KEY`, `VALUE`, the stack, `s1`-`s3`, the return register; `Call`, `CachedHit`, `CachedMiss`, `Recurse`, `Return`, `Resume`, `Reply`; refines `PureFunction` |
| `MemoHash` | `__hash` | operators only, for TLC; `Memo` has the hash as a parameter |
| `Lemmas` | theorems about ranges and frames, and about sequences and finite sets | |
| `Liveness_proofs`, `RegAlloc_proofs`, `Func_proofs`, `Execution_proofs`, `FrameLayout_proofs`, `UseDef_proofs`, `Memo_proofs` | theorems about the module they are named after | |
| `MCLiveness`, `MCRegAlloc`, `MCExecution`, `MCWeights`, `MCMemo`, `MCMiddle`, `MCLoops` | constants and families of programs for TLC; `MCListed.cfg`, `MCSettled.cfg` and `MCSwapped.cfg` run `MCLoops` on other families; `FrameLayout` and `UseDef` are run as they are | |

How the model stands for the code:

- Blocks are named by their position, instructions by block and index, virtual
  operands by the numbers `allocate_init` gives them. These numbers follow the
  order of an unordered map, so any naming is possible; no property depends
  on it.
- A list of ranges is a set of ranges. Two of them differ even if they have the
  same ends, as where the first instruction of a block reads an operand and writes
  it again for nobody: `start`, which the code does not have, tells them apart, so that
  `spill` and `rewrite_operands` visit the instruction twice (`Visits`). The code sorts the list by `fromNum` alone with
  an unstable sort, so its first element is any range with the least `fromNum`;
  `FirstRanges` is that choice. Entries of the priority queue with equal
  priorities leave it in any order (`Top`). `rewrite_operands` runs over a hash
  map: `RewriteOperand` takes any operand that is left.
- The code inserts spill loads and stores as instructions. The model keeps them
  in the sequences `before` and `after` of the instruction they were inserted
  around, because the numbering of instructions is not renewed and nothing looks
  at the inserted ones again.
- The branch of `try_allocate` that evicts cannot be reached (see the findings),
  and has no action.
- Weights are kept doubled, so that the factor 1.5 stays a natural number.
- `Vals` and `Uses` of `UseDef` are addresses: what was freed may come again, and a
  `Use` is freed with the last list or definition that holds it (`shared_ptr`).
  Every method of `Val` and `User` and both destructors are one action each,
  loops over the other list included; `~SSA_pass` forgets one definition at a
  time. Callers may take them in any order. Two things are asked of them, both of SSA construction: what a
  definition belongs to or stands for is replaced or forgotten before it is destroyed.
  `IR`, which the passes are written with, keeps lists of uses only for
  labels, the ones passes walk while they change; for other values it reads the users off
  the operands, which is what `OperandLists` allows.
- `f_cached` is straight-line code without other threads: a step of `Memo` is
  what it does between two transfers of control to and from the body of f. The
  body itself is a parameter: after the calls whose results it has, which call
  it makes next (`NextCall`) or what it returns (`Result`). `PureAssumption`
  says that this depends on nothing else and that it computes `Fn`; it is what
  `is_purely_recursive` has to establish.
- In `Compiler` the program is a choice of `Init`; each definition of the program
  is converted in one step (`GenerateSingle`), then `agenda` holds what is left
  of the current stage of `optimize` and every step runs its first item on one
  function. `plain_opt_bb` is seven actions, one for each method, and goes on
  while one of the first five changes something; `pass_dfa` does at most
  eight rounds. `MemoizeFunctions` is -O1 and may be taken or not.
- Passes are operators and not actions of their own: they are sequential
  loops over one function. They keep the order in which the code visits things
  where this order decides what comes out (uses of a label that change while
  they are walked, phis that complete one another, worklists).
- What C++ leaves undefined, an assertion or an exception inside a pass sets
  `crash` of the function and stops the compiler; `NoCrash` says that it does not
  happen.
- Containers ordered by address or by a hash are taken in the order of numbers.
  The exceptions are unordered sets of at most two elements, which give the last
  one inserted first, and the set of expressions in GVN: its comparison is no
  order, so a search may miss a congruent expression. `GlobalValueNumbering`
  chooses which instruction is missed, at most one in each function.
- An integer has `IntBits` bits when the program runs and an immediate of the
  machine 3/8 of that, as 12 of 32. Memory is a sequence of objects of cells; an address
  counts bytes in selected code. What was not written is `Undef`; a program that
  uses it, overflows, leaves an array or divides by zero has no meaning by the
  rules of the language, and nothing is asked of its code.
- The peephole optimizations come right behind selection, where the code runs
  them after allocation. They look at idle moves and at the last instruction of
  a block only, so more moves are idle then, none fewer. What `back()` reads in a
  block that a round has emptied counts as no jump.
- `f_cached` in `IRMachine` and `SelectedMachine` keeps every result for ever.
  What replaced entries and restored registers do is the matter of `Memo`; here the question is
  whether `is_purely_recursive` lets only such functions through that may be
  remembered.
- Definitions whose comment calls them a slip or a variant with a mistake are variants of a definition with a
  plausible mistake in it; no specification uses them. Each shows that some
  property notices the mistake.

## What is checked

| run | states | shows |
|---|---|---|
| `liveness` | 87 495 | all 3 125 functions of a prolog and two more blocks over five bodies and five ways to leave each block: loops, self loops, unreachable blocks. The worklist ends (`AnalysisTerminates`), never loses a block it has to look at again (`PendingCoversChanges`), and ends at the liveness that paths through the graph define (`AnalysisIsLiveness`). Operands needed at one time have conflicting ranges (`InterferenceCovered`); every mention of an operand lies in one of its ranges and has a number that leads back to it (`RangesCoverMentions`), and at most two ranges of one operand of them meet, where the operand is written (`ReadyForAllocation`). |
| `allocation` | 37 906 | straight-line functions of all triples of twelve instructions, with fewer registers than live operands. The maps agree (`AllocInv`), no register serves two live values (`NoClobber`), operands go to memory only if they have to (`SpilledUnderPressure`) and end in exactly one place (`EveryOperandPlaced`); slots, saved registers and variables are apart (`SlotsApart`); reloads use different temporaries of the right class (`ReloadsApart`); the code left is free of virtual operands and saves what it must (`CodeIsPhysical`); every turn of the queue takes one operand further and moves none that is placed (`QueueAdvances`), and the queue empties (`AllocationTerminates`). |
| `frame` | 4 665 | up to four variables or slots of sizes around the alignment rules, and argument areas, in every order: `NoByteShared`, `Aligned`. |
| `execution` | 193 586 | functions of four blocks with a loop that calls, computes with floats, compares and copies, and of five with a tail call where the loop would go back, are compiled for a machine with three registers and run on every path with two values. At each instruction the compiled code reads the values that the code before allocation reads (`CompiledCodeImplementsSource`), and the caller gets its registers and its return address (`CallerStateRestored`). |
| `memo` | 47 302 | Fibonacci and a nested recursion with the hash of the code, on thirteen keys that share entries of the table, called in any order with whatever the earlier calls left there. Every valid entry holds its function's value (`CacheIsSound`), the callee-saved registers come back (`RegistersRestored`), callers see the function (`CachedCallsAreTransparent`), and every call ends (`EveryCallReturns`). |
| `usedef` | 7 928 | every sequence of operations on three values, two of them with operands, with up to three uses at a time and one variable in SSA construction. A use is in the right two lists, once (`ChainsAgree`); a value has as many users as operands and definitions are the value, which is what removal of unused code goes by (`UsersAreCounted`); replacing or destroying a value reaches each of them and nothing else (`ListsAreSeen`, the refinement of `OperandLists`). |
| `middle` | 30 957 | programs with every kind of statement, operator, scope, constant, array, initializer list and call, and with known and unknown branches, loops, early returns and globals, go through the first five stages, with -O1 and without. The converter accepts them (`Accepted`). After it, after every pass and every method the module means what the program means (`MeaningKept`), every phi has a value for each predecessor (`PhisComplete`), the uses a label lists are those the operands name (`UseListsAgree`), operands are computed before they are used on every path (`DefinitionsDominate`), no pass reads what is gone (`NoCrash`), and the repetitions end (`Terminates`). |
| `loops` | 14 094 | the whole pipeline on loops that count up to a bound, by one or by two, with `<=`, `>=`, `!`, breaks, continues and nested loops; arrays that are cleared, filled and added up; functions with ten parameters, tail calls, pointers to arrays of arrays and memoized recursion; expressions that are computed on two branches. `MeaningKept`, `DefinitionsDominate` and `NoCrash` as above, and the selected code means the same after every round of the peephole optimizations (`CodeMeaningKept`). |
| `weights`, `listed`, `settled`, `swapped` | | the findings below. |

Bounds. Three blocks are enough for a loop, a nested or irreducible pair of
loops and a join; the worklist's order matters from two blocks on. The bodies
contain a write, a read-modify-write, a move in both directions between virtual
and physical registers and a call, two operands suffice for every relation
between two ranges. For the allocator three integer operands compete for two
registers, one of them callee-saved and the other used by calls, so that hard
conflicts, soft conflicts, hints, coalescing and spills of one or two operands
of one instruction all occur. The frame's alignment rules look at most 16 bytes
back. In `execution` two values tell all operands apart, since an
instruction's result may be either. Its four blocks are the prolog, a loop, what follows it,
and the return; with a tail call they are the prolog, the work, the tail call, what
is done without it, and the return.

In `usedef` three uses are enough for a list in which an element has another one before or behind it, for one
value twice among the operands of an instruction, for an instruction that is its
own operand (a phi) and for a use of the same value by a definition; with two
users, of which each may be a value, lists of different owners can be mixed up.

The runs of `Compiler` take each program as it is and leave nothing to chance
but the choice of the program, -O1 and what GVN misses, so their states are few and each of
them is costly: a step evaluates the program on every input. `IntBits` is 8
or 12, enough for sums to exceed an immediate (3 and 4 bits) and for two
numbers of the inputs to be far from overflow where the program is meant to be
defined. `MaxFuel` bounds the blocks a run enters: a run that uses it up counts as
stuck, which differs from every meaning, so that no program passes because it did
not end. `MaxVisits` bounds the turns of a worklist in the same way: exceeding
it is a crash. `Stages` is how far the pipeline goes. Turns of a loop between 0
and 23 pass through the unrolled loop twice, once or not at all,
with turns left over or none; recursive calls nest four or five deep, over tail calls,
stack arguments and entries of the cache. Inputs are
those that take both sides of the branches of the programs. Loops of ten turns over arrays of ten are what the
loop replacements ask for.

In `memo`, calls of one function share entries with calls of the other, and
ack(1, 3) with ack(0, 1), which is made and entered between its miss and its
put; hits happen at every depth, and the table keeps its contents from one call
to the next.

Fairness. The compiler is one thread that does not wait for anything: as long
as a step is possible it takes one, which is `WF_vars(Next)`. Nothing else is
assumed. `CHECK_DEADLOCK FALSE` is set where the program ends. The same holds for the
compiled program that `memo` runs. `Compiler` says the same with
`[]<>Stopped \/ []<><<TRUE>>_vars`: its `Next` is enabled exactly in the states
that are not `Stopped` (or where -O1 is still to be decided), and TLC need not
evaluate a pass to know whether it could run. `CHECK_DEADLOCK FALSE` in its runs is
for the compiler that has finished.

### Refinement

`VirtualMachine` is a machine with a register for every operand. It may forget
an operand at any time, but cannot execute an instruction that reads a forgotten
one. In `Execution` the operand's value is looked up where the compiler says it
is: in its slot, in its register, or in itself if it is a physical register, as
long as the operand is in the OUT sets the analysis left. So the refinement
fails if a value is overwritten while it is needed, if liveness forgets an
operand, if a reload comes from the wrong place or is overwritten by another, or
if a callee-saved register and a variable share memory. A call that a function makes of
itself in place goes back behind the prolog in both, an edge the block graph does not
have: what the code before allocation reads there it must find in the argument
registers, and the frame still holds the first caller's state.

`OperandLists` has no uses: an operand is a value. `UseDef` implements it when the
operand lists are read through the uses (`Args`, `Definitions`). So `replace_self`, which
only walks the users of a value, has to change every operand and every
definition that is the value, and a destructor has to take out each of them,
and the order of the operands has to stay.

`PureFunction` is asked for a value and gives that of the function. `Memo`
implements it with `request` and `answer` as they are: whatever happens between
is a stutter.

### Findings

`weights`: the comment at `src/src/bkd_reg_alloc.cpp:325` announces "Evict the
origin min_weight_reg.", for operands that weigh more than those that hold a
register. Line 269 puts the softly conflicting registers into
`conflict_hard_set`, line 304 skips every register in there, so `min_weight`
stays 1e308 and line 320 always decides to split. `LighterLoses` states that an
operand is not sent to memory in favour of lighter ones; in the run an operand
of a loop with weight 20 is spilled while one with weight 4 keeps the only
register. The code is slower than meant, not wrong.

`listed`: the tests ask that a compiled program prints what is expected
(`src/test/test_frontend.cpp:49`). `int m[10] = {1, 2, 3}` added up in a loop
gives 0 after `array_accumulate`: constant propagation looks at stores through
`MiniGep` only, an initializer list stores through `ItemInstr`, and
`opt_array_accumulate.cpp:65` takes an element it knows nothing of for one that
was never written.

`settled`: the same test. After unrolling, `opt_ptr_iter.cpp:285-295` finds the
pair of a phi that comes from outside by comparing its value with that of the
copy. A constant from the end of a turn is equal in both as well, so in
`s = s + x; x = 5;` the loop that is left over takes the value of the unrolled
one in every turn.

`swapped`: `src/test/test_backend.cpp:41` asks the same of the machine code. The
moves for the phis of a successor are emitted one after the other
(`convert_ir_to_asm.cpp:900`); a loop that exchanges two variables leaves both with
one value. `reg2mem`, which would take the phis away, is not called.

Programs known to go wrong that no passing run contains; `MCLoops` defines
the first three, and putting their name behind `Programs <-` in `MCLoops.cfg` shows the
counterexample:

- `Twins` (`NoCrash`): GVN compares two phis that agree in every value by the
  value that comes round, and `at(0)` throws (`opt_GVN.cpp:472`).
- `TailFrame` (`CodeMeaningKept`): a call to the function itself in front of a
  return takes over the frame, and with it the local array whose address it
  passes (`convert_ir_to_asm.cpp:613`).
- `GlobalElement` (`MeaningKept`, with -O1): `is_purely_recursive` looks for
  globals in loads, stores and items and not in the `MiniGep` through which an
  element of a global array is read (`trans_wrapper.cc:41`); a function that
  reads one is memoized, and its first result is returned after the array has
  changed. `is_pure` in `ir_block.cpp` does look.
- `a && b` with two bare names, or a comparison before a bare name, becomes a
  bitwise and (`convert_ast_to_ir.cpp:147`): 1 && 2 is 0.

Seen in the code while it was modelled, and not the subject of a run:
`replace_init_with_fill_zero` is off by one for `<=` and ignores a step other
than one (`opt_array_accumulate.cpp:256`); a counter used behind a loop that was
replaced loses its operand; the unrolled loop tests i + 7, which wraps near
the largest number (`opt_ptr_iter.cpp:300`); a store is moved in front of a loop
that may not run (`trans_loop.cc:682`); what is known of arrays where paths
join comes from the first predecessor only (`opt_DFA.h:38`); `erase_from_phi` skips every
second of adjacent uses; GVN may hoist a division above the test that guards
it; an initializer list inside a loop meets an assertion of `arithmetic_ap`. The
model takes the same steps, so programs that do these things would violate the
properties of the runs.

## What is proved

The theorems hold for every set of operands and registers, all functions, and
all hashes, sizes and values, under these assumptions, each named in the module
that declares the constants:

- `OperandAssumption` (`MachineCode`): virtual operands are numbered and are no
  registers; callee-saved and allocatable registers are physical ones.
- `FunctionsAssumption` (`Liveness`, `Func`): a function is a sequence of blocks
  with an instruction in each and labels that lead to blocks, as
  `convert_block` leaves it, before any pass has filled in numbers or edges.
  `INSTR_UNREACHABLE` is left out: selection makes nothing of it, so that its
  block may be empty, and to run into it is undefined in SysY. For
  `Func` its instructions are also spillable (`IsSpillable`): an instruction
  reads at most two virtual operands, three if they are floats (fmadd and its
  kin), and one that reads what it writes reads nothing else. Nothing
  `convert_ir_to_asm.cpp` emits is of another kind. `UnreachedIsEpilog`: a block
  that no jump leads to is the epilog of a function that never returns, since
  the IR blocks nobody jumps to are removed before; it mentions no virtual operand.
- `TempsAssumption` (`RegAlloc`, `Func`): T1, T2, FT0, FT1, FT2 are what `spill`
  takes them for, and none of them is in `REG_ALLOC`.
- `FramesAssumption` (`Func`): the variables of a function are on a frame of
  which `FrameLayout_proofs` shows that `push` leaves it so.
- `InputAssumption` (`RegAlloc`): the analysis has been made (`IsAnalysed`).
  `AllocatorIsFed` proves it of `Liveness`, and so `Func_proofs` does without it.
- `JumpsAssumption` (`Execution`): every block but the last ends in a jump that reads
  nothing (`convert_ir_to_asm.cpp`, lines 98, 402, 515-549, 608 and 891) or in a
  tail call (line 657, behind which `translate` stops at 119), which names physical
  registers only; nothing is
  written behind a jump: `submit_phi`, which copies the values for the phis of the
  successors, is called before the branches are added (lines 506, 601 and 890).
- `ReturnAssumption` (`Execution`): the last instruction of the last block is the
  return, which reads a0 or fa0, if anything.
- `ReadsAssumption` (`Execution`): a move reads something, and selection uses none
  of the registers `spill` takes for itself.
- `WrittenAssumption` (`Execution`): along every way through the blocks a virtual
  operand is written before it is read. The code comes from SSA form, in which a
  variable that may be undefined has become a constant (`undef_val`,
  `trans_SSA.cc:50`); `DefinitionsDominate` is the same of the intermediate code,
  checked after each pass.
- `UsersAssumption` (`UseDef`), `SizesAssumption` (`FrameLayout`) and `PureAssumption` (`Memo`: a memoized
  function is a function).

The argument goes from the analysis over the allocator to the machine.

`Lemmas`: `conflict` decides overlap (`ConflictIsOverlap`) and is symmetric.
`ScanIsComplete`: if the ranges that occupy a register are in order and those of
different operands do not conflict, it is enough to look from the one before
`lower_bound` on: anything earlier ends before that one begins, or before the
new operand does. The rest is what the other modules need of frames and of
sequences; `SetInduction` takes the induction on finite sets from
well-foundedness, since the provers cannot use the library's form of it.

`Liveness_proofs`: type correctness; `WorklistCovers` says that a change of IN
never leaves a predecessor that has to be looked at out of `pending_blocks`
(invariant `FlowInv`, which needs the edges to be recorded in both directions).
So at the end IN and OUT solve the equations. Below, `LivenessInv` keeps every
IN inside what some path through the graph reads. A solution contains that
set (`LiveIsLeast`), so what the worklist stops at is exactly it:
`AnalysisComputesLiveness`, loops and unreachable blocks included.
`AnalysisAdvances` is the part of `AnalysisTerminates` that is no liveness
property: each turn of the worklist adds to an IN or leaves the queue shorter,
and nothing is taken out of an IN again. It needs that no IN is ahead of its
equation (`Rising`), or else a turn could take something away.

For the ranges, the numbers of a block are consecutive and blocks do not
share any (`NumberingOK`); the scan keeps all ranges of a block within its
numbers, with those of an operand in order and below them the one that still
grows (`PlacedInv`), and from the point it has reached down to the end of the
block every operand that is live is covered (`CoverInv`). From that
`RangesInOrder` (the ranges of one operand follow one another), `MentionsInRanges`, `InterferenceIsFound`. Three more
invariants (`NumbersBack`, `StartsInv`, `ReachInv`) give `AllocatorIsFed`: no
instruction lies in three ranges of an operand, and in two only if it writes it.

`RegAlloc_proofs`: `NoClobber` is not inductive: that `try_allocate` looks at
`occupied_range_map` helps only if that map really contains every range of
every operand in the register (`AllocInv`), if those are in order, and if they did
not conflict so far, which the scan relies on. The inductive invariant `IInv` is
`TypeOK`, that the ranges are those the analysis left, `AllocInv`, `NoClobber` and
`SpilledUnderPressure` together. The step that matters is `FreeIsFree`: what
`Free` accepts conflicts with nothing in the register; it is where
`ScanIsComplete` is used. `SlotsInv` says that spilled operands and saved
registers have entries of their own in a frame that is still stacked, so that
`SlotsStayApart` follows from what was proved of frames. `CodeInv` follows every
numbered instruction through spilling and rewriting: `used_temp_map` counts the
reloads in front of it, the operands still to be reloaded fit into the
temporaries that are left, whatever is not placed yet is still named. From it
`CodeBecomesPhysical` and `ReloadsStayApart`. `CompiledTo` (kept by
`NextKeepsCompiled`) relates an instruction to the one it was selected as:
every operand stands where it is placed, in its register or in the temporary
with its reload or store. `NoStrayVisits` says that the numbers `spill` and `rewrite_operands` go through are
those of instructions. The ranges of virtual operands are (`RangesAreNumbered`), which
`Func_proofs` takes from the analysis: a block it has not numbered mentions none, and no
operand is live at its end (`RangesConcern`). `QueueOnlyAdvances` says of every turn of the queue
that one operand gets further, from new over split and spill to a place, that no
other one moves and that what is placed stays where it is: the termination of
the allocator up to fairness.

`Func_proofs`: `FuncInv` is the invariant of the analysis while it runs, and that of the
allocator from `allocate_hint` on; at the border what the first promises is what
the second needs. `PipelineAllocates` is the outcome for any selected function: the six
properties of the allocator hold of the composition, with no assumption about
ranges or numbers. (The lemmas named `Same...` say that the definitions of the two
instances of a module are the same; each instance has names of its own.)

`Execution_proofs`: `ExecutionInv` adds that the blocks are still the program,
instruction by instruction (`ProgramInv`), that control stays on blocks the
analysis has visited (`OnPath`; what it has not numbered the allocator does not
rewrite), and what the frame holds for the caller (`Preserved`).
`CallerGetsItsStateBack`: for every function, on every path and with any values, the
callee-saved registers and the return address come back, after any number of calls
of itself in place (`TailCallKeeps`).

`CompiledCodeIsFaithful` is the refinement: `ExecutionSpec` implements
`VirtualMachine`, for every function, path and value. `RefineInv` adds to
`ExecutionInv` that the analysis still speaks of the code that was selected
(`AnalysedProgram`): at every point of a visited block each live operand has a
range, whatever is written there conflicts with what is live after it, a jump's
target needs nothing that is not live at the end of the block, and on entry only
physical registers are live. These facts come from `LiveConflicts`,
`LiveIsRead`, `LiveAcrossJump` and `LiveOnEntry` in `Liveness_proofs`; they are
handed over when the worklist and the ranges are finished and no later pass
changes them. `CompiledPlaces` says what has become of the instruction that
runs. Then every step of the machine is one step of the virtual one: an operand
is read where `Held` looks for it (`ReadsWhatIsHeld`), what is written goes to its own
slot (`SlotAfter`) or register and to that of no other live operand
(`RegisterAfter`, where `PlacesApart` needs both `NoClobber` and
`InterferenceIsFound`), and what is live next was live behind (`LiveNext`).

`FrameLayout_proofs`: type correctness, `LayoutSound` and `AlwaysAligned` for
all sizes. The inductive invariant `Stacked` says that each object ends, in
distance from the top, where it is recorded and begins at or after the end of
the one before.

`UseDef_proofs`: `ChainsAlwaysAgree`, `UsersAreAlwaysCounted` and the refinement
`ChainsAreLists`, for any sets of values, users, uses and variables
(`UsersAssumption`: a user is a value). `ChainsAgree` is inductive together with `TypeOK`. Four of its parts
say the same from four sides (each use to its lists, each list of users, each list of operands,
each definition to its uses), since every operation repairs the
other list by searching for the address: that it takes out just the entry that
is meant needs that the entry stands there once and that no use of another owner has got
the address again. The operations are then two kinds of change: uses leave
lists and may be freed (`Lose...`), or go to another value (`Move...`). In
the refinement an operand is seen through its use, so a step on users alone has to
be a step on operands: `replace_self` is `Replace` because the users of a value are exactly the
uses whose `usee` it is, and `Destruct` is `Destroy` for the same reason. Counting is a
bijection between the list of users and the places where the passes see the value.

`Memo_proofs`: `SoundCache`, `CalleeSavedRegisters` and `Transparent` for
every hash, every set of keys and every function. None of them is inductive
alone: an entry is right when it is written because the results of the calls
before were right and because the registers its key is made of were restored
by all of them. `Recursion` says that every activation on the stack was called
by the one below it and has results that agree with the function, `Control`
that what is about to be returned is the value of the pending call.

Only model-checked:

- the pipeline of `Compiler` and all its modules: their operators are recursive
  over trees, blocks and worklists, which the provers cannot reach;
- the liveness properties (`AnalysisTerminates`, `AllocationTerminates`,
  `EveryCallReturns`, `Terminates`), which need fairness and ENABLED. Of the first
  two the part without fairness is proved: each step comes nearer to the end
  (`AnalysisAdvances`, `QueueOnlyAdvances`).

## Not modelled

- The scanner and the parser (`lexer.l`, `parser.y` and what is generated from
  them), the command line but for -O1, the text of types, instructions and the
  assembly: formatting without state.
- Floating point numbers, in every pass: TLC has none. The negation of ordered
  float comparisons (`trans_loop.cc:116`) and the fused multiply-add of -O1 are
  left out with them. `Types` tells float types apart so that conversions and
  joins of types are complete.
- `IndVarPruning_pass`, `detect_sum_and_transform` and `reg2mem`: nothing calls
  them. The sinking of comparisons at the end of `sink_gep` changes nothing in the
  code.
- Strings and arrays in input and output, timers, the test drivers.
- Selected code as input of the allocator: `Func` has families of its own, of
  code reduced to definitions and uses. `Selection` and `Func` meet in the order
  of `Func::passes` only.
- 64-bit wrapping of what the compiler itself calculates, and frames of more
  than 2 GB.
- The runs never reach the branch of GVN that merges the phis of two loops'
  counters, nor the case in which `hoist_fold` gives up; both are modelled.

## Plan

1. Done: liveness, allocation, frame, prolog and epilog, execution, the
   memoization cache; the conversion of syntax trees, the intermediate code, all
   passes of `optimize` for integers, selection and peephole.
2. Done: proofs of the analysis, the allocator and their composition, of the
   frame, of the caller's state, of the refinement of `VirtualMachine`, of the use-def chains
   and of the memoization cache.
3. Next: the lattice laws of constant propagation in a module without recursion,
   and the labels of `IR` as an instance of `UseDef`.
4. Then `RegAlloc` on code that `Selection` made.
