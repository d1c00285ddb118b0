# Verification of the GoLite compiler

The repository is a compiler from GoLite, a small Go-like language, to LLVM IR
and ARM64 assembly. This directory holds TLA+ models of its phases from the
token stream to the ARM code, the TLC runs that check them on small instances,
and TLAPS proofs.

## 1. The system

`golite/golite.go` runs the phases one after the other, in one process and one
thread; nothing is persisted. Each phase hands a data structure to the next:

| component | source | state it keeps | operations | in the model |
|---|---|---|---|---|
| lexer | `lexer/` | characters | ANTLR's automaton | environment: any token sequence |
| generated parser | `parser/golite_parser.go` | rule methods running, parse tree | one method per grammar rule | `GoliteGrammar`, `Parser` |
| parser listener | `parser/parser.go` | AST nodes in a map keyed by line and column | one callback per grammar rule | `Parser`, `AstNodes` |
| semantic analysis | `sa/`, `ast/*.go`, `symboltable/`, `types/` | symbol tables, error list | BuildSymbolTable, TypeCheck, ReturnCheck | `Semantics`, `Expressions`, `CfgBuilder` |
| expression translation | `ast/*expr.go`, `ast/{lvalue,assignment,print,delete}.go` | RegisterCounter, LLVM code | GetType, TypeCheck, ExprTranslateToLLVMStack | `Expressions`, `Llvm` |
| basic blocks | `cfg/blockcfg.go`, `ast/{conditional,loop,return,function}.go` | blocks, their Preds/Succs/ToForExit edges and instructions, `LLVMFuncDef.Blocks` | TranslateToLLVMStack of each statement, NewIfBlock, NewForBlock | `CfgBuilder` |
| dead-code pass (-O1) | `ast/function.go:174-205`, `LLVMFuncDef.RemoveBlock` | the same blocks | truncate, five rounds of removal | `CfgBuilder` |
| live ranges | `llvm/llvmFunction.go:92-119` | startpoint, endpoint | CalculateLiveRanges | `LiveRanges` |
| register allocator | `llvm/llvmFunction.go:121-212` | active slice, free registers, homes, stack size | the allocation loop, ExpireOldIntervals, SpillAtInterval | `LinearScan`, `LinearScanSlice` |
| instruction translation | `llvm/instructions.go`, `llvm/llvmToArmOps.go` | NextAvailableRegister, IsPtr flags, emitted code | TranslateToAssembly of each instruction | `ArmTranslate`, `Llvm` |
| frames and calls | `codegen/armFunction.go`, Call/CallAssign/Printf/Scanf/Malloc/Free | frame layout, save area, sp | prologue, save, pass, call, restore | `ArmFrame`, `ArmCall` |
| peephole (-O1) | `llvm/llvmProgram.go:125-152` | instruction list | RemoveInstr | `CfgExec` |
| driver, printing | `golite/golite.go`, the `String` methods | none | file output | no: pure I/O |

How they interact: the parser asks the lexer for tokens; when nothing was
wrong, a walk over its tree lets the callbacks build the AST; the analysis fills
symbol tables from it and checks types against them, and the translation looks
names up in the same tables, after adding names of its own; statements of the AST are translated one after the other
into a current block; `Function.TranslateToLLVMStack` then prunes or fills the
blocks; `InOrderBlocks` fixes the order in which the LLVM text, the live
ranges and the ARM code see them; the live ranges drive the allocator; the
allocator's homes and frame size drive instruction translation.

What is hard here is not concurrency, there is none. It is

* state shared through references: a Go slice that two functions sort, shift
  and append to, edges between blocks that are kept beside the branches;
* order: Go maps are ranged over in random order in the dead-block pass and
  when ranges with equal starts are sorted;
* long sequences of legal steps: expiry, reuse and stealing of registers over
  a function, nesting of loops, conditionals and early returns;
* keys and names that several parties share: nodes of the AST under the position
  of a token, variables, parameter slots and generated registers in one table,
  scratch registers counted by hand from one instruction to the next;
* boundaries: a range ends one before its last occurrence, a pool of R
  registers, five rounds of pruning.

What makes each component correct:

* parser: what the token decisions refuse is no program, and the syntax tree
  spells the source;
* tables: the accepted programs are those the scope rules allow, and a use
  reaches the storage of the innermost declaration;
* expressions: accepted means typed, and the code computes the value;
* instructions: the ARM code leaves every value where the LLVM code says;
* blocks: running them is running the statements; every branch goes to a
  printed block; control ends in a return; pruning removes dead code only, and
  what it keeps and where live code is printed is the same whatever the map order;
* live ranges: two values alive together have overlapping ranges;
* allocator: overlapping ranges never share a register; everyone has one home;
  no register leaks; no needless spill;
* frames: slots, save area and parameters do not overlap, and a call brings
  every live register back.

## 2. Modules

| module | models | built on |
|---|---|---|
| `LinearScan` | the allocator with `active` as a set: the abstract specification | |
| `LinearScanSlice` | the allocator with the backing array and window of the active slice | implements `LinearScan` (`ImplementsLinearScan`) |
| `LinearScanProofs` | inductive invariant and theorems | extends `LinearScan` |
| `LinearScanSliceProofs` | the refinement, step by step | extends `LinearScanSlice`, instantiates `LinearScanProofs` |
| `CfgBuilder` | blocks of one function, ReturnCheck, -O1 pruning | |
| `CfgBuilderProofs` | labels, what the dead-code pass keeps, returns, blocks printed and their order | extends `CfgBuilder` |
| `CfgExec` | those blocks as ARM labels and branches, the peephole, and their execution against the GoLite statements | extends `CfgBuilder` |
| `CfgExecProofs` | that executing the ARM code of those blocks follows the statements | extends `CfgExec`, `CfgBuilderProofs` |
| `LiveRanges` | CalculateLiveRanges on those blocks against real liveness | extends `CfgBuilder` |
| `ArmFrame` | where things lie in a function's stack frame | |
| `ArmCall` | the ARM code of one call, executed on the caller's frame | extends `ArmFrame` |
| `ArmCallProofs` | the layout, and all invariants of `ArmCall` | extends `ArmCall` |
| `Llvm` | operands and instructions of the LLVM code, and what they mean | |
| `Expressions` | type check and translation of expressions and simple statements | extends `Llvm` |
| `ExpressionsProofs` | types of expressions, what the checks accept, what the code computes | extends `Expressions` |
| `ArmTranslate` | TranslateToAssembly of straight-line code: an LLVM and an ARM machine side by side | extends `Llvm` |
| `ArmTranslateProofs` | that the ARM code of what is covered does what the LLVM code does | extends `ArmTranslate` |
| `Semantics` | symbol tables: built, checked, used by the translation | |
| `SemanticsProofs` | what the tables hold, whom the checks accept, what a use reaches | extends `Semantics` |
| `GoliteGrammar` | the rule methods of the generated parser | |
| `AstNodes` | the nodes of the AST and their `String` methods | |
| `Parser` | Parse: reading tokens, the walk, the callbacks | extends `AstNodes`, instantiates `GoliteGrammar` |
| `MC*` | instances for TLC; definitions named "Mutant" in the comments are wrong variants of the definition that follows, used to see that a property can fail | |

### LinearScan and LinearScanSlice

A step is one iteration of the loop over `sortByStart` (lines 156-164) with
everything it calls. `AssignRegister` is the `else` branch, `SpillActive` and
`SpillNew` the two branches of `SpillAtInterval`. The initial states are all
live ranges with `start <= end`; ties in the start order are broken by any
choice, as `sortByStart` is filled from a map. A missing map key is `Unset` or
`NoSlot`.

In `LinearScan` the candidate for spilling is any variable of `active` with
the largest end; `LinearScanSlice` has the array the slice is a window of:
`sort.SliceStable` sorts the window, `remove` shifts it and leaves a stale
tail, and `SpillAtInterval` appends `v` to a copy of the window one shorter
than the caller's, which overwrites the caller's last element. That this
aliasing amounts to "replace the spilled variable by v" is what the refinement
shows. `StableSort` puts each element at its rank, the number of those that come
before it; `Expirations` is how many the loop of ExpireOldIntervals removes before
it breaks. Growth of the array stands for a reallocation: nobody holds the old one.

### CfgBuilder, CfgExec, LiveRanges

`CfgBuilder` receives a function statement by statement. `Statement` stands for
everything that adds straight-line code (assignments, calls, prints, reads,
deletes), `Return` for a return statement, and the opening, middle and end of
conditionals and loops are actions of their own, in the order the recursive
translation performs them; `open` is its call stack. `returns` carries
ReturnCheck's verdict. When nothing is open the function may end:
`FinishPlain` fills empty blocks, `FinishOptimized` truncates, and
`StartPass` / `RemoveBlock` / `FinishPrune` are the five rounds, a block at a
time in any order. Labels are numbers; the temporaries, truncations and selects
around a condition are one instruction `Code`; `Expressions` has them. `Enqueue` and
`InOrderBlocks` follow the loops of the source, as recursive functions over the
position in the queue.

`CfgExec` lays the finished blocks out as ARM labels, branches and other code
(`TranslateToARM`), lets -O1 drop the branches whose label follows (`Reduce`),
and executes what is left instruction by instruction; a condition may come out
either way. Layout and peephole are loops over lists, written as recursive functions of
the position. `SourceNext` says, from the statements alone, what may
be seen next. Running off the end of the body halts with `"fell"`: the epilogue follows.

`LiveRanges` gives every simple statement the form `dst = src` and every
condition a variable, expands them into the loads, stores and branches of the
translation, computes the super block and the ranges as the code does, and
compares them with liveness computed by the usual data-flow equations.

### ArmFrame and ArmCall

`ArmFrame` is `GenerateVarLocations` as arithmetic: the frame record, the spill
slots, a place for each of the 26 saved registers, the stack parameters, and
the rounding. `ArmCall` takes one call site (which of the six instructions, how
many spills, parameters and arguments, where the operands and the result live)
and executes the code its `TranslateToAssembly` emits. `Phases` lists the groups
of emitted instructions in the order of each translation, and an action
executes one group. A value is named after the place it was in before the
call, so that "x19 survives" reads `reg[19] = <<"reg", 19>>`. Addresses are
relative to the caller's sp.

A compiled callee may change every register and all memory below sp, because
the prologue saves nothing but x29 and x30; that it writes nothing above its
frame is the last part of `SlotsSurvive`, seen from the callee as caller of
others. What the C library may change is the ARM64 calling convention (marked
external). The operands of one call all live in registers, all in slots or are
all immediate; global variables are left out. The scratch register is x26: that its
number grows when CallAssign or Scanf forget to reset it is left to
`ArmTranslate`.

### Llvm, Expressions and ArmTranslate

`Llvm` has the operands and instructions both modules use, each with the type it
is printed at, and `Execute`, what LLVM says they do. `Expressions` builds a
statement from its leaves upwards, as the translation does: `stack` holds the
finished subexpressions with what their nodes answer to GetType, TypeCheck and
ExprTranslateToLLVMStack, `code` what has been emitted. Beside it stands the
type and the value the language gives the expression, so that the finished
statement can be compared: is it accepted when typed, does its code compute it.
Names of the example are fixed: an int, a bool, a pointer to a struct that
points to its like, a parameter and the result. A node takes at most five
registers and a statement four more, which makes `Registered`.

`ArmTranslate` gives every local a home, a register or a stack slot, as the
allocator would, and runs any few instructions on an LLVM machine and, in
translation, on an ARM machine. `next` is NextAvailableRegister. `Covered` names
the translations that are right; `CoveredSimulates` says that after any number of
those the machines agree. What is not covered, in the order of the source: a
load into a spilled destination or through a field pointer (instructions.go:154,
174); of stores (259), one of a register's value into a spilled slot, one from a stack
slot to anything but a variable in a register, and one through a spilled field
pointer; a spilled field address (668), a spilled call result (1342).

### Semantics

One action per declaration, in program order (`DeclareType`, `DeclareVariable`,
`DeclareFunction`, each with the error it may report), then `TypeCheck` for the
whole program, then the translation: `EnterFunction` adds the result and the
parameter slots to the function's table, `WriteVariable` and `ReadVariable` look
names up and take registers, which enter the same table. No
variable has the name of the result slot, which no identifier can have, nor that of a
register, which the code does not rule out (known limits): `NamesAssumption`. A function's uses are
part of its declaration. `KnownType` is the check of a variable's type and
`KnownFieldType` that of a field's, which also lets `string` pass. `ProgramIsLegal`
and `Scope` say from the program alone what the rules of the language are;
`ProgramIsLegal` makes legal by name what the code lets pass (known limits).

### GoliteGrammar, AstNodes and Parser

A rule method is the sequence of what it does: match a token, call another
rule, decide on the next token. `Parser` is the machine that runs them: `stack`
are the methods running, and a token is fetched only when one looks at it, so that
every token stream is tried one token at a time. `Walk` is one `ExitXxx`
callback: it reads its children's entries of `nodes` under their keys (a missing
or wrong one is the panic of a type assertion) and writes its own. A node is its
Go type and its text; tokens with a free spelling keep their place, so two names
never look alike. After a syntax error the outcome is nil, whatever recovery
reads. `Derivations` is the grammar without any decision, for comparison.

## 3. Runs

| run | module / cfg | bound | what it shows |
|---|---|---|---|
| allocator | `MCLinearScan` | 5 variables, positions 0..3, registers x15 and x19 | the eight properties of the allocator |
| allocator_slice | `MCLinearScanSlice` | 4 variables, the same | slice aliasing implements the set algorithm |
| blocks | `MCCfgExec` | 7 statements, nesting 3, 5 rounds | labels resolve in plain builds, returns, pruning is safe, the map order decides nothing live code depends on, what is printed behaves as the statements and does not spin |
| live_ranges_flat | `MCLiveRanges` | 6 statements, 2 variables, nesting 1 | ranges run forward and cover interference without nesting |
| live_ranges_nested | `MCLiveRangesNested.cfg` | 7 statements, nesting 2 | violation |
| call_sites | `MCArmCall` | 0..2 spills, up to 36 arguments, 10 parameters, 8 flags | registers, slots, sp, arguments and results round a call |
| stack_arguments | `MCArmCallArguments.cfg` | the same, up to 11 arguments | violation |
| expressions | `MCExpressions` | 5 nodes, 6 operators | type check and code of every statement |
| translate | `MCArmTranslate` | 3 locals, 4 instructions, numbers -1..1 | ARM code does what LLVM code does |
| field_loads | `MCArmTranslateLoads.cfg` | the same, fewer operators | violation |
| semantics | `MCSemantics` | 4 declared names, 2 uses, 2 identifiers, 2 structs (one named string), 2 functions | tables, scopes, storage |
| parser | `MCParser` | 19 beginnings (the empty one, one of nearly every construct), 4 more tokens of 23 | decisions, callbacks, text |

The violations are disagreements between the code and what the repository says
of itself:

1. **live_ranges_nested.** `for (x) { for (y) {} }`: the inner blocks are not
   repeated for the outer loop, so a value needed in its next round is not
   covered. `benchmarks/arm/nestedCFG.s` shows it: `a`, read in every round of
   the outer loop, loses its register to the inner condition.
2. **stack_arguments.** The ninth argument is stored by the caller's frame size
   and read by the callee's. `FramesAgree` is when they meet; in
   `benchmarks/arm/extraParams3.s` they do not: main (frame 800) stores at
   `[sp, #784]` with sp lowered by 336, foo (frame 864) reads at `[sp, #1088]`,
   another word.
3. **field_loads.** A load through a field pointer fetches the field and then
   moves the pointer over it (instructions.go:154 and 174).

Known limits that the passing properties leave out, by name or by condition.

* -O1 keeps a loop that stands behind a return: its own body branches to it, so
  it never looks dead (`README.md:9` of the repository says such code is
  removed). If it stands in a conditional both of whose branches return, the
  block behind it is removed and its branch left without a label.
  `PlainTargetsEmitted` is about the plain build, `LiveKept` about live code.
* RemoveBlock takes a block out of the Succs of the blocks it has as Preds, which
  are not all that lead to it, so -O1 prints some of the dead blocks it removed
  from the map. Which ones depends on the order in which Go ranges over the map, so
  that two compilations of one program can differ: `ret for ret rof if ret if fi
  else ret fi` is such a function, longer than those of the run.
  `OrderIrrelevant` is about the map and about the order of the blocks that can run.
* ReturnCheck trusts a loop to run its body (`ast/loop.go:45`), so a function
  whose only return is inside a loop is accepted and control can reach its end:
  `ReturnsWhenChecked` is about functions without such a trusted loop.
* The result of a call with a spilled destination is moved to a scratch
  register and not stored (instructions.go:1342); the register is not given back,
  so that after a few such calls, or scanfs into globals, the number names x29,
  x30 and then none. `RegistersExist` is about code up to the first of them.
* A load into a spilled variable through a field pointer makes the compiler
  itself stop on a missing register; `LoadField` has the destination in one. scanf
  into a global passes its value for its address (1075).
* Type check (`lax` in `Expressions` names each): operands of unary operators and
  call arguments are not checked, nor the expression of return, print and
  delete; the second of two chained comparisons and nil beside a number are let
  through. In `Semantics`: repeated parameters, and parameter and result types that
  are not declared, pass. So does a field of type `*string` without a struct of that
  name (`ast/typedeclaration.go:63`): the lexer has no keyword string, and
  `StringToType` answers the type of string literals; a variable of that type is
  rejected. `ProgramIsLegal` has these three exceptions. `scan x.f` is accepted and reads into x. A field of
  something that is no struct, a call of an undefined function and a return
  with a value in a function without a result make the compiler panic.
* The type of LLVM operands: booleans are i1 in one place and i64 in another,
  and nil on the left of a comparison counts as i64 (`AgreesOnPointersAndInts`).
  && and || evaluate both sides.
* A variable with the name of a generated register (r0, r1, ...) is captured by
  it: `NamesAssumption` excludes that.
* String() puts a semicolon behind a call inside an expression, so
  `SpellsTheSource` ignores semicolons. A literal beyond 64 bits is
  silently the largest number (`parser/parser.go:73`).

`RegistersSurvive` shows three more limits by what it leaves out; without its
condition `Ordinary` TLC finds each. Stack arguments are stored into the caller's
own frame: one or two hit words of x26 to x28, which hold no variable; for three sp
is lowered further and the first hits that of x24 or x25, which the call then
"restores". malloc and free are
called with variables in x8 to x15 unsaved. The eighth flag of a printf
overwrites x8 before it is saved.

Bounds. Two registers either side of the gap x16..x18 are the least that make
R, the gap and stealing matter; with five variables a range can be spilled
after another was, and a freed register handed out again. The registers, the
set of variables and the positions are parameters of the proofs, which cover every
property of the two runs. Seven statements with
nesting 3 include every pairing of conditional, loop, else and return inside
each other, with code after one of them. `MaxRun`
bounds simple statements in a row, which behave alike. Six statements in
`LiveRanges` allow a loop with two statements inside and one on either side.

The argument counts of `call_sites` stand either side of every boundary: eight
registers, one and two words on the stack (rounding), ten (what fits above the
save places of variables), 14 (a constant in `Store`), 32 (where stores reach
the spill slots). Its passing properties say up to which of these limits the
code does what it should; the violations show what lies beyond.

Five nodes are a chain of two operators, a pair under a third, or a field path
beside them; the six operators are one of each group and two that do not commute.
Four instructions on three locals make, use and store a value while another
local takes over its register; -1..1 has a negative quotient and every order of
two numbers. Four declared names are a global, a parameter and a local of one
name and a function to hold them, or a struct and what uses it; the second struct
name, string, may be a field's type without being declared, and the first may not.
Four tokens after
a beginning reach every decision behind it and the error one token later; three
tokens on a line make keys differ in the line alone and in the column alone.

Deadlock is checked in `semantics` and `parser`, whose end is a step of its own
(`Done`, `Stopped`): the parser is never without a step before it has an
outcome. Elsewhere it is off: those models end when the function is allocated or
compiled, the bound is reached, or the function or call has returned.

Symmetry is used in `MCLinearScan` and `MCLiveRanges`, whose checks are
invariants and one action property over interchangeable variables; it is off
where refinement or liveness is checked.

Fairness. Only `CfgExec` assumes any: weak fairness of `Step`, the execution of
one instruction, because a processor goes on executing. Nothing is assumed of
the compiler or of how conditions come out, so a GoLite loop may run for ever;
`KeepsMoving` only says that execution keeps coming to something visible.

## 4. Proofs

`LinearScanProofs` proves, for every finite set of variables, all live ranges and
every register interval that meets `RegAssumption` (the code's 8..25 does):

* `TypeCorrect`, `RegistersNotShared`, `HomesUnique`, `SpillSlotsDisjoint`,
  `NoRegisterLeak`, `SpillsOnlyUnderPressure`: the invariants `TypeOK`,
  `NoSharedRegister`, `OneHome`, `SlotsDisjoint`, `RegistersPartitioned`,
  `NoNeedlessSpill`;
* `HomesStay`: the action property `HomesAreStable`.

The argument. `NoSharedRegister` is not inductive: a freed register goes to another
variable, so one needs to know that whoever held it before ended before anything still
to come starts. `IInv` adds that (`LeftActiveEnded`), that the loop goes by start
(`StartsOrdered`), that active variables and free registers split the register set
(`RegistersPartitioned`), and that variables not yet reached have no home
(`PendingUntouched`). `RegCount` proves that R, computed by arithmetic, is the number
of registers mapped to true, and `FreedNotEmpty` concludes that with fewer than R
active variables a register is free: the counting argument (an injection that is onto
has equal cardinalities) behind "extractMin never answers -1". Each action has a lemma
that it preserves `IInv`. `SpillsOnlyUnderPressure` adds that ranges run forward: when
`active` is full, the kept variables and the new one all cross its start, which makes
R + 1.

`SpillsAreFewest` (`FewestSpills`): no set of variables of which at most R cross any
position is larger than the set that got registers. It is the exchange argument for a
greedy choice. The invariant (`NoneMissed`) says that for every set that fits there is
one that is as large, fits as well, and holds none of the variables spilled so far. A
step that spills makes one exchange: where the set holds the spilled variable, another
that is active there ends no later and is not in the set, and takes its place.

`LinearScanSliceProofs` proves the same of the allocator as it is written, over the
shared array:

* `WindowAlwaysDistinct` (`WindowDistinct`): the window never holds a variable twice,
  whatever sorting, shifting and appending leave in the array behind it;
* `SliceImplements` (`ImplementsLinearScan`): initial states map to initial states and
  each of the three steps to the step of the same name of `LinearScan`. It needs that
  ranks are a permutation (`StableSort` sorts and keeps the members), that the loop of
  ExpireOldIntervals, which stops at the first survivor, removes exactly the expired
  ones because the window is sorted, and that the append into the shorter copy
  replaces the last element, the one with the largest end;
* `SliceRegistersNotShared`: with it, the theorem of `LinearScan` holds of the slice.

`ArmCallProofs` proves, for any number of spills, parameters and arguments, that the
frame is aligned (`FrameAligned`) and its parts are disjoint (`LayoutDisjoint`), and
from that all invariants of the run `call_sites`:

* `StackAlwaysBalanced` (`StackBalanced`): `Shift` says where sp stands before each
  phase, `PhaseOrder` which phase comes when, and each action moves sp from one
  `Shift` to the next.
* `RegistersAlwaysSurvive` (`RegistersSurvive`): `KeptInv` says that a variable's
  value is in its own register before the saving and after the restoring and in the
  save area between; `ExtraMissesHomes` is the arithmetic that up to ten arguments are
  stored off it.
* `ResultsAlwaysArrive` (`ResultArrives`): `ResultInv` follows the result through x0,
  x16 or the word scanf writes to its register.
* `SlotsAlwaysSurvive` (`SlotsSurvive`): the words that are `Kept` are never written;
  saves and stored arguments lie between the slots and the end of the frame
  (`SaveAreaInFrame`, `ExtrasMissKept`).
* `ArgumentsAlwaysArrive` (`ArgumentsArrive`): operands stay where they are until
  passed, and passed ones until the call; `FramesMeet` computes that the address an
  argument is stored at is the one the callee reads, when the frames agree.
* `CallTypes` (`TypeOK`).

They rest on two assumptions: counts are natural numbers and a printf has at most
fifteen flags, beyond which it would pass operands its first flags have overwritten
(`CountAssumption`); and the model's memory, `Words` words either side of sp, holds
the frame and the arguments below it (`MemoryAssumption`).

`ExpressionsProofs` proves, for expressions of any size and every set of operators:

* `TypedExpressionsAccepted` (`TypedIsAccepted`) and `AcceptedStatementsTyped`
  (`AcceptedIsTyped`). Neither is inductive: the type of a chain is computed from its
  first operand while its check goes pair by pair. `SoundInv` says of every open
  expression that a well-typed one is accepted with its type, that an untyped one is
  refused or has passed a gap named in `lax`, and (`Chain`) that the operands of a
  chain have the type of its level. `BinaryIsSound` is the case analysis of one
  operator over two sound operands.
* `ExpressionTypes` (`TypeOK`): registers are numbered before they are used. That
  nodes never exceed their bound needs that what is open can still be joined: nodes
  and the length of the stack together (`TypeInv`).
* `RegistersAssignedOnce` (`AssignedOnce`): registers are handed out in an order that
  is not that of the instructions (the destination of an operator before or after
  those of its operands). `OnceInv` says that the code is `Numbered`: no two
  destinations are equal, all are below `next`, every operand is assigned by an
  earlier instruction, and the operands of open expressions are (`Sees`).
* `StatementsAlwaysComputed` (`ComputesTheStatement`) and `TypesAlwaysAgree`
  (`AgreesOnPointersAndInts`). `MeaningInv` says, as long as every open expression has
  a type, that running the code so far changes no variable and nothing on the heap,
  that the operand of every open expression holds the expression's value, that the run
  traps exactly when one of the expressions does, and that the text is well typed but
  for the two known ways. Each operator has a lemma (`Meant` for what it adds, from
  the meaning of each instruction), each kind of statement another (`Finished`,
  `Done`). That running code piece by piece is running it in one go, and that a
  register once written keeps its value, is induction over the code.

`CfgBuilderProofs` proves, for functions of any length and nesting and any number of
rounds:

* `BlocksTyped` (`TypeOK`), for the building and pruning of `CfgBuilder` alone:
  `BuildInv` gives the blocks, edges and open statements types that depend on the
  number of blocks, and while building every label below it is a block of the
  function. A new statement makes three labels at once; `BlockGrows` and `FramesGrow`
  say that what was typed stays typed.
* `TargetsAlwaysKept`: after every removal, every branch of a block in
  `LLVMFuncDef.Blocks` goes to a block in it. Between two removals that is not
  inductive, as `unseen` was computed before the first; `KeptInv` says that no kept
  block branches to one still to be removed, a branch to itself excepted. It is about
  the map: the blocks printed are those Succs lead to (known limits above).

and of the finished function:

* `ReturnsAlwaysChecked` (`ReturnsWhenChecked`): where ReturnCheck accepts without
  trusting a loop, no block that can run falls through to the end. It is not
  inductive, as what can run is only known when the function is complete. `LeaveInv`
  says that some set of blocks holds the entry and is closed under branches, and that
  control can run off none of it but the current block and those that wait for the
  rest of an open statement; after a return not off the current one either, and
  nothing waits behind a statement whose bodies all return. A waiting block is empty
  and waits for one thing (`FreshInv`).
* `PlainAlwaysEmitted` (`PlainTargetsEmitted`): every block but the entry has an edge
  from one with a smaller label (`Rooted`), a loop's back edge never being the only
  one. That InOrderBlocks prints what is reached is its own argument: its queue never
  holds a block twice, so it comes to an end within as many rounds as there are blocks
  (a pigeonhole count), and what it has then is closed under `Succs`.
* `LiveAlwaysKept` (`LiveKept`): the blocks that can run are the least set closed
  under branches (`Reachable`). Each but the entry has an edge from a live one of
  smaller label, so none is dead for the pass; and when `RemoveBlock` takes a dead
  block out of the edges, those between two live ones stay.
* `OrderNeverMatters` (`OrderIrrelevant`): the keys left in the map and the order in
  which the blocks that can run are printed are the same for every order of removal.
  What a round removes is read off the instructions, which no removal changes, so the
  keys follow `KeysAfter` (`OrderInv`). The edges do differ from order to order, but
  only those of dead blocks, and no edge leads from a dead block to one that can run.
  `LivePrint` says what follows for the queue of InOrderBlocks, dead blocks in it left
  out: it grows as the queue over the live blocks alone does (`Stage`), and that
  graph no removal changes. That no edge leads back is an invariant of the building
  (`LiveInv`): behind a conditional the exit becomes live only by a branch from a
  body, and then both its first blocks, the only ones linked to it, are live already.

`CfgExecProofs` proves, for functions of any length and nesting, with -O1 or without,
and however often loops go round, that executing the ARM code is running the statements:

* `AlwaysFollowsSource` (`FollowsSource`): whatever runs next, or is decided next, is
  one of the things the statements allow after what was shown last;
* `NeverStopsShort` (`StopsWhereSourceDoes`): execution halts only by a return, with
  nothing left for the statements to do, and never runs off the end of the body.

Both except functions in which ReturnCheck took a loop at its word (`trusted`). The
argument has three layers.

* The blocks fit the statements. `ChartInv` says there is a chart of the function so
  far: for every label the statement its code begins at, for every open statement where
  it began and turned to its else. Every instruction of a block stands for the next of
  consecutive statements (`FitsFrom`), and a branch leads to a label at which the code
  goes on where the statements say: behind the else or the end of a conditional, into
  or behind a loop, back to its condition. That is only known once the statement that
  closes it has been read; before, `ElseTo`, `IfTo` and `ForTo` say which open statement
  the branch waits for, and nesting (`Deep`, `Matches`) that it will be closed by its
  own. Truncation and removal take away only what comes behind a branch or cannot run.
* The body is the blocks, end to end. `Walk` gives for every place of the body the
  block, instruction and part of its translation that stands there, and `BodyWalks`
  that the layout has one for every block printed. The blocks that can run are all
  printed (`LiveAlwaysKept`) and none of them runs off its end (`LeaveInv` of
  `ReturnsAlwaysChecked`), so behind their last instruction there is nothing to reach.
  `Thins` relates the body before the peephole to the one after: it keeps the order,
  and what it removed led to the place the next kept instruction stands at (`SkipOne`,
  `Settle`). A beq may go although its bne stays: where the condition holds, control
  then falls through the bne to the label behind it, which is what `AtBNe` asks for.
* Execution keeps in step. `ExecInv` says of the instruction at `pc`: what may be seen
  from here on is what the statements allow after `shown` (`Stands`). Where
  control that comes to a statement has something to do next, `Arrive` computes from
  the back; the invariant needs only its equations (`Arrival`). `OneStep` takes it through
  each kind of instruction; between a comparison and its branches `flag` must be what
  was shown.

`ArmTranslateProofs` proves, for any number of locals, every assignment of the
allocator's registers and of stack slots to them, and runs of any length:

* `CoveredAlwaysSimulates` (`CoveredSimulates`). The machines agree where a local is
  live; that is not inductive, as a value that is written to a home replaces what
  another local has there. `TranslateInv` adds that two live locals never share a home
  (the one whose home is taken is dead then), that a live pointer holds the address of
  a field, so that a store through it hits neither a slot nor a global
  (`PlacesApart`), and that `next` is x26, so that what an instruction fetches into
  scratch registers meets no home. Each translation has a lemma that says what its code
  leaves on the ARM machine (`Gives`: one local has the value x and every other home is
  as it was; `Writes`; `Shows`), each instruction one that says what LLVM does
  (`ExecBinOp` and so on), each action one that joins the two. How code falls into the
  pieces the helpers return is `RunAppend` and `RunJoin`, by induction.
* `RegistersAlwaysExist` (`RegistersExist`): the same pieces name registers up to x29
  only (`Fine`), not only in covered instructions; up to the first that keeps a
  scratch register, with which the comparison ends.

They assume that the operators and conditions are those the translation has a case for
(`OpsAssumption`) and that bounds are natural numbers (`BoundsAssumption`).

`SemanticsProofs` proves, for any identifiers, functions and structs, programs of any
length and any number of generated registers:

* `TablesAlwaysTyped` (`TypeOK`);
* `LegalProgramsAccepted` (`AcceptsTheLegalPrograms`): the invariant is that each
  table holds the last declaration of each name, and that the error list is empty
  exactly when no name was declared twice; `CheckDecides` then compares the type check
  with the rules, that of fields (`FieldTypesChecked`) apart from that of variables
  (`TypesChecked`), with the exceptions of `ProgramIsLegal`;
* `StorageAlwaysReached` (`UsesReachTheirStorage`): a look-up in a function's table
  and then in the global one finds what `Scope` says, also after `EnterFunction` and
  every register have added names to the same table, and what was found was allocated
  before.

Proofs by induction use `AllNats`, induction over the numbers stated for a set instead
of a predicate, and `BoundedRecursion` or `Recursion`, that a function defined by
recursion over numbers has its defining equations: the form in which the provers can
use either. With them, what a loop of the source computes is proved where the model
writes the loop as a recursive function. Each is restated in the modules that need it.

Only model-checked:

* liveness (`KeepsMoving`), which is outside the prover's reach;
* `FlatRangesSound` of `LiveRanges`: liveness is a least fixed point over the positions
  of the expanded code, and to compare it with the ranges needs an induction over the
  paths of the whole super block, a recursion over data;
* the `Parser`: what its decisions accept is compared with the `Derivations` of a
  whole grammar, which is a recursion over data.

The allocator's proofs start from ranges that run forward and keep overlapping ranges
apart; `FlatRangesSound` says when the ranges deserve it.

## 5. Plan

Done: the allocator, its refinement and proofs; blocks, what
building and pruning keep, and their execution with the peephole, proved; live ranges; frames and calls
with their proofs; expressions, proved from the type check to the value; the
translation of instructions, proved; symbol tables with their proofs; the parser and its
listener.

Left:

* Composition: the code of `Expressions` with homes from `LinearScan` as the input of
  `ArmTranslate`, instead of any code and any homes.

## 6. Not modelled

* The lexer's automaton and ANTLR's error recovery: tables of a generated
  program and the code of a library. Any token sequence is tried, and after a
  syntax error nothing the runtime reads on can change the outcome.
* The driver (`golite/golite.go`) and the printing of LLVM and ARM text: file
  I/O, and layout no property is about. It writes to a field of the nil
  that Parse answers after a syntax error.
* MemoryCheck (`ast/program.go`) is empty.
