# Specifications of the three assignments

The repository holds three independent C++ programs built on Clang and LLVM:

* **Assignment1**, an interpreter for a subset of C that walks the Clang AST;
* **Assignment2**, an LLVM pass that prints which functions every call can call,
  by tracing function pointers back through phi nodes, arguments and results;
* **Assignment3**, a worklist framework for dataflow analysis (`Dataflow.h`), a
  liveness pass on top of it, and a point-to analysis on top of it that prints the
  callees of every call when function pointers go through memory.

All three are sequential. What is hard about them is not concurrency but
re-entrance (an analysis that is run again from within its own visitor, a recursive
descent over state that is global to the pass, an interpreter whose callees leave by
exceptions), results that must not depend on the addresses of basic blocks, and
the agreement of an analysis with the runs of the program it analyses.

## 1. Inventory

### Assignment1: the interpreter (`Assignment1/src`)

| Part | State | Operations |
|---|---|---|
| `Environment` | a vector of `StackFrame`s, `mGlobal`, `mHeap` | one method per kind of AST node: `binop`, `unaryop`, `arraysub`, `vardecl`, `call`, `exit`, ... |
| `StackFrame` | values of declarations, values and addresses of expressions, return value | bind and get |
| `Heap` | the blocks given out by `malloc`, with their sizes | `Malloc`, `Free`, `Update`, `get`, destructor |
| `InterpreterVisitor` | the C++ call stack; exceptions for `return`, `break`, `continue` | one `Visit...` per kind of node |

The visitor visits the children of a node and then calls one method of
`Environment`, which finds the children's values in the current frame and binds the
node's. A call pushes a frame, visits the body, pops the frame and binds the result in
the caller's.
*Hard:* a `return` that leaves any number of loops; values that are kept per node
and never erased, so that a node not visited this time has an old one; lvalues,
which have a value, an address or both; pointer arithmetic done by hand; `continue`
in a `for` statement; blocks that are freed by the program, or by the destructor.
*Correct if:* the program prints what it prints when compiled (that is what
`check.sh` compares), a frame is popped exactly once per call, every block is freed
exactly once, and the interpreter ends if the program does.

### Assignment2: the call resolver (`Assignment2/src/LLVMAssignment.cpp`)

State: `lineFuncList` (what is reported), `funcUser` (the call each function is being
handled for), `selectedBlock` (the incoming blocks phi loops are at), and
`callinstStack`, passed by value. `handleValue` dispatches on the kind of a
value to `handleCallInst`, `handlePHINode`, `handleFunction`,
`handleFunctionReturn` and `handleArgument`, which call it back.
*Hard:* two sets are global to the pass while the handlers recurse; the top of a
stack is read without asking whether there is one; phi nodes of a block must agree on
their predecessor; two phi nodes may refer to each other.
*Correct if:* every call a run makes is reported, nothing stale stays in the two sets,
the stack is never empty when read, and the descent ends.

### Assignment3: dataflow framework and its two clients (`Assignment3/src`)

| Part | State | Operations |
|---|---|---|
| `compForwardDataflow`, `compBackwardDataflow` (`Dataflow.h`) | `result` (entry and exit value per block), a worklist | one turn of the loop |
| `LivenessVisitor`, `Liveness` (`Liveness.h`) | none | transfer of one instruction |
| `PointToInfo`, `PointToVisitor` (`PointToAnalysis.h`) | `pointToSet`, `aliasSet`, `retSetsPtr`; the report | transfer of one instruction; `handleCallInst` runs `compForwardDataflow` on the callees |
| `FuncPtrPass` (`LLVMAssignment.cpp`) | none | runs the analysis on every function of the module |

*Hard:* the worklist is ordered by addresses; entry values are only ever merged
into; a block may be left off the worklist too early; the store of a single target is a
strong update, so the visitor is not monotone; `compForwardDataflow` is re-entered in
the middle of a block, from an intermediate value; the memory after a call is what
the callees leave.
*Correct if:* the solver ends, delivers the least solution for a monotone visitor in
whatever order, and every call a run makes is one the analysis prints.

Not modelled: the three drivers (command line, IR parsing, pass managers, Clang
tooling), printing, and the test scripts. `PROJECT.json` lists every part with its status.

## 2. Modules

```
LeastSolution  <---implements---  ForwardDataflow  <---implements---  BackwardDataflow
 (the promise)                     |  ForwardDataflowProofs            |  BackwardDataflowProofs
                                   MCForwardDataflow                   MCBackwardDataflow, Liveness -- MCLiveness
                                                                                            \-- LivenessProofs

IR --- PointToInfo --- PointTo --- PointToSound --- MCPointTo, MCPointToGaps
 |                                  |  |   \-- PointToProofs
 |                                  |  PointerMachine (what LLVM IR does)
 |                                  |  |
 |    FuncPtrPass ------------------|--FuncPtrSound --- MCFuncPtr
 |      |   \-- FuncPtrPassProofs   |
 \-- FlowInsensitive ---------------'   (what both passes are compared with)
            \-- FlowInsensitiveProofs (for the proofs about both)
PointerProgram (constructors) --- FuncPtrTests --- PointToTests (inputs, used by the MC modules)

CSyntax --- Environment --- Interpreter --- InterpreterMeetsC --- MCInterpreter, MCInterpreterGlobals
        |                     |                  |      \-- InterpreterTests (inputs)
        |                   InterpreterProofs    |
        \-- CMeaning (what the program means in C)

ProofLemmas: sequences as stacks, induction and recursion with sets, for all proofs but those
             of BackwardDataflow
```

**`LeastSolution`** is the promise of the framework, without a worklist: given graph,
visitor and initial value it delivers, once, an input value per block that solves the
dataflow inequations, the least one if the visitor is monotone.

**`ForwardDataflow`** is `compForwardDataflow`. One action is one turn of the `while`
loop: `Settle` when the exit value has not changed (the `continue` of the code),
`Propagate` when it has. The code takes the block with the smallest address; the
model takes any block, because addresses are arbitrary. (This allows more orders
than any fixed assignment of addresses; what is proved for all of them
holds for those.) A dataflow value is a set of facts and merge is union, as it is for
both visitors of the repository. The visitor is a function per block.

**`BackwardDataflow`** is `compBackwardDataflow`, which is a separate copy of the code;
that it is the forward solver of the reversed graph is a refinement
(`ImplementsForward`), not an assumption.

**`Liveness`** composes the backward solver with `LivenessVisitor`. The reference is
the definition of liveness on the graph of program points: a value is live at the points
from which control can reach a use of it without executing its definition
(`LivePoints`). What LLVM's verifier guarantees of a function is stated as two assumptions:
`FunctionsAssumption` (finitely many blocks, each a sequence of instructions, operands
are instructions with a result, debug intrinsics have none) and `SSAAssumption` (a
definition dominates its uses other than by phi nodes).

**`PointToInfo`** holds the dataflow value of the point-to analysis and one operator per
instruction handler, down to the empty entries that `operator[]` leaves behind and that
`operator==` of the maps can tell apart. **`PointTo`** is the analysis of a module:
`runOnModule` over its functions, intrinsic ones passed over, the stack of activations
of `compForwardDataflow`, instruction by instruction, with `handleCallInst` split at the
nested analyses it starts (`Resolve`, `Enter`, `Leave`, `CallDone`). Here the order of
the addresses is fixed for a run of the analysis (`prog.layouts`), as it is in the code,
because the visitor is not monotone.

**`IR`** is what both passes ask a module for: its functions, which of them have no body,
and their instructions.

**`FlowInsensitive`** is the reference for the precision of both passes: inclusion-based
point-to analysis of a module, in which neither the order of the instructions nor the
place a function is called from counts. It has a set of functions and objects per value
and one per object, nothing is ever taken out of a set, and a function's parameters
contain the arguments of all its calls. `Solution` is the least set of facts closed under
what the instructions imply, `Calls` the calls it finds possible. The passes are more
precise in parts (one follows the order of the instructions, the other the calls in
progress), and whatever they report must be possible for it.

**`FuncPtrPass`** is the recursive descent of Assignment2, its C++ stack the variable
`stack`. One action per dispatch of `handleValue` and per turn of a loop. The order in
which a phi node's incoming values are handled is arbitrary.

**`PointerMachine`** (external) is what an LLVM module does when it runs. Branches are
arbitrary, since conditions are data; an execution with undefined behaviour stops.
`PointToSound` and `FuncPtrSound` run it after the analysis and compare.

**`Environment`** has one action-building operator per method of `Environment`, with
`StackFrame`, `GlobalVars` and `Heap` as variables; **`Interpreter`** is the visitor,
its C++ stack the variable `control`, an exception in flight the variable `thrown`.
A `Stmt *` is the path from the function to the node. An element is kept at the address
of its first byte. An assertion that fails, or an access outside every block, stops
the interpreter, which `Terminates` then notices. **`CMeaning`** (external) is the
meaning of the same program in C as a recursive evaluator, written independently of the
interpreter: lvalues are addresses, functions are calls, there are no frames and no
values per node. Names are resolved (each declaration is a name of its own within its
function) and implicit casts that keep the value are left out. Arithmetic is TLC's, at
the width of `int`; the programs stay within it.

### Abstractions common to all

Types other than the difference between pointers, functions and the rest; wording and
order of the printed report (a set of pairs of line and function); debug output.
Undefined behaviour of the analysed or interpreted program: such a program is not
among the inputs, or its run stops there.

### Test inputs

**`PointToTests`**, **`FuncPtrTests`** and **`InterpreterTests`** hold every C input that
the check scripts run: 35 of Assignment3, 20 of Assignment2, 38 of Assignment1. For the
two passes an input is the control-flow graph with the calls, phi nodes, loads, stores
and address computations that the IR of it has (arithmetic, comparisons
and what the preparatory passes remove are left out), with the output its
comment expects; for the interpreter it is the syntax tree, and what it must
print is computed by `CMeaning`. `class/test20.c` calls `fibonacci(5)`, which the model
calls with 2. `extern_func.c` only defines the built-ins `GET`, `PRINT`, `MALLOC` and `FREE`
for the compiled program, which `CMeaning` has as operators; `ast-test.c`, a sample to dump
an AST of, is run by no script and is left out.

## 3. What the runs check

All runs set `CHECK_DEADLOCK FALSE` because these programs end.

| Run | Instance | Question and answer |
|---|---|---|
| `Forward` | every graph of 3 blocks in which the entry has no predecessor; visitors over 2 facts out of five transfer functions per block: constant, inverting (not monotone), trading one fact for the other, deriving one from the other; every initial value | Does the loop end (`Terminates`), is no block off the worklist out of date (`OffWorklistUpToDate`), is no intermediate value above a solution (`NeverAboveASolution`), do exit values only grow once the initial value is replaced (`ExitsOnlyGrow`), does every turn use up something of a measure that only finitely many turns can use up (`EachTurnDescends`), does every order deliver the least solution (`DeliversLeastSolution`) and end with the same entry and exit values (`OneResult`)? Yes. |
| `Backward` | every such graph, every monotone visitor over 1 fact | Is it the forward solver of the reversed graph, and does it end in the least solution, blocks without a way to an exit included? Yes. |
| `Liveness` | every SSA function of the shape branch or loop around a phi node, 3 blocks | Are the sets exactly the live values (`LivenessExact`)? Can a value be live where the function starts other than as an operand of a phi node (`LiveAtStartOnlyByPhi`)? Yes; no. |
| `PointTo` | 486 modules: two fragments that store, copy, wipe or redirect pointers through memory (243) or through callees, some of which return on one path only or never (243), in a branch, a loop or a self-loop; the 55 inputs of Assignments 2 and 3; several orders of addresses | Is every call a run makes reported (`CallsCovered`), and no call that flow-insensitive inclusion finds impossible (`NothingInvented`), in every activation of the solver is no block out of date (`OffWorklistUpToDate`), do entry values only grow as long as their activation lives (`EntriesOnlyGrow`), does the analysis end (`AnalysisEnds`), do the inputs print what they expect in every order (`PrintsWhatIsExpected`)? Yes; for tests 00 to 33 exactly the expected output. Flow-insensitive inclusion does not tell the iterations of a callee apart: that nothing an early iteration returned is reported (`retSets` is never reset) rests on the expected outputs only. |
| `PointToStrongUpdate` | two fields of one object; two objects of one `malloc` in a loop | `CallsCovered` fails: a strong update on a cell that stands for several forgets what the others hold. |
| `PointToMixed` | one module with a call of a declared or a defined function | `CallsCovered` fails: memory after the call is that of the defined callee only. |
| `FuncPtr` | 72 modules that pick functions at phi nodes, pass and return them; the 20 inputs of Assignment2 | Is the call stack never read when empty (`CallStackNeverEmpty`) and nothing stale in the pass-wide sets (`NoStaleContext`), is every call a run makes reported (`CallsCovered`) and none that flow-insensitive inclusion finds impossible (`NothingInvented`), do all 20 inputs give exactly the expected output, does the descent end? Yes. |
| `FuncPtrThreeCalls` | `get()()()`, where `get` returns a function that returns one | `CallsCovered` fails: the last call is never reported, since `handleFunctionReturn` passes on `isInnerCall = false`. |
| `FuncPtrNested` | `run(p) { p(); p(); }` with `run(k)`, `k() { run(f); }` | `CallsCovered` fails: the inner activation erases the outer one's entry of `funcUser`. |
| `FuncPtrPhiLoop` | a function pointer changed in a loop | `AnalysisEnds` fails: two phi nodes are resolved in a circle. |
| `Interpreter` | 251 programs: two statements that jump, return or call, in each kind of loop, one of them possibly a nested loop; every assignment to every kind of lvalue; the operators on bits; the 38 inputs of Assignment1; any placement of blocks | Does it print what C prints (`PrintsWhatCPrints`), pop one frame per call (`FramesMatchCalls`), throw `break` and `continue` only within a loop of the same function (`JumpsStayInFunction`), free each block once (`HeapOwnsMemory`), end (`Terminates`)? Yes. |
| `InterpreterGlobals` | a function that counts its calls in a global variable | `PrintsWhatCPrints` fails: the assignment stays in the callee's frame. |

The six violations are findings (`PROJECT.json`, "findings", with the lines of the
documentation they disagree with). Each is a few lines of legal C, given at the
definition of its module.

Test34 of Assignment3 is analysed without an expectation: for the call at line 81 the
test expects `plus, minus`, the analysis prints `minus`; `README.md` of the repository
says that one test point does not pass. `CallsCovered` holds for it: both calls of
`clever` return the structure that `minus` was stored in, so no run reaches `plus` there.

**Bounds and why they suffice.** Three blocks contain a branch, a join, a loop, a
self-loop, a block that reaches no exit and one that is unreachable, which is
what the solver's index directions can go wrong on; with two facts there are functions that
exchange facts, so that a block can be visited with incomparable values. `MaxObjects` and
`MaxFrames` bound the run of an analysed module, not the analysis: they let each loop go
round more often than it takes to reach every state of its memory (14 objects hold the
largest test input). The modules contain no recursion, for which both resolvers of
callees descend without end (see the hazards). Four addresses are as many blocks as a
program of `MCInterpreter` has at a time. `Garbage` has one value: a program that depends
on it would print it, and C's meaning has none.

**Fairness.** Each program is one thread that nothing suspends and that waits for
nothing, so an enabled step is taken: `WF_vars(Next)`. In the compositions
with `PointerMachine` only the analysis is fair; the analysed program may stop
anywhere.

**Mutants.** For every property of a passing run `PROJECT.json` names a definition
and a form of it with a plausible bug (`\* Mutant:` in the modules) for which the
property fails: merging successors for predecessors, requeueing the wrong blocks, no
strong update, a frame that is not popped, a block that stays registered, and so on.

## 4. What is proved

Twenty-six theorems, in six modules. They hold for any set of blocks, facts, graphs and
visitors (`ProblemAssumption`, `BackwardAssumption`: graphs are sets of edges, visitors
functions, there is a block), for any function given to the liveness pass (the two
assumptions above), for any module of Assignment2 (`InstsAssumption`: functions, their
parameters and the operands of a call are lists, going through a function comes to
instructions of it, of which there are finitely many), for any module of Assignment3
(`ModulesAssumption`: functions, parameters, blocks and the operands of a call are
lists, a phi node has finitely many incoming values, no operand is null, calls have a
line number), and for any program of Assignment1 that Clang accepts
(`ProgramsAssumption`: statements have as many children as their kind says, called
functions exist, `break` and `continue` are inside a loop of their function). TLC
evaluates each assumption on the instances.

`ForwardDataflowProofs`:

* `TypeCorrect`. Inductive on its own.
* `WorklistSuffices`: `OffWorklistUpToDate`, for every visitor. It is inductive with
  `TypeOK`: a turn changes the exit value of one block and puts back exactly the
  successors, which are the blocks that could become out of date.
* `NoStaleFacts`: `NeverAboveASolution`. Inductive: merge and a monotone transfer
  keep values below any solution.
* `NothingWithdrawn`: `ExitsOnlyGrow`. It needs `ExitBehindEntry` (an exit value is the
  transfer of an earlier, smaller entry value).
* `ForwardCorrect`: every step of the loop maps to `Deliver` or a stutter of
  `LeastSolution`; when the worklist is empty, `OffWorklistUpToDate` makes the entry
  values a solution and `NeverAboveASolution` the least one.
* `OrderIrrelevant` (`OneResult`): with a monotone visitor, entry and exit values are,
  whenever the worklist is empty, `ResultOf(cfg, visitor, initval)`, which mentions
  neither worklist nor order; so any two runs on the same arguments that end have the
  same result. An assignment that is least is the only one (`LeastUnique`), the entry
  values are least once the worklist is empty, and by `OffWorklistUpToDate` the exit
  values are then their transfer.
* `TurnsDescend` (`EachTurnDescends`) and `DescentEnds`: termination, for every visitor,
  as a ranking. `Measure` is compared lexicographically: the facts that entry values
  lack, the blocks whose exit value is not the transfer of their entry value, the
  worklist. A turn that enlarges an entry value lowers the first; one that does not but
  changes an exit value lowers the second, since it can then only be a value that was
  out of date; any other turn takes a block off the worklist and puts none back.
  `DescentEnds` says that with finite sets no sequence descends for ever. That an
  enabled turn is taken is the fairness that `Terminates`, checked by TLC, adds.

`BackwardDataflowProofs`: `BackwardTypeCorrect`, `BackwardIsForwardReversed` (each
action of the backward solver is one of the forward solver under the mapping),
`BackwardCorrect`, and `BackwardTurnsDescend` (the same ranking, on the reversed graph).

`LivenessProofs`: `LivenessTypeCorrect` (`TypeOK`), `LivenessIsExact` (`LivenessExact`)
and `LiveAtStartByPhi` (`LiveAtStartOnlyByPhi`). The pass is shown to be an instance of
the backward solver with a monotone visitor (`PassIsSolver`, `VisitorMonotone`), so the
theorems of `BackwardDataflowProofs` apply to it. `BlockWalk` says by induction over the
instructions of a block what the base class's walk computes: a sequence of sets, one per
program point, of which each is `compDFVal` of the next. The two halves of exactness
then use different invariants. *Everything live is found*: the points at which the pass
has the value are closed under going backwards once no block is out of date, and
`Reaching` is the least such set that has the uses (`ReachingLeast`), hence a part of
them. *Nothing else is found*: the truly live values are themselves a solution of the
dataflow inequations, and no intermediate value exceeds a solution. `LiveAtStartByPhi`
follows from exactness and `SSAAssumption`.

`FlowInsensitiveProofs` holds what the next two modules need of the reference: a module
is finite (`FiniteModule`, which follows from either assumption), so there are finitely
many facts about it, `Solution`, although defined by recursion on sets of facts, is
closed under what it implies (`SolutionHolds`), and in a closed set an object is in its
own set (`ObjectHeld`) and flows are inclusions (`FlowHeld`).

`FuncPtrPassProofs`: `CallsAlwaysPushed` (`CallStackNeverEmpty`) and `ContextIsCurrent`
(`NoStaleContext`). Neither is inductive. The invariant `IInv` adds that every value
still to be handled, those in the loops of functions deeper in the stack included,
comes with enough calls, and that the incoming blocks of phi nodes in progress are
disjoint (`PhisApart`): `handlePHINode` starts a loop only if none of the node's incoming
blocks is selected, which is why deselecting a block on the way out cannot
deselect one an outer loop is at. `OnlyPossibleCalls` (`NothingInvented`) is inductive
with `IInv` and `FlowInv`: in the solution of the reference, whatever is in the set of a
value a handler is at, or has still to come to, is in the set of the called operand of
the call on top of its call stack (`GoalIn`); the result of an inner call flows to the
called operand of the call below it, which is what `handleFunctionReturn` goes on with
after its pop; and `funcUser` has for each function a call that may reach it, so that an
argument is replaced by a value that flows to it. The invariant survives what makes
`CallsCovered` fail: an entry of `funcUser` overwritten by a nested activation is the
wrong call, but one that reaches the function.

`PointToProofs`, recursive modules included. `NestedWorklistsSuffice`
(`OffWorklistUpToDate`): the worklist argument of the forward solver again, but the
visitor is not monotone, and in the middle of a block it may start other activations.
The invariant `StackInv` says of every activation on the stack, not only the top, that
its maps are over the blocks of its function and that blocks off its worklist are above
the exit values of their predecessors; that an activation which is not about to take a
block is at a block of its function is what is needed when a nested one ends and it goes
on. Taking a block re-establishes it because the merge absorbs what is merged
(`PlusAbsorbs`, `AbovePredecessors`), entries of `operator[]` with an empty set
included. `NothingForgotten` (`EntriesOnlyGrow`) compares the activations before and
after a step by their depth; it needs `StackInv` for the one that waits in a call while
others come and go. `SoundTypeCorrect` (`SoundTypeOK`): inductive with `TypeInv`, which
adds that the callees still to be entered have a body, and that the functions
`runOnModule` has not come to are of the module. `NoCallInvented` (`NothingInvented`):
the invariant `FlowInv` says of every activation that each entry of its maps, of what it
has collected for its caller and of the arguments it is about to pass is among the facts
of the solution (`Fits`), and that it is an activation of a function that its caller's
call may reach (`CalledFrom`), which is what puts the values it returns in the set of
that call when it is left. `HandledIn`, by cases on the handlers of `PointToVisitor`,
says that each stays within a closed set of facts. The solver's own order, the reports
made from intermediate values and the strong updates play no part, which is the point:
they can lose calls but not make any up.

`InterpreterProofs`:

* `HeapIsConsistent` (`HeapOwnsMemory`): wherever `malloc` places blocks, they and `mSpace`
  agree. Inductive only with `BlocksApart`: `Free` takes away the bytes of one block, which
  must not be those of another.
* `JumpsFindTheirLoop` (`JumpsStayInFunction`): the invariant `ControlInv` says that the C++
  stack follows the syntax, so that below a node inside a loop there is the visit of that
  loop's body, with no call of a function in between (`LoopBelow`).
* `FramesFollowCalls` (`FramesMatchCalls`): one frame more than calls in progress. It needs
  `JumpsFindTheirLoop`: `exit` pops the frame on a `return` only, so an exception
  of `break` that unwound a call would leave its frame behind.
* `TypeCorrect` (`TypeOK`), from the two invariants.

`ProofLemmas` is what all these proofs share: what pushing, popping and replacing do to a
sequence used as a stack, and induction and recursion. The library's theorems on those
take the induction hypothesis as an operator, which the provers cannot instantiate; here
the hypothesis is a set (of numbers, or of subsets of a finite set) and a recursive
function is given by its table: `NatSetInduction`, `DownwardInduction`,
`SubsetInduction`, `SubsetRecursion`, by which a function defined by recursion from
a set to a larger one satisfies its equation, and `GrowthDefined` and `GrowthLeast`, by
which adding what a set implies until nothing is new gives the least closed set.

Only model-checked:

* Liveness (`Terminates`, `AnalysisEnds`), since ENABLED and fairness are beyond the prover
  here; for the two solvers the ranking is proved. The point-to analysis has none: the
  transfer of a call is another analysis, and for a recursive module it does not end.
* `CallsCovered` of `PointToSound` and `FuncPtrSound`: it holds for the modules
  checked and fails for those of the findings, so it is no theorem.
* `PrintsWhatIsExpected`: about the particular test inputs, by computation.
* `PrintsWhatCPrints`: `CMeaning` is a set of mutually RECURSIVE operators, which
  cost the prover its SMT backend.

## 5. Not modelled, and known limits

* Drivers, printing, Clang and LLVM themselves (their behaviour is assumed where the
  code relies on it, and marked external).
* Assignment1: the unary `&`, which the code gives the value 0 (`TODO`), and the
  operand of `sizeof`, which the code evaluates and C does not, are modelled as the code
  has them, but no program of the runs tells the difference. Other divergences from C met
  while modelling and without a run are in the hazards: the difference of two
  pointers, evaluation of both operands of `&&` and `||`, `(*p)++`, `return;`,
  `FREE(0)`, 64-bit arithmetic and `char` variables.
* Assignment2 and 3: recursive programs, global variables that hold function pointers.
* Disagreements between comments and code that change no result, and so have no run:
  `Dataflow.h` says the backward worklist starts with the exit blocks (every
  block is inserted; the mutant `InitWorklistAtExits` shows the comment would be
  wrong); `Dataflow.h:88` asks for a monotone visitor, which stores are not;
  phi operands count as used in their own block (`Liveness.h`), which is what
  `LiveAtStartOnlyByPhi` bounds.

## 6. Plan

Done: the solver and its promise, the two clients of it, the resolver, the interpreter;
all inputs of the test directories; an upper bound for what both passes report; proofs of
the safety invariants of each of them that do not depend on the meaning of the analysed
or interpreted program, of the exactness of the liveness pass and of the termination
ranking of the solvers.

What is left:

1. A sharper upper bound for the point-to analysis, which counts the order of the
   instructions: the effect of starting every block, not only the entry, from the initial
   value.
2. Global variables that hold function pointers, and recursive modules with a bound on
   the C++ stack.
3. Pointer differences and short-circuit operators in `MCInterpreter`, as findings if a
   document of the repository comes to speak of them.
