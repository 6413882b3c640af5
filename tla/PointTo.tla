------------------------------ MODULE PointTo ------------------------------
(***************************************************************************)
(* The point-to analysis of Assignment3: FuncPtrPass::runOnModule runs     *)
(* compForwardDataflow on every function of the module, and handleCallInst *)
(* runs it again, from within the visitor, on every callee it resolves.    *)
(*                                                                         *)
(* The C++ call stack is the variable stack, innermost activation of       *)
(* compForwardDataflow first.  An activation is at                         *)
(*   "loop"  between two blocks of the worklist                            *)
(*   "inst"  before instruction pc of block bb                             *)
(*   "call"  in the second loop of handleCallInst, for that instruction.   *)
(***************************************************************************)
EXTENDS PointToInfo

CONSTANT Modules    \* the modules considered

\* Functions come in an order, blocks are sequences of instructions, arguments
\* and incoming values are values, and the debug location of a call has a line.
ASSUME ModulesAssumption ==
  \A p \in Modules :
    /\ p.order \in Seq(Range(p.order))
    /\ \A f \in Range(p.order) :
         /\ p.args[f] \in Seq(Range(p.args[f]))
         /\ IsFiniteSet(p.blocks[f])
         /\ \A b \in p.blocks[f] : p.code[b] \in Seq(Range(p.code[b]))
         /\ \A b \in p.blocks[f] : \A inst \in Range(p.code[b]) :
              /\ inst.op = "call" => /\ inst.line \in Nat
                                     /\ inst.args \in Seq(Range(inst.args))
                                     /\ nullptr \notin Range(inst.args)
              /\ inst.op = "phi" => /\ IsFiniteSet(Range(inst.in))
                                    /\ nullptr \notin Range(inst.in)

VARIABLES
  prog,           \* the module under analysis
  addr,           \* the addresses of its basic blocks (worklist order)
  todo,           \* the functions runOnModule has not come to yet
  stack,          \* the activations of compForwardDataflow
  lineFuncList    \* what is reported: a set of pairs <<line, function>>

vars == <<prog, addr, todo, stack, lineFuncList>>

-----------------------------------------------------------------------------

\* compForwardDataflow(fn, this, &result, initval), before its first iteration.
\* retSets is the pair initval.retSetsPtr points to, callees to call the
\* local variables of handleCallInst.
Activation(fn, initval) ==
  [fn       |-> fn,
   entry    |-> [b \in prog.blocks[fn] |-> initval],
   exit     |-> [b \in prog.blocks[fn] |-> initval],
   worklist |-> prog.blocks[fn],
   at       |-> "loop",
   bb       |-> nullptr,
   pc       |-> 1,
   dfval    |-> EmptyInfo,
   retSets  |-> [first |-> {}, second |-> EmptyMap],
   callees  |-> {},
   argsVec  |-> << >>,
   alias    |-> EmptyMap,
   flag     |-> FALSE]

Top == stack[1]
IsRoot == Len(stack) = 1       \* retSetsPtr is null
Code == prog.code[Top.bb]
inst == Code[Top.pc]

SetTop(act) == stack' = <<act>> \o Tail(stack)

Init ==
  /\ prog \in Modules
  /\ addr \in prog.layouts
  /\ todo = prog.order
  /\ stack = << >>
  /\ lineFuncList = {}

\* runOnModule passes over the intrinsic functions.
SkipIntrinsic ==
  /\ stack = << >>
  /\ todo # << >> /\ Head(todo) \in prog.intrinsic
  /\ todo' = Tail(todo)
  /\ UNCHANGED <<prog, addr, stack, lineFuncList>>

\* It takes the next function, with an empty initial value.
NextFunction ==
  /\ stack = << >>
  /\ todo # << >> /\ Head(todo) \notin prog.intrinsic
  /\ stack' = <<Activation(Head(todo), EmptyInfo)>>
  /\ todo' = Tail(todo)
  /\ UNCHANGED <<prog, addr, lineFuncList>>

\* The union of several maps.
Merged(maps) == [k \in UNION {DOMAIN maps[b] : b \in DOMAIN maps}
                   |-> UNION {At(maps[b], k) : b \in DOMAIN maps}]

\* Mutant: the entry value is computed afresh from the predecessors.
MergeAfresh(bb) ==
  LET preds == {b \in prog.blocks[Top.fn] : <<b, bb>> \in prog.cfg}
  IN  [pts   |-> Merged([b \in preds |-> Top.exit[b].pts]),
       alias |-> Merged([b \in preds |-> Top.exit[b].alias])]

\* The entry value of bb merged with the exit values of its predecessors.
bbentryval(bb) ==
  LET preds == {b \in prog.blocks[Top.fn] : <<b, bb>> \in prog.cfg}
  IN  extend(Top.entry[bb], [pts   |-> Merged([b \in preds |-> Top.exit[b].pts]),
                             alias |-> Merged([b \in preds |-> Top.exit[b].alias])])

\* The block at the smallest address is taken off the worklist.
TakeBlock ==
  /\ stack # << >> /\ Top.at = "loop"
  /\ \E bb \in Top.worklist :
       /\ \A b \in Top.worklist : addr[bb] <= addr[b]
       /\ LET val == bbentryval(bb)
          IN  SetTop([Top EXCEPT !.worklist = @ \ {bb}, !.at = "inst",
                                 !.bb = bb, !.pc = 1, !.dfval = val,
                                 !.entry[bb] = val])
  /\ UNCHANGED <<prog, addr, todo, lineFuncList>>

AtInst == stack # << >> /\ Top.at = "inst" /\ Top.pc <= Len(Code)

\* The instructions whose handlers change nothing but dfval.
Transfer ==
  /\ AtInst
  /\ inst.op \notin {"call", "ret"}
  /\ SetTop([Top EXCEPT !.dfval = Handled(prog, inst, @), !.pc = @ + 1])
  /\ UNCHANGED <<prog, addr, todo, lineFuncList>>

\* handleReturnInst: contributes to the retSets of the call, unless in a root.
Return ==
  /\ AtInst
  /\ inst.op = "ret"
  /\ IF IsRoot THEN SetTop([Top EXCEPT !.pc = @ + 1])
     ELSE LET info == Asked(prog, Top.dfval, {inst.val}) IN
          SetTop([Top EXCEPT !.dfval = info, !.pc = @ + 1,
                    !.retSets.first = @ \cup pointTo(prog, info, inst.val),
                    !.retSets.second = Plus(@, info.alias)])
  /\ UNCHANGED <<prog, addr, todo, lineFuncList>>

\* Mutant: the second loop does not skip declared functions.
ResolveAll ==
  /\ AtInst
  /\ inst.op = "call"
  /\ LET callees == pointTo(prog, Top.dfval, inst.callee) \cap Funcs(prog)
         info == Asked(prog, Top.dfval, {inst.callee} \cup Range(inst.args))
     IN  /\ lineFuncList' = lineFuncList \cup {<<inst.line, f>> : f \in callees}
         /\ SetTop([Top EXCEPT
              !.at = "call", !.dfval = info, !.callees = callees,
              !.argsVec = [i \in DOMAIN inst.args |-> info.pts[inst.args[i]]],
              !.alias = EmptyMap, !.flag = FALSE])
  /\ UNCHANGED <<prog, addr, todo>>

\* handleCallInst up to its second loop: resolve the callees, report them,
\* give a call of a declared function an object of its own, look up the
\* arguments.
Resolve ==
  /\ AtInst
  /\ inst.op = "call"
  /\ LET callees == (pointTo(prog, Top.dfval, inst.callee) \cap Funcs(prog)) \ prog.intrinsic
         info1 == Asked(prog, Top.dfval, {inst.callee})
         info2 == IF callees \cap Declared(prog) = {} THEN info1
                  ELSE SetPointTo(info1, inst.id, {inst.id})
         info3 == Asked(prog, info2, Range(inst.args))
     IN  /\ lineFuncList' = lineFuncList \cup {<<inst.line, f>> : f \in callees}
         /\ SetTop([Top EXCEPT
              !.at = "call", !.dfval = info3,
              !.callees = callees \ Declared(prog),
              !.argsVec = [i \in DOMAIN inst.args |-> info3.pts[inst.args[i]]],
              !.alias = EmptyMap, !.flag = FALSE])
  /\ UNCHANGED <<prog, addr, todo>>

AtCall == stack # << >> /\ Top.at = "call"

\* One turn of the second loop: a nested compForwardDataflow on a callee.
\* getArg asserts that the callee has as many arguments as the call.
Enter ==
  /\ AtCall
  /\ \E f \in Top.callees :
       /\ DOMAIN Top.argsVec \subseteq DOMAIN prog.args[f]
       /\ LET args == [a \in {prog.args[f][i] : i \in DOMAIN Top.argsVec} |->
                         UNION {Top.argsVec[i] :
                           i \in {j \in DOMAIN Top.argsVec : prog.args[f][j] = a}}]
              initval == [pts |-> args, alias |-> Top.dfval.alias]
          IN  stack' = <<Activation(f, initval), [Top EXCEPT !.callees = @ \ {f}]>>
                         \o Tail(stack)
  /\ UNCHANGED <<prog, addr, todo, lineFuncList>>

\* Mutant: the last callee decides what the memory holds.
LeaveLast ==
  /\ stack # << >> /\ Top.at = "loop" /\ Top.worklist = {} /\ ~IsRoot
  /\ LET caller == stack[2]
         call == prog.code[caller.bb][caller.pc]
         ret == [k \in {call.id} |-> Top.retSets.first]
     IN  stack' = <<[caller EXCEPT !.dfval.pts = Plus(@, ret),
                                   !.alias = Top.retSets.second,
                                   !.flag = TRUE]>>
                  \o Tail(Tail(stack))
  /\ UNCHANGED <<prog, addr, todo, lineFuncList>>

\* Mutant: one retSets for all the calls in progress.
LeaveShared ==
  /\ stack # << >> /\ Top.at = "loop" /\ Top.worklist = {} /\ ~IsRoot
  /\ LET caller == stack[2]
         call == prog.code[caller.bb][caller.pc]
         ret == [k \in {call.id} |-> Top.retSets.first]
     IN  stack' = <<[caller EXCEPT !.dfval.pts = Plus(@, ret),
                                   !.retSets = Top.retSets,
                                   !.alias = Plus(@, Top.retSets.second),
                                   !.flag = TRUE]>>
                  \o Tail(Tail(stack))
  /\ UNCHANGED <<prog, addr, todo, lineFuncList>>

\* compForwardDataflow returns to handleCallInst.
Leave ==
  /\ stack # << >> /\ Top.at = "loop" /\ Top.worklist = {} /\ ~IsRoot
  /\ LET caller == stack[2]
         call == prog.code[caller.bb][caller.pc]
         ret == [k \in {call.id} |-> Top.retSets.first]
     IN  stack' = <<[caller EXCEPT !.dfval.pts = Plus(@, ret),
                                   !.alias = Plus(@, Top.retSets.second),
                                   !.flag = TRUE]>>
                  \o Tail(Tail(stack))
  /\ UNCHANGED <<prog, addr, todo, lineFuncList>>

\* The end of handleCallInst: the memory of the caller is what the callees left.
CallDone ==
  /\ AtCall
  /\ Top.callees = {}
  /\ SetTop([Top EXCEPT !.dfval.alias = IF Top.flag THEN Top.alias ELSE @,
                        !.at = "inst", !.pc = @ + 1,
                        !.argsVec = << >>, !.alias = EmptyMap, !.flag = FALSE])
  /\ UNCHANGED <<prog, addr, todo, lineFuncList>>

\* Mutants: the successors are never put back; they always are.
EndBlockOnce ==
  /\ stack # << >> /\ Top.at = "inst" /\ Top.pc > Len(Code)
  /\ SetTop([Top EXCEPT !.exit[Top.bb] = Top.dfval, !.at = "loop",
                        !.bb = nullptr, !.pc = 1, !.dfval = EmptyInfo])
  /\ UNCHANGED <<prog, addr, todo, lineFuncList>>

EndBlockAlways ==
  /\ stack # << >> /\ Top.at = "inst" /\ Top.pc > Len(Code)
  /\ LET succs == {b \in prog.blocks[Top.fn] : <<Top.bb, b>> \in prog.cfg} IN
     SetTop([Top EXCEPT !.exit[Top.bb] = Top.dfval,
                        !.worklist = @ \cup succs, !.at = "loop",
                        !.bb = nullptr, !.pc = 1, !.dfval = EmptyInfo])
  /\ UNCHANGED <<prog, addr, todo, lineFuncList>>

\* The end of a block: an exit value that changed is stored and the successors
\* go back on the worklist.
EndBlock ==
  /\ stack # << >> /\ Top.at = "inst" /\ Top.pc > Len(Code)
  /\ LET changed == Top.dfval # Top.exit[Top.bb]
         succs == {b \in prog.blocks[Top.fn] : <<Top.bb, b>> \in prog.cfg}
     IN  SetTop([Top EXCEPT !.exit[Top.bb] = Top.dfval,
                            !.worklist = IF changed THEN @ \cup succs ELSE @,
                            !.at = "loop", !.bb = nullptr, !.pc = 1,
                            !.dfval = EmptyInfo])
  /\ UNCHANGED <<prog, addr, todo, lineFuncList>>

\* compForwardDataflow returns to runOnModule, which drops its result.
FunctionDone ==
  /\ stack # << >> /\ Top.at = "loop" /\ Top.worklist = {} /\ IsRoot
  /\ stack' = << >>
  /\ UNCHANGED <<prog, addr, todo, lineFuncList>>

Next ==
  \/ SkipIntrinsic \/ NextFunction \/ TakeBlock \/ Transfer \/ Return
  \/ Resolve \/ Enter \/ Leave \/ CallDone \/ EndBlock \/ FunctionDone

\* The pass is one thread that nothing suspends.
Spec == Init /\ [][Next]_vars /\ WF_vars(Next)

\* The loop of runOnModule over the functions has ended: it prints the report.
Done == stack = << >> /\ todo = << >>

LessEq(info1, info2) == extend(info1, info2) = info2

\* In every activation, of whatever depth, a block that is off the worklist has
\* the exit values of its predecessors in its entry value (what they were before
\* the turn in progress).  A nested analysis starts from the entry value of one
\* turn; without this its result would be that of a turn that has to be redone.
OffWorklistUpToDate ==
  \A i \in DOMAIN stack : LET act == stack[i] IN
    \A b \in DOMAIN act.exit, bb \in DOMAIN act.entry \ act.worklist :
      <<b, bb>> \in prog.cfg => LessEq(act.exit[b], act.entry[bb])

\* Everything map has is in other.
Within(map, other) ==
  /\ DOMAIN map \subseteq DOMAIN other
  /\ \A k \in DOMAIN map : map[k] \subseteq other[k]

\* Activations have a depth, 1 for the one runOnModule made.
AtDepth(acts, d) == acts[Len(acts) + 1 - d]

\* As long as an activation is on the stack, what holds at the start of one of
\* its blocks is never given up: not when a store clears what a predecessor
\* published before, and not during the analysis of a callee.  This is why
\* the analysis ends although stores are not monotone.
EntriesOnlyGrow ==
  [][\A d \in 1 .. Len(stack) : d <= Len(stack') =>
       LET old == AtDepth(stack, d).entry
           new == AtDepth(stack', d).entry
       IN  \A b \in DOMAIN old :
             Within(old[b].pts, new[b].pts) /\ Within(old[b].alias, new[b].alias)]_vars

\* The pass prints the output that a test file gives in its last comments,
\* whatever the addresses of the blocks.
PrintsWhatIsExpected ==
  Done /\ "expect" \in DOMAIN prog => lineFuncList = prog.expect
=============================================================================
