---------------------------- MODULE FuncPtrPass ----------------------------
(***************************************************************************)
(* FuncPtrPass of Assignment2/src/LLVMAssignment.cpp: which functions can  *)
(* each call instruction call?  The pass resolves the called operand of    *)
(* every call by recursive descent, through phi nodes, arguments and       *)
(* results of other calls.                                                 *)
(*                                                                         *)
(* The C++ call stack is the variable stack, innermost call first.  A      *)
(* frame is                                                                *)
(*   "value"  a call of handleValue about to be dispatched                 *)
(*   "body"   handleFunction or handleFunctionReturn within its loop, with *)
(*            the values it has still to handle                            *)
(*   "phi"    handlePHINode within its loop over the incoming values.      *)
(* A handler whose last act is to call another one is replaced by it.      *)
(***************************************************************************)
EXTENDS Integers, Sequences, SequencesExt, FlowInsensitive

CONSTANT Modules    \* the modules considered

VARIABLES
  prog,           \* the module M
  addr,           \* the addresses of its basic blocks (order of selectedBlock)
  todo,           \* the call instructions runOnModule has not come to yet
  stack,
  funcUser,       \* the call each function being handled was called by
  selectedBlock,  \* the incoming blocks chosen by the phi loops in progress
  lineFuncList    \* what is reported: a set of pairs <<line, function>>

vars == <<prog, addr, todo, stack, funcUser, selectedBlock, lineFuncList>>

-----------------------------------------------------------------------------

\* The instructions of function f that have opcode op, in block order.
InstList(p, f, op) ==
  SelectSeq(FlattenSeq([i \in DOMAIN p.list[f] |-> p.code[p.list[f][i]]]),
            LAMBDA inst : inst.op = op)

\* The calls of a module, in the order runOnModule comes to them.
CallList(p) == FlattenSeq([i \in DOMAIN p.order |-> InstList(p, p.order[i], "call")])

\* Functions come in an order and have a list of arguments, going through a
\* function means coming to instructions of its blocks, a call has a list of
\* operands, and a phi node finitely many incoming blocks.
ASSUME InstsAssumption ==
  \A p \in Modules :
    /\ p.order \in Seq(Funcs(p))
    /\ CallList(p) \in Seq({inst \in Insts(p) : inst.op = "call"})
    /\ \A f \in Funcs(p) :
         /\ p.args[f] \in Seq(Range(p.args[f]))
         /\ IsFiniteSet(InstsOf(p, f))
         /\ \A op \in {"call", "ret"} :
              InstList(p, f, op) \in Seq({inst \in InstsOf(p, f) : inst.op = op})
    /\ \A inst \in Insts(p) :
         /\ inst.op = "call" => inst.args \in Seq(Range(inst.args))
         /\ inst.op = "phi" => IsFiniteSet(Range(inst.in))

\* The instructions with opcode op that define value v: one or none.
Defs(op, v) ==
  {inst \in Insts(prog) : inst.op = op /\ inst.id = v}

Def(op, v) == CHOOSE inst \in Defs(op, v) : TRUE

\* The functions that have v as an argument: one or none.
Parents(v) == {f \in Funcs(prog) : v \in Range(prog.args[f])}

\* A call of handleValue; calls is callinstStack, passed by value.
Goal(val, inner, calls) ==
  [at |-> "value", val |-> val, inner |-> inner, calls |-> calls]

\* Mutant: the call is not pushed.
CalledUnpushed(call, inner, calls) == Goal(call.callee, inner, calls)

\* The start of handleCallInst: push the call and resolve its called operand.
Called(call, inner, calls) == Goal(call.callee, inner, <<call>> \o calls)

Top == stack[1]
Replace(fr) == stack' = <<fr>> \o Tail(stack)
Pop == stack' = Tail(stack)
AtValue == stack # << >> /\ Top.at = "value"

-----------------------------------------------------------------------------

Init ==
  /\ prog \in Modules
  /\ addr \in prog.layouts
  /\ todo = CallList(prog)
  /\ stack = << >>
  /\ funcUser = << >>
  /\ selectedBlock = {}
  /\ lineFuncList = {}

\* runOnModule takes the next call instruction.
NextCall ==
  /\ stack = << >> /\ todo # << >>
  /\ stack' = <<Called(Head(todo), FALSE, << >>)>>
  /\ todo' = Tail(todo)
  /\ UNCHANGED <<prog, addr, funcUser, selectedBlock, lineFuncList>>

\* handleValue on the result of a call: the call is an inner call.
handleCallInst ==
  /\ AtValue
  /\ Defs("call", Top.val) # {}
  /\ Replace(Called(Def("call", Top.val), TRUE, Top.calls))
  /\ UNCHANGED <<prog, addr, todo, funcUser, selectedBlock, lineFuncList>>

\* Mutant: every phi node goes through all its incoming values.
NoneSelected(phi) == {}

\* The incoming blocks of a phi node that are already selected.
Selected(phi) == selectedBlock \cap DOMAIN phi.in

\* handlePHINode follows the first of them, if there is one.
FollowSelected ==
  /\ AtValue
  /\ Defs("phi", Top.val) # {}
  /\ LET phi == Def("phi", Top.val) IN
     \E bb \in Selected(phi) :
       /\ \A b \in Selected(phi) : addr[bb] <= addr[b]
       /\ Replace(Goal(phi.in[bb], Top.inner, Top.calls))
  /\ UNCHANGED <<prog, addr, todo, funcUser, selectedBlock, lineFuncList>>

\* Otherwise it loops over its incoming values (in any order).
handlePHINode ==
  /\ AtValue
  /\ Defs("phi", Top.val) # {}
  /\ LET phi == Def("phi", Top.val) IN
     /\ Selected(phi) = {}
     /\ Replace([at |-> "phi", phi |-> phi, picked |-> {},
                 left |-> DOMAIN phi.in, inner |-> Top.inner, calls |-> Top.calls])
  /\ UNCHANGED <<prog, addr, todo, funcUser, selectedBlock, lineFuncList>>

\* Mutant: the loop does not advance.
IncomingAgain ==
  /\ stack # << >> /\ Top.at = "phi"
  /\ \E bb \in Top.left :
       /\ selectedBlock' = (selectedBlock \ Top.picked) \cup {bb}
       /\ stack' = <<Goal(Top.phi.in[bb], Top.inner, Top.calls),
                     [Top EXCEPT !.left = @, !.picked = {bb}]>> \o Tail(stack)
  /\ UNCHANGED <<prog, addr, todo, funcUser, lineFuncList>>

\* One turn of the loop: the last block is deselected, this one selected.
NextIncoming ==
  /\ stack # << >> /\ Top.at = "phi"
  /\ \E bb \in Top.left :
       /\ selectedBlock' = (selectedBlock \ Top.picked) \cup {bb}
       /\ stack' = <<Goal(Top.phi.in[bb], Top.inner, Top.calls),
                     [Top EXCEPT !.left = @ \ {bb}, !.picked = {bb}]>> \o Tail(stack)
  /\ UNCHANGED <<prog, addr, todo, funcUser, lineFuncList>>

\* Mutant: the last incoming block stays selected.
EndPHINodeSelected ==
  /\ stack # << >> /\ Top.at = "phi"
  /\ Top.left = {}
  /\ Pop
  /\ UNCHANGED <<prog, addr, todo, funcUser, selectedBlock, lineFuncList>>

EndPHINode ==
  /\ stack # << >> /\ Top.at = "phi"
  /\ Top.left = {}
  /\ selectedBlock' = selectedBlock \ Top.picked
  /\ Pop
  /\ UNCHANGED <<prog, addr, todo, funcUser, lineFuncList>>

\* funcUser[func] = call
Remember(func, call) ==
  [f \in DOMAIN funcUser \cup {func} |-> IF f = func THEN call ELSE funcUser[f]]

\* A function in the place of a called operand: report it, then handle the calls
\* it makes in the context of this call.
handleFunction ==
  /\ AtValue
  /\ Top.val \in Funcs(prog) /\ ~Top.inner
  /\ LET func == Top.val
         made == InstList(prog, func, "call")
     IN  /\ funcUser' = Remember(func, Head(Top.calls))
         /\ lineFuncList' = lineFuncList \cup {<<Head(Top.calls).line, func>>}
         /\ Replace([at |-> "body", fn |-> func,
                     left |-> [i \in DOMAIN made |->
                                 Called(made[i], FALSE, Tail(Top.calls))]])
  /\ UNCHANGED <<prog, addr, todo, selectedBlock>>

\* Mutant: the call of the function stays on callinstStack.
ReturnUnpopped ==
  /\ AtValue
  /\ Top.val \in Funcs(prog) /\ Top.inner
  /\ LET func == Top.val
         rets == InstList(prog, func, "ret")
     IN  /\ funcUser' = Remember(func, Head(Top.calls))
         /\ Replace([at |-> "body", fn |-> func,
                     left |-> [i \in DOMAIN rets |->
                                 Goal(rets[i].val, FALSE, Top.calls)]])
  /\ UNCHANGED <<prog, addr, todo, selectedBlock, lineFuncList>>

\* A function whose result is called: handle what it returns.
handleFunctionReturn ==
  /\ AtValue
  /\ Top.val \in Funcs(prog) /\ Top.inner
  /\ LET func == Top.val
         rets == InstList(prog, func, "ret")
     IN  /\ funcUser' = Remember(func, Head(Top.calls))
         /\ Replace([at |-> "body", fn |-> func,
                     left |-> [i \in DOMAIN rets |->
                                 Goal(rets[i].val, FALSE, Tail(Top.calls))]])
  /\ UNCHANGED <<prog, addr, todo, selectedBlock, lineFuncList>>

\* One turn of the loop of handleFunction or handleFunctionReturn.
NextInst ==
  /\ stack # << >> /\ Top.at = "body"
  /\ Top.left # << >>
  /\ stack' = <<Head(Top.left), [Top EXCEPT !.left = Tail(@)]>> \o Tail(stack)
  /\ UNCHANGED <<prog, addr, todo, funcUser, selectedBlock, lineFuncList>>

\* Mutant: the function is not forgotten.
EndFunctionKeepUser ==
  /\ stack # << >> /\ Top.at = "body"
  /\ Top.left = << >>
  /\ Pop
  /\ UNCHANGED <<prog, addr, todo, funcUser, selectedBlock, lineFuncList>>

EndFunction ==
  /\ stack # << >> /\ Top.at = "body"
  /\ Top.left = << >>
  /\ funcUser' = Restrict(funcUser, DOMAIN funcUser \ {Top.fn})
  /\ Pop
  /\ UNCHANGED <<prog, addr, todo, selectedBlock, lineFuncList>>

\* An argument stands for the operand of the call its function is handled for
\* (getArgOperand asserts that there is one).
handleArgument ==
  /\ AtValue
  /\ \E func \in Parents(Top.val) \cap DOMAIN funcUser :
       \E argindex \in DOMAIN prog.args[func] :
         /\ prog.args[func][argindex] = Top.val
         /\ argindex \in DOMAIN funcUser[func].args
         /\ Replace(Goal(funcUser[func].args[argindex], Top.inner, Top.calls))
  /\ UNCHANGED <<prog, addr, todo, funcUser, selectedBlock, lineFuncList>>

\* "Unexpected Parent Function" and "Unsupported Value": nothing is reported.
Skip ==
  /\ AtValue
  /\ Top.val \notin Funcs(prog)
  /\ Defs("call", Top.val) = {} /\ Defs("phi", Top.val) = {}
  /\ Parents(Top.val) \cap DOMAIN funcUser = {}
  /\ Pop
  /\ UNCHANGED <<prog, addr, todo, funcUser, selectedBlock, lineFuncList>>

Next ==
  \/ NextCall \/ handleCallInst \/ FollowSelected \/ handlePHINode \/ NextIncoming
  \/ EndPHINode \/ handleFunction \/ handleFunctionReturn \/ NextInst \/ EndFunction
  \/ handleArgument \/ Skip

\* The pass is one thread that nothing suspends.
Spec == Init /\ [][Next]_vars /\ WF_vars(Next)

\* printResult
Done == stack = << >> /\ todo = << >>

-----------------------------------------------------------------------------

\* callinstStack.top() is undefined behaviour on an empty stack: every value that
\* may turn out to be a function comes with a call to report it for, and a
\* function whose result is called with a second one, for what it returns.
CallStackNeverEmpty ==
  AtValue => Len(Top.calls) >= (IF Top.inner THEN 2 ELSE 1)

\* funcUser and selectedBlock are global to the pass while the handlers recurse.
\* Nothing stale stays in them: a block is selected exactly while a phi loop is
\* at it, and a call is remembered only for a function being handled.  (It may be
\* missing for one: a second activation of the same function erases it.)
NoStaleContext ==
  /\ DOMAIN funcUser \subseteq
       {stack[i].fn : i \in {j \in DOMAIN stack : stack[j].at = "body"}}
  /\ selectedBlock =
       UNION {stack[i].picked : i \in {j \in DOMAIN stack : stack[j].at = "phi"}}

\* What an analysis without order and context finds in each module.
Possible == [p \in Modules |-> Calls(p, Solution(p))]

\* The pass reports no call that a flow- and context-insensitive analysis does
\* not find possible: callinstStack pairs every value with the call it flows to,
\* and funcUser every argument with a call of its function, through inner calls,
\* returned functions and the recursion of the handlers.
NothingInvented == lineFuncList \subseteq Possible[prog]

\* The pass prints the output that the test file gives in its last comments.
PrintsWhatIsExpected ==
  Done /\ "expect" \in DOMAIN prog => lineFuncList = prog.expect
=============================================================================
