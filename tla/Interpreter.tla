---------------------------- MODULE Interpreter ----------------------------
(***************************************************************************)
(* InterpreterVisitor of Assignment1/src/ASTInterpreter.cpp: the order in  *)
(* which the nodes of a program are visited.                               *)
(*                                                                         *)
(* The C++ call stack is the variable control, innermost call first.  An   *)
(* element is a call of Visit on a node:                                   *)
(*   id     the node                                                       *)
(*   left   the children to visit before anything else happens             *)
(*   phase  what these children are: "kids" for a node that visits all its *)
(*          children and then calls its method of Environment, otherwise   *)
(*          the part of the statement or operator that is being visited.   *)
(* return, break and continue are C++ exceptions: while one is thrown,     *)
(* calls are left one by one up to the one with a handler for it.          *)
(***************************************************************************)
EXTENDS Environment

VARIABLES control, thrown

vars == <<envVars, control, thrown>>

-----------------------------------------------------------------------------

Visit(e) ==
  LET n == Node(e) IN
  CASE n.kind \in {"if", "cond", "while"} ->
         [id |-> e, phase |-> "cond", left |-> <<1>>]
    [] n.kind = "for" -> [id |-> e, phase |-> "init", left |-> <<1>>]
    [] OTHER -> [id |-> e, phase |-> "kids", left |-> [i \in DOMAIN n.kids |-> i]]

top == Head(control)
this == Node(top.id)

\* The innermost call is on a node of kind k, and has visited what the phase says.
At(k, phase) ==
  /\ control # << >> /\ thrown = "none"
  /\ top.left = << >> /\ top.phase = phase
  /\ this.kind = k

Leave == control' = Tail(control) /\ UNCHANGED thrown

Goto(phase, left) ==
  /\ control' = <<[id |-> top.id, phase |-> phase, left |-> left]>> \o Tail(control)
  /\ UNCHANGED thrown

\* cond: the value of the condition, the i-th child.
cond(i) == getStmtVal(Kid(top.id, i)) # 0

Init ==
  /\ EnvInit
  /\ control = <<Visit(<<"unit">>)>>
  /\ thrown = "none"

\* Visit the next child.
VisitChild ==
  /\ control # << >> /\ thrown = "none"
  /\ top.left # << >>
  /\ control' = <<Visit(Kid(top.id, Head(top.left))),
                  [top EXCEPT !.left = Tail(@)]>> \o Tail(control)
  /\ UNCHANGED <<envVars, thrown>>

-----------------------------------------------------------------------------
\* Nodes that visit all their children and then call one method.

VisitExpr ==
  /\ \/ At("int", "kids") /\ literal(top.id)
     \/ At("sizeof", "kids") /\ literal(top.id)
     \/ At("paren", "kids") /\ paren(top.id)
     \/ At("cast", "kids") /\ paren(top.id)
     \/ At("ref", "kids") /\ declref(top.id)
     \/ At("binary", "kids") /\ binop(top.id)
     \/ At("assign", "kids") /\ assignop(top.id)
     \/ At("unary", "kids") /\ unaryop(top.id)
     \/ At("step", "kids") /\ incdecop(top.id)
     \/ At("deref", "kids") /\ derefop(top.id)
     \/ At("sub", "kids") /\ arraysub(top.id)
  /\ Leave

VisitDecl ==
  /\ \/ At("var", "kids") /\ vardecl(top.id)
     \/ At("array", "kids") /\ arraydecl(top.id)
  /\ Leave

VisitBuiltin ==
  /\ \/ At("GET", "kids") /\ builtinGET(top.id)
     \/ At("PRINT", "kids") /\ builtinPRINT(top.id)
     \/ At("MALLOC", "kids") /\ builtinMALLOC(top.id)
     \/ At("FREE", "kids") /\ builtinFREE(top.id)
  /\ Leave

\* A compound statement, an empty one, and main when it ends without return.
VisitStmt ==
  /\ At("block", "kids") \/ At("null", "kids")
  /\ top.id # <<"unit">>
  /\ Leave
  /\ UNCHANGED envVars

\* Init after the last declaration: run main.
StartMain ==
  /\ At("block", "kids") /\ top.id = <<"unit">>
  /\ init
  /\ control' = <<Visit(<<"main">>)>>
  /\ UNCHANGED thrown

-----------------------------------------------------------------------------
\* Calls of functions, and the statements that throw.

VisitCallExpr ==
  /\ At("call", "kids")
  /\ call(top.id)
  /\ control' = <<Visit(<<this.fn>>), [top EXCEPT !.phase = "body"]>> \o Tail(control)
  /\ UNCHANGED thrown

\* The body is done, or its exception has been caught.
EndCallExpr == At("call", "body") /\ exit(top.id) /\ Leave

Throw(exception) == control' = Tail(control) /\ thrown' = exception

VisitReturnStmt == At("return", "kids") /\ returnstmt(top.id) /\ Throw("return")

VisitBreakStmt == At("break", "kids") /\ Throw("break") /\ UNCHANGED envVars
VisitContinueStmt == At("continue", "kids") /\ Throw("continue") /\ UNCHANGED envVars

IsLoop(n) == n.kind \in {"while", "for"}

\* The try blocks are around the body of a loop and of a function.
Handles(act, exception) ==
  /\ act.phase = "body"
  /\ \/ exception \in {"break", "continue"} /\ IsLoop(Node(act.id))
     \/ exception = "return" /\ Node(act.id).kind = "call"

\* Mutant: no loop has a handler.
UnwindLoops ==
  /\ thrown # "none" /\ control # << >>
  /\ IsLoop(this) \/ ~Handles(top, thrown)
  /\ control' = Tail(control)
  /\ UNCHANGED <<envVars, thrown>>

Unwind ==
  /\ thrown # "none" /\ control # << >>
  /\ ~Handles(top, thrown)
  /\ control' = Tail(control)
  /\ UNCHANGED <<envVars, thrown>>

\* Mutant: Init has no try block around main.
CatchReturnInCall ==
  /\ thrown = "return" /\ control # << >>
  /\ Handles(top, "return")
  /\ thrown' = "none"
  /\ UNCHANGED <<envVars, control>>

CatchReturn ==
  /\ thrown = "return"
  /\ control # << >> => Handles(top, "return")    \* else: the try block of Init
  /\ thrown' = "none"
  /\ UNCHANGED <<envVars, control>>

CatchBreak ==
  /\ thrown = "break" /\ control # << >>
  /\ Handles(top, "break")
  /\ control' = Tail(control)
  /\ thrown' = "none"
  /\ UNCHANGED envVars

\* The loop goes on where its body would have ended.
CatchContinue ==
  /\ thrown = "continue" /\ control # << >>
  /\ Handles(top, "continue")
  /\ thrown' = "none"
  /\ UNCHANGED <<envVars, control>>

-----------------------------------------------------------------------------
\* Conditional statements and loops.

VisitIfStmt ==
  /\ At("if", "cond")
  /\ \/ cond(1) /\ Goto("branch", <<2>>)
     \/ ~cond(1) /\ Goto("branch", IF Len(this.kids) = 3 THEN <<3>> ELSE << >>)
  /\ UNCHANGED envVars

EndIfStmt == At("if", "branch") /\ Leave /\ UNCHANGED envVars

VisitConditionalOperator ==
  /\ At("cond", "cond")
  /\ \/ cond(1) /\ Goto("true", <<2>>)
     \/ ~cond(1) /\ Goto("false", <<3>>)
  /\ UNCHANGED envVars

EndConditionalOperator ==
  /\ \/ At("cond", "true") /\ condop(top.id, 2)
     \/ At("cond", "false") /\ condop(top.id, 3)
  /\ Leave

VisitWhileStmt ==
  /\ \/ At("while", "cond") /\ cond(1) /\ Goto("body", <<2>>)
     \/ At("while", "cond") /\ ~cond(1) /\ Leave
     \/ At("while", "body") /\ Goto("cond", <<1>>)
  /\ UNCHANGED envVars

\* A for statement without condition goes on for ever.
Continues == this.kids[2].kind # "null" => cond(2)

VisitForStmt ==
  /\ \/ At("for", "init") /\ Goto("cond", <<2>>)
     \/ At("for", "cond") /\ Continues /\ Goto("body", <<4>>)
     \/ At("for", "cond") /\ ~Continues /\ Leave
     \/ At("for", "body") /\ Goto("inc", <<3>>)
     \/ At("for", "inc") /\ Goto("cond", <<2>>)
  /\ UNCHANGED envVars

-----------------------------------------------------------------------------

\* The end of the program: Environment is destroyed.
Ended == control = << >> /\ thrown = "none"

End == Ended /\ DOMAIN mSpace # {} /\ DestroyHeap /\ UNCHANGED <<control, thrown>>

Done == Ended /\ DOMAIN mSpace = {}

Next ==
  \/ VisitChild \/ VisitExpr \/ VisitDecl \/ VisitBuiltin \/ VisitStmt \/ StartMain
  \/ VisitCallExpr \/ EndCallExpr
  \/ VisitReturnStmt \/ VisitBreakStmt \/ VisitContinueStmt
  \/ Unwind \/ CatchReturn \/ CatchBreak \/ CatchContinue
  \/ VisitIfStmt \/ EndIfStmt \/ VisitConditionalOperator \/ EndConditionalOperator
  \/ VisitWhileStmt \/ VisitForStmt \/ End

\* The interpreter is one thread that nothing suspends.
Spec == Init /\ [][Next]_vars /\ WF_vars(Next)

-----------------------------------------------------------------------------

IsCall(act) == act.phase = "body" /\ Node(act.id).kind = "call"

TypeOK ==
  /\ EnvTypeOK
  /\ thrown \in {"none", "return", "break", "continue"}

\* There is one frame for every call in progress and one for main, also while an
\* exception leaves loops and calls: whichever way a callee ends, its frame goes
\* exactly once, so the caller looks up its own variables again.
FramesMatchCalls ==
  Len(mStack) = 1 + Cardinality({i \in DOMAIN control : IsCall(control[i])})

\* A break or continue that is thrown has a loop to go to before the body of a
\* function ends; the handlers there are none for in VisitCallExpr are not missed.
JumpsStayInFunction ==
  thrown \in {"break", "continue"} =>
    \E i \in DOMAIN control :
      /\ Handles(control[i], thrown)
      /\ \A j \in 1 .. i : ~IsCall(control[j])

\* The program ends, if it does in C, and on the way the interpreter makes no
\* assertion fail and touches no memory outside its blocks.
Terminates == <>Done
=============================================================================
