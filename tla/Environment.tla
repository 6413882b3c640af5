---------------------------- MODULE Environment ----------------------------
(***************************************************************************)
(* Environment, StackFrame, GlobalVars and Heap of Assignment1/src: the    *)
(* state of an interpreted program, and for every kind of AST node the     *)
(* method that InterpreterVisitor calls once it has visited the children.  *)
(*                                                                         *)
(* A Stmt * is the path that leads to the node: the function, then the     *)
(* position of a child at each level.  An address is a number of bytes; an *)
(* element is kept at the address of its first byte.  An assertion that    *)
(* fails and an access outside every block stop the interpreter: the       *)
(* method is not enabled.                                                  *)
(***************************************************************************)
EXTENDS CSyntax, FiniteSets, SequencesExt, Functions

CONSTANTS
  Programs,    \* the programs considered: their functions and their input
  Nodes(_),    \* the paths of the nodes of a program
  Addresses,   \* where malloc may place a block
  Garbage      \* what a new block may hold

VARIABLES
  prog,
  mStack,      \* the stack frames, the current one last
  mGlobal,
  mSpace,      \* mHeap.mSpace: the size of every block to be freed
  memory,      \* the contents of the blocks that malloc has given out
  input,       \* what scanf has not read
  output

envVars == <<prog, mStack, mGlobal, mSpace, memory, input, output>>

-----------------------------------------------------------------------------

\* The node of p at a path, and the path of its i-th child.
NodeOf(p, e) == FoldLeft(LAMBDA n, i : n.kids[i], p.code[Head(e)].body, Tail(e))
Node(e) == NodeOf(prog, e)
Kid(e, i) == Append(e, i)

\* Child i of the statement at e is the body of a loop.
IsLoopBody(p, e, i) ==
  \/ NodeOf(p, e).kind = "while" /\ i = 2
  \/ NodeOf(p, e).kind = "for" /\ i = 4

InLoop(p, e) ==
  \E n \in 1 .. Len(e) - 1 : IsLoopBody(p, SubSeq(e, 1, n), e[n + 1])

HasArity(n) ==
  /\ n.kind = "if" => Len(n.kids) \in {2, 3}
  /\ n.kind = "cond" => Len(n.kids) = 3
  /\ n.kind = "while" => Len(n.kids) = 2
  /\ n.kind = "for" => Len(n.kids) = 4

IsSequence(s) == Len(s) \in Nat /\ s = [i \in 1 .. Len(s) |-> s[i]]

\* Clang has accepted the programs: calls are of functions that are defined, and
\* break and continue are inside a loop of their function.
ASSUME ProgramsAssumption ==
  \A p \in Programs :
    LET nodes == Nodes(p) IN
    /\ {"unit", "main"} \subseteq DOMAIN p.code
    /\ \A f \in DOMAIN p.code : <<f>> \in nodes
    /\ \A e \in nodes :
         LET n == NodeOf(p, e) IN
         /\ IsSequence(e) /\ e # << >>
         /\ IsSequence(n.kids) /\ HasArity(n)
         /\ \A i \in DOMAIN n.kids : Kid(e, i) \in nodes
         /\ n.kind = "call" => n.fn \in DOMAIN p.code
         /\ n.kind \in {"break", "continue"} => InLoop(p, e)

StackFrame ==
  [mVars |-> << >>, mExprs |-> << >>, mPtrs |-> << >>, returnValue |-> 0]

back == Last(mStack)

\* A map in which key has the value val.
Bind(map, key, val) ==
  [k \in DOMAIN map \cup {key} |-> IF k = key THEN val ELSE map[k]]

WithDecl(frame, d, val) == [frame EXCEPT !.mVars = Bind(@, d, val)]
WithStmt(frame, e, val) == [frame EXCEPT !.mExprs = Bind(@, e, val)]
WithPtr(frame, e, addr) == [frame EXCEPT !.mPtrs = Bind(@, e, addr)]

getStmtVal(e) == back.mExprs[e]
getPtrVal(e) == back.mPtrs[e]

\* A variable that the current frame does not have should be a global one.
getDeclVal(d) == IF d \in DOMAIN back.mVars THEN back.mVars[d] ELSE mGlobal[d]

\* Only the current frame changes.
SetBack(frame) ==
  /\ mStack' = [mStack EXCEPT ![Len(mStack)] = frame]
  /\ UNCHANGED <<prog, mGlobal>>

bindStmt(e, val) ==
  /\ SetBack(WithStmt(back, e, val))
  /\ UNCHANGED <<mSpace, memory, input, output>>

-----------------------------------------------------------------------------

\* intliteral, charliteral and, types being known, ueott.
literal(e) == bindStmt(e, Node(e).val)

\* paren and cast hand the value of their operand on.
paren(e) == bindStmt(e, getStmtVal(Kid(e, 1)))

declref(e) == bindStmt(e, getDeclVal(Node(e).d))

\* Mutant: addresses move by bytes.
InBytesPlain(e, i, j) == getStmtVal(Kid(e, i))

\* Operand i of e in bytes if the other operand, j, is a pointer.
InBytes(e, i, j) ==
  LET other == Node(Kid(e, j)).ty
      val == getStmtVal(Kid(e, i))
  IN  IF IsPointer(other) /\ ~IsPointer(Node(Kid(e, i)).ty)
      THEN val * SizeOf(Pointee[other]) ELSE val

Divides(op) == op \in {"/", "%"}

\* binop, for the operators that do not assign.
binop(e) ==
  LET op == Node(e).op IN
  /\ Divides(op) => InBytes(e, 2, 1) # 0
  /\ bindStmt(e, Arithmetic(op, InBytes(e, 1, 2), InBytes(e, 2, 1)))

\* bindDecl stores val in what the lvalue e names, and e's parent gets the value
\* result.  There is no case for an lvalue in parentheses.
bindDecl(e, val, parent, result) ==
  /\ \/ /\ Node(e).kind = "ref"
        /\ SetBack(WithStmt(WithDecl(back, Node(e).d, val), parent, result))
        /\ UNCHANGED memory
     \/ /\ Node(e).kind \in {"sub", "deref"}
        /\ getPtrVal(e) \in DOMAIN memory
        /\ memory' = [memory EXCEPT ![getPtrVal(e)] = Narrow(Node(e).ty, val)]
        /\ SetBack(WithStmt(back, parent, result))
     \/ /\ Node(e).kind = "paren"
        /\ SetBack(WithStmt(back, parent, result))
        /\ UNCHANGED memory
  /\ UNCHANGED <<mSpace, input, output>>

\* binop, for = and the compound assignments.
assignop(e) ==
  LET op == Node(e).op
      right == InBytes(e, 2, 1)
      val == IF op = "=" THEN right ELSE Arithmetic(op, InBytes(e, 1, 2), right)
  IN  /\ Divides(op) => right # 0
      /\ bindDecl(Kid(e, 1), val, e, val)

\* unaryop: -, +, ~ and !, and the operator & that is left to be done.
unaryop(e) ==
  bindStmt(e, IF Node(e).op = "&" THEN 0 ELSE Negation(Node(e).op, getStmtVal(Kid(e, 1))))

\* unaryop: ++ and --.
incdecop(e) ==
  LET expr == Kid(e, 1)
      unit == IF IsPointer(Node(expr).ty) THEN SizeOf(Pointee[Node(expr).ty]) ELSE 1
      old == getStmtVal(expr)
      new == old + Node(e).sign * unit
  IN  bindDecl(expr, new, e, IF Node(e).fix = "pre" THEN new ELSE old)

\* Mutant: an array element remembers its address only.
AccessAddress(e, addr) ==
  /\ addr \in DOMAIN memory
  /\ SetBack(WithPtr(back, e, addr))
  /\ UNCHANGED <<mSpace, memory, input, output>>

\* The value at addr, for an expression that can be assigned to.
Access(e, addr) ==
  /\ addr \in DOMAIN memory
  /\ SetBack(WithPtr(WithStmt(back, e, memory[addr]), e, addr))
  /\ UNCHANGED <<mSpace, memory, input, output>>

\* unaryop: *.
derefop(e) == Access(e, getStmtVal(Kid(e, 1)))

arraysub(e) ==
  Access(e, getStmtVal(Kid(e, 1)) + getStmtVal(Kid(e, 2)) * SizeOf(Node(e).ty))

\* The value of the alternative that was visited.
condop(e, i) == bindStmt(e, getStmtVal(Kid(e, i)))

-----------------------------------------------------------------------------

Bytes(base, size) == base .. base + size - 1

\* Heap::Malloc of size bytes, which malloc places at base and which hold fill.
Malloc(base, size, fill) ==
  /\ base \notin DOMAIN mSpace
  /\ Bytes(base, size) \cap DOMAIN memory = {}
  /\ memory' = [a \in DOMAIN memory \cup Bytes(base, size) |->
                  IF a \in Bytes(base, size) THEN fill ELSE memory[a]]
  /\ mSpace' = Bind(mSpace, base, size)
  /\ UNCHANGED <<input, output>>

Release(base) == Restrict(memory, DOMAIN memory \ Bytes(base, mSpace[base]))

\* Mutant: the block stays registered.
FreeKeep(base) ==
  /\ base \in DOMAIN mSpace
  /\ memory' = Release(base)
  /\ UNCHANGED <<prog, mStack, mGlobal, mSpace, input, output>>

\* Heap::Free asserts that it gave the block out and has not freed it.
Free(base) ==
  /\ base \in DOMAIN mSpace
  /\ memory' = Release(base)
  /\ mSpace' = Restrict(mSpace, DOMAIN mSpace \ {base})
  /\ UNCHANGED <<prog, mStack, mGlobal, input, output>>

\* Heap::~Heap frees what the program has not.
DestroyHeap ==
  /\ memory' = Restrict(memory, DOMAIN memory \
                                 UNION {Bytes(b, mSpace[b]) : b \in DOMAIN mSpace})
  /\ mSpace' = << >>
  /\ UNCHANGED <<prog, mStack, mGlobal, input, output>>

\* vardecl: a variable without initial value is 0.
vardecl(e) ==
  LET n == Node(e) IN
  /\ SetBack(WithDecl(back, n.d, IF n.kids = << >> THEN 0 ELSE getStmtVal(Kid(e, 1))))
  /\ UNCHANGED <<mSpace, memory, input, output>>

\* vardecl: an array is a new block of zeroes, which only ~Heap frees.
arraydecl(e) ==
  \E addr \in Addresses :
    /\ Malloc(addr, Node(e).len * SizeOf(Node(e).ty), 0)
    /\ SetBack(WithDecl(back, Node(e).d, addr))

\* callbuildin, by function.  scanf leaves 0 at the end of the input.
builtinGET(e) ==
  /\ input' = (IF input = << >> THEN << >> ELSE Tail(input))
  /\ SetBack(WithStmt(back, e, IF input = << >> THEN 0 ELSE Head(input)))
  /\ UNCHANGED <<mSpace, memory, output>>

builtinPRINT(e) ==
  /\ output' = Append(output, getStmtVal(Kid(e, 1)))
  /\ UNCHANGED <<prog, mStack, mGlobal, mSpace, memory, input>>

builtinMALLOC(e) ==
  \E addr \in Addresses, garbage \in Garbage :
    /\ Malloc(addr, getStmtVal(Kid(e, 1)), garbage)
    /\ SetBack(WithStmt(back, e, addr))

builtinFREE(e) == Free(getStmtVal(Kid(e, 1)))

-----------------------------------------------------------------------------

\* call pushes a frame with the arguments.
call(e) ==
  LET params == prog.code[Node(e).fn].params
      bound == [d \in Range(params) |->
                  getStmtVal(Kid(e, CHOOSE i \in DOMAIN params : params[i] = d))]
  IN  /\ mStack' = Append(mStack, [StackFrame EXCEPT !.mVars = bound])
      /\ UNCHANGED <<prog, mGlobal, mSpace, memory, input, output>>

\* Mutant: the frame of the callee stays.
exitKeep(e) ==
  /\ mStack' = [mStack EXCEPT ![Len(mStack)] = WithStmt(back, e, back.returnValue)]
  /\ UNCHANGED <<prog, mGlobal, mSpace, memory, input, output>>

\* exit pops it and gives the caller the return value.
exit(e) ==
  LET rest == Front(mStack)
      caller == IF Node(e).ty = "void" THEN Last(rest)
                ELSE WithStmt(Last(rest), e, back.returnValue)
  IN  /\ mStack' = Append(Front(rest), caller)
      /\ UNCHANGED <<prog, mGlobal, mSpace, memory, input, output>>

returnstmt(e) ==
  /\ SetBack([back EXCEPT !.returnValue = getStmtVal(Kid(e, 1))])
  /\ UNCHANGED <<mSpace, memory, input, output>>

\* init: the frame the global variables were declared in becomes mGlobal, and
\* main starts in an empty one.
init ==
  /\ mGlobal' = back.mVars
  /\ mStack' = <<StackFrame>>
  /\ UNCHANGED <<prog, mSpace, memory, input, output>>

\* Environment::Environment
EnvInit ==
  /\ prog \in Programs
  /\ mStack = <<StackFrame>>
  /\ mGlobal = << >>
  /\ mSpace = << >>
  /\ memory = << >>
  /\ input = prog.input
  /\ output = << >>

-----------------------------------------------------------------------------

EnvTypeOK ==
  /\ mStack # << >>
  /\ \A i \in DOMAIN mStack : DOMAIN mStack[i].mPtrs \subseteq DOMAIN mStack[i].mExprs
  /\ DOMAIN mSpace \subseteq Addresses

\* The heap owns exactly the blocks that malloc has given out: ~Heap frees every
\* block that the program has not freed (local arrays among them) and none twice.
HeapOwnsMemory ==
  DOMAIN memory = UNION {Bytes(b, mSpace[b]) : b \in DOMAIN mSpace}
=============================================================================
