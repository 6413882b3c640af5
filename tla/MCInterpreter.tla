--------------------------- MODULE MCInterpreter ---------------------------
(***************************************************************************)
(* Programs for TLC: every loop of two statements that may jump or call,   *)
(* every assignment to every kind of lvalue, the operators on bits, and    *)
(* the inputs of Assignment1/testcases.                                    *)
(***************************************************************************)
EXTENDS InterpreterMeetsC, InterpreterTests

j == Ref("j", "int")
k == Ref("k", "int")

-----------------------------------------------------------------------------

\* f(y) returns from within a loop, or falls out of it by break.
F == Function(<<"y">>,
       <<VarInit("j", "int", Literal(0)),
         While(Literal(1),
           Block(<<Set(j, Add(j, Literal(1))),
                   IfElse(Less(y, j), Return(j),
                          If(Less(Literal(1), j), Break))>>)),
         Return(Add(j, y))>>)

Simple == {Break, Continue, Return(Literal(0)), Set(x, Add(x, Literal(2))),
           PRINT(Call("f", "int", <<x>>))}

AtOne(s) == If(Binary("==", i, Literal(1)), s)

\* An inner loop.
Inner(s) ==
  For(VarInit("k", "int", Literal(0)), Less(k, Literal(2)), Step("post", 1, k),
      Block(<<If(Binary("==", k, i), s), Set(x, Add(x, Literal(1)))>>))

Bodies == {<<AtOne(s), t>> : s \in Simple, t \in Simple}
            \cup {<<Inner(s), t>> : s \in Simple, t \in Simple}

\* i goes up in the increment, in the body, or in both.
Loops(body) ==
  {For(VarInit("i", "int", Literal(0)), Less(i, Literal(3)), Step("pre", 1, i), Block(body)),
   For(Null, Null, Null,
       Block(<<AtOne(Break), Step("post", 1, i)>> \o body)),
   While(Less(Step("post", 1, i), Literal(2)), Block(body))}

JumpPrograms ==
  {Program(<< >>,
     ("f" :> F) @@
     ("main" :> Function(<< >>,
        <<VarInit("x", "int", Literal(0)), VarInit("i", "int", Literal(0)), loop, PRINT(x)>>)),
     << >>) : loop \in UNION {Loops(body) : body \in Bodies}}

-----------------------------------------------------------------------------
\* Every kind of assignment to every kind of lvalue: a variable, and elements of
\* an array, through pointers that may move on the way.

p == Ref("p", "int*")
arr == Ref("arr", "int*")
chars == Ref("chars", "char*")

LValues ==
  {x, Deref(p), Sub(p, x), Deref(Paren(Add(p, x))), Deref(Paren(Minus(Add(x, p), x))),
   Deref(Step("pre", 1, p)), Deref(Step("post", 1, p)), Deref(Step("pre", -1, p))}

Changes(l) ==
  {Set(l, Set(y, Literal(5))), Assign("+", l, Binary("||", y, x)),
   Assign("/", l, Literal(-2)), Step("pre", -1, l), Step("post", 1, l)}

ArrayProgram(change) ==
  LET at(v) == Sub(arr, Literal(v)) IN
  OneFunction(
    <<Array("arr", "int", 3), VarInit("x", "int", Literal(1)), Var("y", "int"),
      VarInit("p", "int*", Add(arr, Literal(1))),
      Set(at(0), Literal(-7)), Set(at(1), Literal(8)), Set(at(2), Literal(9)),
      PRINT(change), PRINT(x), PRINT(Deref(p)),
      PRINT(at(0)), PRINT(at(1)), PRINT(at(2))>>)

\* A char element holds less than what is stored in it.
CharProgram ==
  OneFunction(
    <<Array("chars", "char", 2),
      Assign("+", Sub(chars, Literal(1)), Literal(100)),
      Assign("+", Sub(chars, Literal(1)), Literal(100)),
      PRINT(Deref(Paren(Add(chars, Literal(1)))))>>)

AssignmentPrograms ==
  {ArrayProgram(ch) : ch \in UNION {Changes(l) : l \in LValues}} \cup {CharProgram}

\* The operators on bits, which shift only what C can shift.
BitProgram(op, l, r) ==
  OneFunction(<<IntVar("x", l), PRINT(Binary(op, x, Literal(r))),
                PRINT(Unary("~", Assign(op, x, Literal(r)))), PRINT(x)>>)

BitPrograms ==
  {BitProgram(op, l, r) : op \in {"&", "|", "^"}, l \in {-13, 21}, r \in {-6, 11}}
    \cup {BitProgram("<<", 21, 2), BitProgram(">>", 21, 2), BitProgram(">>", -13, 2)}

-----------------------------------------------------------------------------

MCPrograms ==
  JumpPrograms \cup AssignmentPrograms \cup BitPrograms \cup Tests({<< >>, <<3>>})

RECURSIVE Below(_, _)

\* The path of a node and those of what is below it.
Below(path, node) ==
  {path} \cup UNION {Below(Append(path, m), node.kids[m]) : m \in DOMAIN node.kids}

MCNodes(program) == UNION {Below(<<f>>, program.code[f].body) : f \in DOMAIN program.code}
MCAddresses == {16, 48, 80, 112}
=============================================================================
