-------------------------- MODULE InterpreterTests --------------------------
(***************************************************************************)
(* Assignment1/testcases: class/ex.c, class/test00.c to test24.c (ClassNN) *)
(* and self/test00.c to test11.c (SelfNN), the inputs of                   *)
(* Assignment1/all-check.sh.  Statements keep their order; implicit casts  *)
(* and prototypes are left out.  A local variable that hides another one   *)
(* has a name of its own.  in is what the input holds.                     *)
(***************************************************************************)
EXTENDS CSyntax, TLC

Function(params, stmts) == [params |-> params, body |-> Block(stmts)]

\* A program from its global declarations, its functions and its input.
Program(decls, fns, in) ==
  [code |-> ("unit" :> [params |-> << >>, body |-> Block(decls)]) @@ fns, input |-> in]

Main(stmts) == "main" :> Function(<< >>, stmts)

OneFunction(stmts) == Program(<< >>, Main(stmts), << >>)
Reading(stmts, in) == Program(<< >>, Main(stmts), in)

a == Ref("a", "int")
b == Ref("b", "int")
c == Ref("c", "int")
i == Ref("i", "int")
x == Ref("x", "int")
y == Ref("y", "int")

Zero == Literal(0)

Add(l, r) == Binary("+", l, r)
Minus(l, r) == Binary("-", l, r)
Times(l, r) == Binary("*", l, r)
Less(l, r) == Binary("<", l, r)
Greater(l, r) == Binary(">", l, r)

IntVar(d, v) == VarInit(d, "int", Literal(v))
Put(v, n) == Set(v, Literal(n))
Up(v, n) == Set(v, Add(v, Literal(n)))

\* while (v < n) { v = v + step; rest }   and   for (v = 0; v < n; v = v + 1) s
CountBy(v, n, step, rest) == While(Less(v, Literal(n)), Block(<<Up(v, step)>> \o rest))
ForEach(v, n, s) == For(Put(v, 0), Less(v, Literal(n)), Up(v, 1), s)

CallF(e) == Call("f", "int", <<e>>)
New(ty, size) == Cast(ty, MALLOC("void*", size))

-----------------------------------------------------------------------------

Ex(in) == Reading(<<Var("a", "int"), Set(a, GET), PRINT(a)>>, in)

Class00 == OneFunction(<<Var("a", "int"), Put(a, 100), PRINT(a)>>)

Class01 == Program(<<IntVar("b", 10)>>,
  ("f" :> Function(<<"x">>,
     <<IfElse(Greater(x, Zero), Return(Add(Literal(5), CallF(Minus(x, Literal(5))))),
              Return(Zero))>>))
    @@ Main(<<PRINT(CallF(b))>>), << >>)

Class02 ==
  LET f(l, r) == Call("f", "int", <<l, r>>)
  IN  Program(<<IntVar("b", 10)>>,
        ("f" :> Function(<<"x", "y">>,
           <<IfElse(Greater(y, Zero), Return(Add(x, f(x, Minus(y, Literal(1))))),
                    Return(Zero))>>))
          @@ Main(<<IntVar("a", 2), PRINT(f(b, a))>>), << >>)

Class03 == OneFunction(
  <<Var("a", "int"), IntVar("b", 10), Put(a, 10),
    IfElse(Binary("==", a, Literal(10)), Block(<<Put(b, 20)>>), Block(<<Put(b, 0)>>)),
    PRINT(Times(a, b))>>)

Class04 == OneFunction(
  <<Var("a", "int"), IntVar("b", 10), Set(a, Unary("-", Literal(10))),
    IfElse(Greater(a, Zero), Block(<<Set(b, a)>>), Block(<<Set(b, Unary("-", a))>>)),
    PRINT(b)>>)

Class05 == OneFunction(
  <<Var("a", "int"), IntVar("b", 0), Put(a, 10),
    While(Less(b, a), Block(<<Up(b, 1)>>)), PRINT(b)>>)

Class06 == OneFunction(
  <<IntVar("a", 0), IntVar("b", 0), CountBy(a, 10, 1, <<Up(b, 2)>>), PRINT(b)>>)

Class07 == OneFunction(<<IntVar("a", 0), ForEach(a, 10, Null), PRINT(a)>>)

Class08 == OneFunction(
  <<Var("a", "int"), Var("b", "int"), Put(a, 0), CountBy(a, 10, 1, << >>),
    IfElse(Greater(a, Literal(10)), Put(b, 10), Put(b, 20)), PRINT(b)>>)

Class09 == OneFunction(
  <<IntVar("a", 0), IntVar("b", 0), Put(a, 0), ForEach(a, 10, Block(<<Up(b, 2)>>)), PRINT(b)>>)

Class10 == OneFunction(
  <<IntVar("a", 0), IntVar("b", 0),
    CountBy(a, 10, 1, <<If(Greater(a, Literal(5)), Up(b, 1))>>), PRINT(b)>>)

Class11 == OneFunction(
  <<Block(<<Var("a", "int"), Var("b", "int"), Var("c", "int")>>), Put(a, 0), Put(c, 0),
    CountBy(a, 10, 1, <<Put(b, 0), CountBy(b, 10, 1, <<Up(c, 1)>>)>>), PRINT(c)>>)

Class12 ==
  LET arr == Ref("arr", "int*")
  IN  OneFunction(
        <<Array("arr", "int", 3), Var("i", "int"), IntVar("b", 0),
          ForEach(i, 3, Block(<<Set(Sub(arr, i), Times(i, i))>>)),
          Set(b, Sub(arr, Literal(2))), PRINT(b)>>)

Class13 ==
  LET local == Ref("b1", "int")
  IN  Program(<<Var("b", "int")>>,
        ("f" :> Function(<<"x">>, <<Return(Add(x, Literal(10)))>>))
          @@ Main(<<Var("a", "int"), Var("b1", "int"), Set(a, Unary("-", Literal(10))),
                    IfElse(Greater(a, Zero), Set(local, CallF(a)), Set(local, CallF(Unary("-", a)))),
                    PRINT(local)>>), << >>)

Class14 == Program(<< >>,
  ("f" :> Function(<<"x">>,
     <<IntVar("i", 0), While(Less(i, x), Block(<<Up(i, 2)>>)), Return(Add(i, Literal(10)))>>))
    @@ Main(<<Var("a", "int"), Var("b", "int"), Put(a, 1), Set(b, CallF(a)), PRINT(b)>>), << >>)

\* An array in a function with two return statements.
Class15 ==
  LET arr == Ref("arr", "int*")
  IN  Program(<< >>,
        ("f" :> Function(<<"x">>,
           <<Array("arr", "int", 3), IntVar("i", 0),
             For(Null, Less(i, Literal(3)), Up(i, 1), Block(<<Set(Sub(arr, i), Add(x, i))>>)),
             If(Greater(x, Zero), Return(Sub(arr, Literal(1)))),
             Return(Sub(arr, Literal(2)))>>))
          @@ Main(<<Var("a", "int"), Var("b", "int"), Set(a, Unary("-", Literal(10))),
                    Set(b, CallF(a)), PRINT(b)>>), << >>)

Class16 == Program(<< >>,
  ("x" :> Function(<<"y">>, <<Return(Add(y, Literal(10)))>>))
    @@ ("f" :> Function(<<"b">>, <<Return(Add(Call("x", "int", <<b>>), Literal(10)))>>))
    @@ Main(<<Var("a", "int"), Put(a, 10), Set(a, CallF(a)), PRINT(a), Return(Zero)>>), << >>)

-----------------------------------------------------------------------------
\* Memory.

pa == Ref("pa", "int*")
pc == Ref("pc", "int*")
pb == Ref("pb", "int**")

Class17 == OneFunction(
  <<Var("pa", "int*"), Var("b", "int"), Put(b, 10), Set(pa, New("int*", SizeOfType("int"))),
    Set(Deref(pa), b), PRINT(Deref(pa)), FREE(pa)>>)

\* a = (int *)MALLOC(sizeof(int) * 2)   and   *(q + 1)
TwoInts == Set(pa, New("int*", Times(SizeOfType("int"), Literal(2))))
Second(q) == Deref(Paren(Add(q, Literal(1))))

Class18 == OneFunction(
  <<Var("pa", "int*"), Var("pb", "int**"), Var("pc", "int*"), TwoInts,
    Set(pb, New("int**", SizeOfType("int*"))), Set(Deref(pb), pa),
    Set(Deref(pa), Literal(10)), Set(Second(pa), Literal(20)), Set(pc, Deref(pb)),
    PRINT(Deref(pc)), PRINT(Second(pc)), FREE(pa), FREE(Cast("int*", pb))>>)

\* An array of pointers.
Class19 ==
  LET arr == Ref("arr", "int**")
  IN  OneFunction(
        <<Var("pa", "int*"), Var("b", "int*"), Array("arr", "int*", 2), TwoInts,
          Set(Deref(pa), Literal(10)), Set(Second(pa), Literal(20)),
          Set(Sub(arr, Zero), pa), Set(Sub(arr, Literal(1)), Add(pa, Literal(1))),
          PRINT(Deref(Sub(arr, Zero))), PRINT(Deref(Sub(arr, Literal(1))))>>)

\* Recursion, and an array in every activation.  The file has n = 5, which needs
\* fifteen blocks.
Class20(n) ==
  LET arr == Ref("arr", "int*")
      fib(e) == Call("fibonacci", "int", <<e>>)
  IN  Program(<< >>,
        ("fibonacci" :> Function(<<"b">>,
           <<Var("i", "int"), Var("c", "int"), Array("arr", "int", 2),
             If(Less(b, Literal(2)), Return(b)),
             ForEach(i, 2, Block(<<Set(Sub(arr, i), Minus(Minus(b, Literal(1)), i))>>)),
             Set(c, Add(fib(Sub(arr, Zero)), fib(Sub(arr, Literal(1))))), Return(c)>>))
          @@ Main(<<Var("a", "int"), Var("b", "int"), Put(a, 5), Set(b, fib(Literal(n))),
                    PRINT(b), Return(Zero)>>), << >>)

\* Two functions that call each other.
Class21 ==
  LET arr == Ref("arr", "int*")
      call(f, e) == Call(f, "void", <<e>>)
      before(n) == Sub(arr, Minus(i, Literal(n)))
  IN  Program(<< >>,
        ("print1" :> Function(<<"x">>,
           <<If(Greater(x, Literal(3)),
                Block(<<PRINT(Minus(x, Literal(1))), call("print2", Minus(x, Literal(3)))>>)),
             PRINT(x)>>))
          @@ ("print2" :> Function(<<"b">>,
               <<If(Greater(b, Literal(2)),
                    Block(<<PRINT(b), call("print1", Minus(b, Literal(2)))>>))>>))
          @@ Main(<<Array("arr", "int", 10), Var("i", "int"), Set(Sub(arr, Zero), Zero),
                    Set(Sub(arr, Literal(1)), Literal(1)),
                    For(Put(i, 2), Less(i, Literal(10)), Up(i, 1),
                        Set(Sub(arr, i), Add(before(1), before(2)))),
                    call("print1", Sub(arr, Literal(9))), Return(Zero)>>), << >>)

\* swap exchanges two characters.
ca == Ref("ca", "char*")
cb == Ref("cb", "char*")
Swap(params, rest) ==
  "swap" :> Function(<<"ca", "cb">> \o params,
    <<Var("temp", "char"), Set(Ref("temp", "char"), Deref(ca)), Set(Deref(ca), Deref(cb)),
      Set(Deref(cb), Ref("temp", "char"))>> \o rest)
CallsSwap(args) == Call("swap", "void", args)

\* main of class/test22.c to test24.c: two characters, the pointers to them, and
\* what exchanges them.
SwapMain(pointers, swap) ==
  LET new(q) == Set(q, New("char*", Literal(1)))
  IN  Main(<<Var("ca", "char*"), Var("cb", "char*"), new(ca), new(cb)>> \o pointers
        \o <<Set(Deref(cb), Literal(24)), Set(Deref(ca), Literal(42))>> \o swap
        \o <<PRINT(Cast("int", Deref(ca))), PRINT(Cast("int", Deref(cb))), FREE(ca), FREE(cb),
             Return(Zero)>>)

Class22 ==
  Program(<< >>, Swap(<< >>, << >>) @@ SwapMain(<< >>, <<CallsSwap(<<ca, cb>>)>>), << >>)

\* dswap(pa, pb, rest) calls swap(*pa, *pb, rest).
DSwap(rest, args) ==
  LET qa == Ref("qa", "char**")
      qb == Ref("qb", "char**")
      params == [n \in DOMAIN rest |-> rest[n].d]
  IN  ("dswap" :> Function(<<"qa", "qb">> \o params,
         <<CallsSwap(<<Deref(qa), Deref(qb)>> \o rest)>>))
        @@ SwapMain(<<Var("qa", "char**"), Var("qb", "char**"),
                      Set(qa, New("char**", Literal(8))), Set(qb, New("char**", Literal(8)))>>,
                    <<Set(Deref(qa), ca), Set(Deref(qb), cb),
                      Call("dswap", "void", <<qa, qb>> \o args)>>)

Class23 == Program(<< >>, Swap(<< >>, << >>) @@ DSwap(<< >>, << >>), << >>)

\* Recursion without return.
Class24 ==
  LET again(n) == Block(<<CallsSwap(<<ca, cb, Minus(x, Literal(n))>>)>>)
  IN  Program(<< >>,
        Swap(<<"x">>, <<IfElse(Binary(">=", x, Literal(5)), again(2),
                               If(Binary(">=", x, Literal(2)), again(1)))>>)
          @@ DSwap(<<x>>, <<Literal(6)>>), << >>)

-----------------------------------------------------------------------------
\* self/

Self00(in) == Program(<<IntVar("a", 10)>>, Main(<<PRINT(a), Set(a, GET), PRINT(a)>>), in)

\* A local variable that hides a global one.
Self01(in) ==
  LET local == Ref("a1", "int")
  IN  Program(<<VarInit("a", "int", Minus(Literal(10), Times(Literal(13), Literal(2)))),
                IntVar("b", 3)>>,
        Main(<<PRINT(a),
               VarInit("a1", "int", Times(Paren(Add(Literal(3), Literal(4))), b)),
               PRINT(local), Set(local, GET), PRINT(local)>>), in)

ThirtySix == VarInit("a", "int", Add(Literal(10), Times(Literal(13), Literal(2))))

Self02(in) ==
  Program(<<ThirtySix, Var("b", "int")>>,
    Main(<<Block(<<VarInit("c", "int", Binary("%", Literal(4), Literal(6))), IntVar("d", 8)>>),
           Set(b, GET), PRINT(Minus(Add(a, b), Times(c, Ref("d", "int"))))>>), in)

Self03(in) ==
  Program(<<ThirtySix>>,
    Main(<<VarInit("b", "int", GET),
           VarInit("a1", "int",
                   Choice(Greater(b, Literal(2)), Unary("-", Literal(1)), Literal(1))),
           PRINT(Ref("a1", "int"))>>), in)

Self04(in) == Reading(
  <<Var("a", "int"), Block(<<IntVar("b", 10), VarInit("c", "int", GET)>>), Put(a, 10),
    IfElse(Binary("!=", a, Literal(10)), Block(<<Put(b, 20)>>),
           IfElse(Greater(c, Literal(1)), Block(<<Put(b, 0)>>),
                  Block(<<Set(b, Unary("-", Paren(Times(Literal(1), Literal(2)))))>>))),
    PRINT(Times(a, b))>>, in)

\* ++ and --, a global variable and the input.
Self05(in) ==
  Program(<<IntVar("a", 1), Var("b", "int")>>,
    Main(<<Set(b, GET), PRINT(Add(Step("pre", 1, a), Step("post", 1, b))),
           PRINT(Add(Step("post", -1, a), Step("pre", -1, b))), PRINT(a), PRINT(b)>>), in)

Self06 ==
  LET inner == Ref("a1", "int")
  IN  OneFunction(
        <<VarInit("a", "int", Unary("-", Literal(100))),
          For(IntVar("a1", 0), Less(inner, Literal(10)), Assign("+", inner, Literal(1)),
              Block(<<PRINT(Step("pre", 1, inner))>>)),
          PRINT(a)>>)

Self07 == OneFunction(
  <<PRINT(SizeOfType("int")), PRINT(SizeOfType("int*")), PRINT(SizeOfType("char")),
    PRINT(SizeOfExpr(Paren(Times(Literal(123), Literal(123)))))>>)

\* *++d
Self08 ==
  LET pd == Ref("pd", "int*")
  IN  OneFunction(
        <<Var("pa", "int*"), Var("pb", "int**"), Var("pc", "int*"), Var("pd", "int*"), TwoInts,
          Set(pb, New("int**", SizeOfType("int*"))), Set(pd, pa), Set(Deref(pb), pa),
          Set(Deref(pa), Literal(10)), Set(Deref(Step("pre", 1, pd)), Literal(20)),
          Set(pc, Deref(pb)), PRINT(Deref(pc)), PRINT(Second(pc)),
          FREE(pa), FREE(Cast("int*", pb))>>)

\* break and continue.
Self09 == OneFunction(
  <<IntVar("a", 0),
    For(IntVar("i", 0), Null, Step("pre", 1, i),
        Block(<<PRINT(i), If(Binary(">=", a, Literal(100)), Break), Assign("+", a, i),
                IfElse(Binary("%", i, Literal(3)), Block(<<PRINT(Binary("^", i, a))>>), Continue),
                PRINT(a)>>)),
    PRINT(a), Return(Zero)>>)

TheSum == "add" :> Function(<<"a", "b">>, <<Return(Add(a, b))>>)
SumOf(l, r) == Call("add", "int", <<l, r>>)

Self10 ==
  LET gcd(l, r) == Call("gcd", "int", <<l, r>>)
  IN  Program(<< >>,
        Main(<<VarInit("c", "int", SumOf(Literal(3), Literal(4))), PRINT(c),
               PRINT(gcd(Times(Literal(3), Literal(1081)), Times(Literal(7), Literal(1232)))),
               PRINT(gcd(Times(Literal(3), Literal(5)), Literal(3))), Return(Zero)>>)
          @@ TheSum
          @@ ("gcd" :> Function(<<"a", "b">>,
                <<Return(Choice(Greater(b, Zero), gcd(b, Binary("%", a, b)), a))>>)), << >>)

\* A bit of everything; c is a character and ptr a void *.
Self11 ==
  LET arr == Ref("arr", "int*")
      z == Ref("z", "int")
      char == Ref("c", "char")
      ptr == Ref("ptr", "void*")
      j == Ref("j", "int")
  IN  Program(<<Array("arr", "int", 5)>>,
        Main(<<Block(<<Var("x", "int"), Var("y", "int"), Var("z", "int")>>), Var("c", "char"),
               Var("ptr", "void*"), Var("pa", "int*"),
               Put(x, 10), Set(y, SizeOfExpr(Paren(char))), Put(char, 65), PRINT(char),
               Set(z, Binary("^", Add(Binary("/", x, y), y), x)), PRINT(z),
               VarInit("b", "int", Choice(Binary("^", z, char), SumOf(x, y),
                                          SumOf(x, Unary("-", y)))),
               PRINT(b),
               IfElse(Greater(x, y), Block(<<PRINT(Unary("-", Literal(2333)))>>),
                      Block(<<PRINT(Unary("+", Literal(114514)))>>)),
               While(Greater(x, Zero), Block(<<PRINT(x), Step("post", -1, x)>>)),
               For(Block(<<IntVar("i", 0), IntVar("j", 1)>>), Less(i, Literal(5)),
                   Step("post", 1, i), Block(<<PRINT(Times(i, Step("post", -1, j)))>>)),
               Set(ptr, MALLOC("void*", SizeOfType("int"))),
               If(Binary("!=", ptr, Zero),
                  Block(<<Set(Deref(Cast("int*", ptr)), Literal(42)),
                          PRINT(Deref(Cast("int*", ptr))), FREE(ptr)>>)),
               Set(pa, Add(arr, Literal(3))), Set(Deref(pa), Literal(123)),
               PRINT(Sub(arr, Literal(3))), Return(Zero)>>)
          @@ TheSum, << >>)

-----------------------------------------------------------------------------

Tests(inputs) ==
  {Class00, Class01, Class02, Class03, Class04, Class05, Class06, Class07, Class08, Class09,
   Class10, Class11, Class12, Class13, Class14, Class15, Class16, Class17, Class18, Class19,
   Class20(2), Class21, Class22, Class23, Class24,
   Self06, Self07, Self08, Self09, Self10, Self11}
    \cup UNION {{Ex(in), Self00(in), Self01(in), Self02(in), Self03(in), Self04(in), Self05(in)} :
                  in \in inputs}
=============================================================================
