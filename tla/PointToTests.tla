---------------------------- MODULE PointToTests ---------------------------
(***************************************************************************)
(* Assignment3/testcases/class/test00.c to test34.c and the output each    *)
(* gives in its last comments, as clang -g -O0 and mem2reg leave them.     *)
(* Integers and branch conditions are left out, except that the loads of a *)
(* condition are kept.  TestNN is testNN.c.                                *)
(*                                                                         *)
(* A struct of one pointer is passed by value as that pointer; the callee  *)
(* stores it in an object of its own.                                      *)
(***************************************************************************)
EXTENDS PointerProgram

\* Inputs that Assignment2 has too.
Simpler == INSTANCE FuncPtrTests

Both == {"plus", "minus"}

Malloc == Declaration("malloc")
MemCpyDecl == Declaration("llvm.memcpy")
MemSetDecl == Declaration("llvm.memset")

Test00 == Simpler!Test15

Test01 == Test(
  <<PlusFn, MinusFn,
    Function("clever", << >>,
      <<Block("b0", {"b1", "b2"}, << >>), Block("b1", {"b2"}, << >>),
        Block("b2", {"b3", "b4"}, <<Phi("t", [b0 |-> "minus", b1 |-> "plus"])>>),
        Block("b3", {"b4"}, <<Call("c", "t", << >>, 22)>>), Block("b4", {}, <<RetInt>>)>>)>>,
  {<<22, Both>>})

Test02 == Test(
  <<PlusFn, MinusFn,
    Function("clever", << >>,
      <<Block("b0", {"b1", "b2"}, <<Alloca("t"), MemSet("t", TRUE)>>),
        Block("b1", {"b3"}, Put("p1", "t", 0, "plus")),
        Block("b2", {"b3"}, Put("p2", "t", 0, "minus")),
        Block("b3", {"b4", "b5"}, Get("v1", "t", 0)),
        Block("b4", {"b5"}, Get("v2", "t", 0) \o <<Call("c", "v2", << >>, 28)>>),
        Block("b5", {}, <<RetInt>>)>>),
    MemSetDecl>>,
  {<<28, Both>>})

Test03 == Test(
  <<PlusFn, MinusFn,
    Function("clever", << >>,
      <<Block("b0", {"b1", "b2"}, <<Alloca("t"), MemSet("t", TRUE)>>),
        Block("b1", {"b2"}, Put("p1", "t", 0, "plus")),
        Block("b2", {"b3", "b4"}, << >>),
        Block("b3", {"b4"}, Put("p2", "t", 0, "minus")),
        Block("b4", {"b5", "b6"}, Get("v1", "t", 0)),
        Block("b5", {"b6"}, Get("v2", "t", 0) \o <<Call("c", "v2", << >>, 27)>>),
        Block("b6", {}, <<RetInt>>)>>),
    MemSetDecl>>,
  {<<27, Both>>})

Test04 == Simpler!Test04

Test05 == Test(
  <<PlusFn, MinusFn,
    Function("clever", << >>,
      <<Block("b0", {"b1", "b2"}, <<Alloca("t"), Alloca("q"), Alloca("r")>>),
        Block("b1", {"b2"}, Put("p1", "t", 1, "plus")),
        Block("b2", {"b3", "b4"}, << >>),
        Block("b3", {"b4"}, Put("p2", "t", 1, "minus")),
        Block("b4", {"b5", "b6"}, << >>),
        Block("b5", {"b6"}, Get("v1", "t", 1) \o Put("p3", "q", 0, "v1")),
        Block("b6", {"b7", "b8"}, << >>),
        Block("b7", {"b8"}, Get("v2", "q", 0) \o Put("p4", "r", 1, "v2")),
        Block("b8", {"b9", "b10"}, Get("v3", "t", 1)),
        Block("b9", {"b10"}, Get("v4", "r", 1) \o <<Call("c", "v4", << >>, 33)>>),
        Block("b10", {}, <<RetInt>>)>>)>>,
  {<<33, Both>>})

Test06 == Test(
  <<PlusFn, MinusFn,
    Function("foo", << >>,
      IfElse(New("a", 11),
        <<Store("plus", "a"), Load("v1", "a"), Call("c1", "v1", << >>, 15), Store("minus", "a")>>,
        <<Store("minus", "a")>>,
        <<Load("v2", "a"), Call("c2", "v2", << >>, 21), RetVoid>>)),
    Malloc>>,
  {<<11, {"malloc"}>>, <<15, {"plus"}>>, <<21, {"minus"}>>})

Test07 == Test(
  <<PlusFn, MinusFn,
    Function("foo", << >>,
      IfElse(<<Alloca("a")>>,
        Put("p1", "a", 0, "plus") \o Get("v1", "a", 0) \o <<Call("c1", "v1", << >>, 19)>>
          \o Put("p2", "a", 0, "minus"),
        Put("p3", "a", 0, "minus"),
        Get("v2", "a", 0) \o <<Call("c2", "v2", << >>, 25), RetVoid>>))>>,
  {<<19, {"plus"}>>, <<25, {"minus"}>>})

Test08 == Test(
  <<PlusFn, MinusFn,
    Function("foo", << >>,
      IfElse(<<Alloca("a"), Alloca("s")>> \o Put("p0", "s", 0, "a"),
        Put("p1", "a", 0, "plus") \o Get("s1", "s", 0) \o Get("v1", "s1", 0)
          \o <<Call("c1", "v1", << >>, 25)>> \o Put("p2", "a", 0, "minus"),
        Get("s2", "s", 0) \o Put("p3", "s2", 0, "minus"),
        Get("v2", "a", 0) \o <<Call("c2", "v2", << >>, 31), RetVoid>>))>>,
  {<<25, {"plus"}>>, <<31, {"minus"}>>})

Test09 == Test(
  <<PlusFn, MinusFn,
    Function("foo", << >>,
      IfElse(<<Alloca("a"), Alloca("s")>> \o New("w", 21) \o Put("p0", "s", 0, "a")
               \o <<MemCpy("w", "s", TRUE)>>,
        Put("p1", "a", 0, "plus") \o Get("s1", "s", 0) \o Get("v1", "s1", 0)
          \o <<Call("c1", "v1", << >>, 27)>> \o Put("p2", "a", 0, "minus"),
        Get("s2", "w", 0) \o Put("p3", "s2", 0, "minus"),
        Get("v2", "a", 0) \o <<Call("c2", "v2", << >>, 33), RetVoid>>)),
    Malloc, MemCpyDecl>>,
  {<<21, {"malloc"}>>, <<27, {"plus"}>>, <<33, {"minus"}>>})

Test10 == Test(
  <<PlusFn, MinusFn,
    Function("foo", << >>,
      IfElse(<<Alloca("a"), Alloca("s")>> \o New("w", 25) \o Put("p0", "s", 0, "a")
               \o Put("p1", "w", 0, "s"),
        Put("p2", "a", 0, "minus") \o Get("s1", "s", 0) \o Get("v1", "s1", 0)
          \o <<Call("c1", "v1", << >>, 31)>> \o Put("p3", "a", 0, "plus"),
        Get("w2", "w", 0) \o Get("s2", "w2", 0) \o Put("p4", "s2", 0, "plus"),
        Get("v2", "a", 0) \o <<Call("c2", "v2", << >>, 37), RetVoid>>)),
    Malloc>>,
  {<<25, {"malloc"}>>, <<31, {"minus"}>>, <<37, {"plus"}>>})

Test11 == Test(
  <<PlusFn, MinusFn, Applies("clever", 11),
    Function("moo", << >>,
      <<Block("b0", {"b1", "b2"}, New("t", 18)), Block("b1", {"b2"}, <<Store("plus", "t")>>),
        Block("b2", {"b3", "b4"}, << >>), Block("b3", {"b4"}, <<Store("minus", "t")>>),
        Block("b4", {}, <<Load("v", "t"), Call("c", "clever", <<"v">>, 27), RetInt>>)>>),
    Malloc>>,
  {<<11, Both>>, <<18, {"malloc"}>>, <<27, {"clever"}>>})

Test12 == Test(
  <<PlusFn, MinusFn, Applies("clever", 11),
    Function("moo", << >>,
      IfElse(New("t", 21), Put("p1", "t", 0, "plus"), Put("p2", "t", 0, "minus"),
        Get("v", "t", 0) \o <<Call("c", "clever", <<"v">>, 30), Ret("c")>>)),
    Malloc>>,
  {<<11, Both>>, <<21, {"malloc"}>>, <<30, {"clever"}>>})

\* A function that calls the k-th pointer of a struct that it gets by value.
AppliesMember(name, line) ==
  Simple(name, <<"coerce">>,
    <<Alloca("byval")>> \o Put("p", "byval", 0, "coerce") \o Get("m", "byval", 0)
      \o <<Call("mc", "m", << >>, line), Ret("mc")>>)

Test13 == Test(
  <<PlusFn, MinusFn, AppliesMember("clever", 15),
    Function("moo", << >>,
      ElseIf(<<Alloca("t"), MemSet("t", TRUE)>>, Put("p1", "t", 0, "plus"),
        Put("p2", "t", 0, "minus"), << >>,
        Get("v", "t", 0) \o <<Call("c", "clever", <<"v">>, 31), RetInt>>)),
    MemSetDecl>>,
  {<<15, Both>>, <<31, {"clever"}>>})

Test14 == Simpler!Test09

Test15 == Simpler!Test10

Test16 == Test(
  <<PlusFn, MinusFn, ReturnsFirst("foo"),
    Simple("clever", <<"ca", "cb">>,
      <<Load("b", "cb"), Call("s", "foo", <<"ca", "b">>, 16), Call("c1", "s", << >>, 17), RetInt>>),
    Function("moo", << >>,
      ElseIf(New("t", 24), <<Store("plus", "t")>>, <<Store("minus", "t")>>, << >>,
        <<Call("c2", "clever", <<"plus", "t">>, 32), RetInt>>)),
    Malloc>>,
  {<<16, {"foo"}>>, <<17, {"plus"}>>, <<24, {"malloc"}>>, <<32, {"clever"}>>})

Test17 == Test(
  <<PlusFn, MinusFn, ReturnsSecond("foo"),
    Simple("clever", <<"ca", "coerce">>,
      <<Alloca("byval")>> \o Put("p", "byval", 0, "coerce") \o Get("m", "byval", 0)
        \o <<Call("s", "foo", <<"ca", "m">>, 20), Call("c1", "s", << >>, 21), RetInt>>),
    Function("moo", << >>,
      ElseIf(<<Alloca("t"), MemSet("t", TRUE)>>, Put("p1", "t", 0, "plus"),
        Put("p2", "t", 0, "minus"), << >>,
        Get("v", "t", 0) \o <<Call("c2", "clever", <<"plus", "v">>, 37), RetInt>>)),
    MemSetDecl>>,
  {<<20, {"foo"}>>, <<21, Both>>, <<37, {"clever"}>>})

Test18 == Simpler!Test13

Test19 == Test(
  <<PlusFn, MinusFn, ReturnsFirst("foo"), ReturnsSecond("clever"),
    Function("moo", << >>,
      IfElse(<< >>, <<Call("t1", "foo", <<"plus", "minus">>, 24)>>,
        <<Call("t2", "clever", <<"minus", "plus">>, 28)>>,
        <<Phi("t", [b1 |-> "t1", b2 |-> "t2"]), Call("c", "t", << >>, 30), RetInt>>))>>,
  {<<24, {"foo"}>>, <<28, {"clever"}>>, <<30, {"plus"}>>})

\* foo and clever return the member of what one of their arguments points to.
FirstMember(name) ==
  Simple(name, <<name \o ".a", name \o ".b">>,
         Get(name \o ".v", name \o ".a", 0) \o <<Ret(name \o ".v")>>)
SecondMember(name) ==
  Simple(name, <<name \o ".a", name \o ".b">>,
         Get(name \o ".v", name \o ".b", 0) \o <<Ret(name \o ".v")>>)

\* The objects a and s with plus and minus, and m and n pointing to them.
PlusAndMinus ==
  <<Alloca("a"), Alloca("s"), Alloca("m"), Alloca("n")>> \o Put("pa", "a", 0, "plus")
    \o Put("ps", "s", 0, "minus") \o Put("pm", "m", 0, "a") \o Put("pn", "n", 0, "s")

Test20 == Test(
  <<PlusFn, MinusFn, FirstMember("foo"), SecondMember("clever"),
    Function("moo", << >>,
      ElseIf(PlusAndMinus, << >>, << >>, <<Phi("goo1", [b2 |-> "undef", b3 |-> "clever"])>>,
        <<Phi("goo", [b1 |-> "foo", b4 |-> "goo1"]), Call("t", "goo", <<"m", "n">>, 47)>>
          \o Get("v", "t", 0) \o <<Call("c", "v", << >>, 48), RetInt>>))>>,
  {<<47, {"foo", "clever"}>>, <<48, Both>>})

Test21 == Test(
  <<PlusFn, MinusFn,
    Simple("clever", <<"ca">>, Get("e", "ca", 2) \o <<Call("c1", "e", << >>, 15), RetInt>>),
    Function("moo", << >>,
      ElseIf(<<Alloca("t"), MemSet("t", TRUE)>>, Put("p1", "t", 2, "plus"),
        Put("p2", "t", 2, "minus"), << >>,
        <<Gep("decay", "t", 0), Call("c2", "clever", <<"decay">>, 31), RetInt>>)),
    MemSetDecl>>,
  {<<15, Both>>, <<31, {"clever"}>>})

Test22 == Test(
  <<PlusFn, MinusFn, AppliesMember("foo", 17),
    Simple("make_simple_alias", <<"ma", "mb">>,
           Get("l", "mb", 0) \o Put("pl", "ma", 0, "l") \o <<RetVoid>>),
    Simple("clever", << >>,
      <<Alloca("t"), Alloca("s"), MemSet("t", TRUE), MemSet("s", TRUE)>>
        \o Put("p1", "t", 0, "minus") \o Put("p2", "s", 0, "plus")
        \o <<Call("c1", "make_simple_alias", <<"t", "s">>, 31)>>
        \o Get("v", "t", 0) \o <<Call("c2", "foo", <<"v">>, 32), RetInt>>),
    MemSetDecl>>,
  {<<17, {"plus"}>>, <<31, {"make_simple_alias"}>>, <<32, {"foo"}>>})

Test23 == Test(
  <<PlusFn, MinusFn, Applies("foo", 14),
    Simple("make_simple_alias", <<"ma", "mb">>, <<Load("l", "mb"), Store("l", "ma"), RetVoid>>),
    Function("moo", << >>,
      IfThen(New("pf", 25) \o New("mf", 26) \o <<Store("minus", "mf")>>,
        <<Store("plus", "pf"), Load("v1", "pf"), Call("c1", "foo", <<"v1">>, 30),
          Call("c2", "make_simple_alias", <<"mf", "pf">>, 31)>>,
        <<Load("v2", "mf"), Call("c3", "foo", <<"v2">>, 33), RetInt>>)),
    Malloc>>,
  {<<14, Both>>, <<25, {"malloc"}>>, <<26, {"malloc"}>>, <<30, {"foo"}>>,
   <<31, {"make_simple_alias"}>>, <<33, {"foo"}>>})

Test24 == Test(
  <<PlusFn, MinusFn, AppliesMember("foo", 17),
    Simple("make_no_alias", <<"coerce2">>,
      <<Alloca("byval2")>> \o Put("p1", "byval2", 0, "coerce2") \o Put("p2", "byval2", 0, "plus")
        \o <<RetVoid>>),
    Simple("clever", << >>,
      <<Alloca("t"), MemSet("t", TRUE)>> \o Put("p3", "t", 0, "minus")
        \o Get("v1", "t", 0) \o <<Call("c1", "make_no_alias", <<"v1">>, 29)>>
        \o Get("v2", "t", 0) \o <<Call("c2", "foo", <<"v2">>, 30), RetInt>>),
    MemSetDecl>>,
  {<<17, {"minus"}>>, <<29, {"make_no_alias"}>>, <<30, {"foo"}>>})

Test25 == Test(
  <<PlusFn, MinusFn, AppliesMember("foo", 21),
    Simple("make_alias", <<"ma", "mb">>, Put("p1", "ma", 0, "mb") \o <<RetVoid>>),
    Simple("clever", << >>,
      <<Alloca("t"), Alloca("m2"), Alloca("s"), Alloca("tmp"),
        MemSet("t", TRUE), MemSet("m2", TRUE), MemSet("s", TRUE)>>
        \o Put("p2", "s", 0, "m2") \o Put("p3", "t", 0, "plus") \o Put("p4", "m2", 0, "minus")
        \o <<Call("c1", "make_alias", <<"s", "t">>, 37)>>
        \o Get("v1", "s", 0) \o <<MemCpy("tmp", "v1", TRUE)>>
        \o Get("v2", "tmp", 0) \o <<Call("c2", "foo", <<"v2">>, 38), RetInt>>),
    MemSetDecl, MemCpyDecl>>,
  {<<21, {"plus"}>>, <<37, {"make_alias"}>>, <<38, {"foo"}>>})

Test26 == Test(
  <<PlusFn, MinusFn,
    Simple("make_alias", <<"ma", "mb">>,
      Get("s1", "mb", 0) \o Get("l", "s1", 0) \o Get("w1", "ma", 0) \o Get("s2", "w1", 0)
        \o Put("p1", "s2", 0, "l") \o <<RetVoid>>),
    Function("foo", << >>,
      IfElse(<<Alloca("a"), Alloca("b"), Alloca("s"), Alloca("m")>> \o New("w", 31)
               \o Put("p2", "s", 0, "a") \o Put("p3", "m", 0, "b") \o Put("p4", "b", 0, "minus")
               \o Put("p5", "w", 0, "s"),
        Put("p6", "a", 0, "plus") \o Get("s3", "s", 0) \o Get("v1", "s3", 0)
          \o <<Call("c1", "v1", << >>, 39), Call("c2", "make_alias", <<"w", "m">>, 40)>>,
        Get("w2", "w", 0) \o Get("s4", "w2", 0) \o Put("p7", "s4", 0, "minus"),
        Get("v2", "a", 0) \o <<Call("c3", "v2", << >>, 45), RetVoid>>)),
    Malloc>>,
  {<<31, {"malloc"}>>, <<39, {"plus"}>>, <<40, {"make_alias"}>>, <<45, {"minus"}>>})

Test27 == Test(
  <<PlusFn, MinusFn,
    Simple("foo", <<"fc">>, Get("v", "fc", 0) \o <<Call("c1", "v", << >>, 22), RetInt>>),
    Simple("clever", <<"cc">>,
      Put("p1", "cc", 0, "plus") \o <<Call("c2", "foo", <<"cc">>, 27), RetInt>>),
    Function("moo", << >>,
      ElseIf(<<Alloca("m")>> \o Put("p2", "m", 0, "null"), << >>, << >>,
        <<Phi("t1", [b2 |-> "null", b3 |-> "minus"])>>,
        <<Phi("t", [b1 |-> "plus", b4 |-> "t1"])>> \o Put("p3", "m", 0, "t")
          \o <<Call("c3", "clever", <<"m">>, 44), RetInt>>))>>,
  {<<22, {"plus"}>>, <<27, {"foo"}>>, <<44, {"clever"}>>})

Test28 == Test(
  <<PlusFn, MinusFn,
    Simple("foo", <<"fa", "fb">>, <<Load("v", "fb"), Call("c1", "v", << >>, 22), RetInt>>),
    Simple("clever", <<"ca", "cb">>,
      <<Load("l1", "ca"), Load("l2", "cb"), Store("l2", "ca"), Store("l1", "cb"),
        Call("c2", "foo", <<"ca", "cb">>, 29), RetInt>>),
    Function("moo", << >>,
      ElseIf(New("a", 34) \o <<Store("plus", "a")>> \o New("s", 36) \o <<Store("minus", "s")>>
               \o New("n", 38), << >>, << >>,
        <<Phi("t1", [b2 |-> "n", b3 |-> "s"])>>,
        <<Phi("t", [b1 |-> "a", b4 |-> "t1"]), Call("c3", "clever", <<"a", "t">>, 47), RetInt>>)),
    Malloc>>,
  {<<22, Both>>, <<29, {"foo"}>>, <<34, {"malloc"}>>, <<36, {"malloc"}>>, <<38, {"malloc"}>>,
   <<47, {"clever"}>>})

Test29 == Test(
  <<PlusFn, MinusFn,
    Simple("clever", <<"cc", "cd">>,
      Get("t1", "cc", 0) \o Get("l", "cd", 0) \o Put("p1", "cc", 0, "l") \o Put("p2", "cd", 0, "t1")
        \o <<Call("c1", "t1", << >>, 21), RetInt>>),
    Simple("foo", <<"fc", "fd">>,
      <<Alloca("t")>> \o Get("s1", "fc", 0) \o <<MemCpy("t", "s1", TRUE)>>
        \o Get("s2", "fd", 0) \o Put("p3", "fc", 0, "s2")
        \o Get("s3", "fc", 0) \o <<Call("c2", "clever", <<"s3", "t">>, 26)>>
        \o Get("v", "t", 0) \o <<Call("c3", "v", << >>, 27), RetInt>>),
    Function("moo", << >>,
      IfElse(<<Alloca("a"), Alloca("b"), Alloca("s"), Alloca("r")>> \o Put("p4", "a", 0, "plus")
               \o Put("p5", "b", 0, "minus") \o Put("p6", "s", 0, "a") \o Put("p7", "r", 0, "b")
               \o New("w", 41) \o <<MemCpy("w", "s", TRUE)>>,
        <<Call("c4", "foo", <<"w", "r">>, 46)>>,
        Get("s4", "w", 0) \o Put("p8", "s4", 0, "plus"),
        <<Call("c5", "foo", <<"w", "s">>, 51), RetVoid>>)),
    Malloc, MemCpyDecl>>,
  {<<21, Both>>, <<26, {"clever"}>>, <<27, Both>>, <<41, {"malloc"}>>, <<46, {"foo"}>>,
   <<51, {"foo"}>>})

\* if (a > 0 && b < 0) { code1; return first; } code2; return second;
\* with the blocks named after n.
EitherReturn(n, code1, first, code2, second) ==
  <<Block(n \o "0", {n \o "1", n \o "3"}, << >>), Block(n \o "1", {n \o "2", n \o "3"}, << >>),
    Block(n \o "2", {n \o "4"}, code1), Block(n \o "3", {n \o "4"}, code2),
    Block(n \o "4", {}, <<Phi(n \o "ret", (n \o "2" :> first) @@ (n \o "3" :> second)),
                          Ret(n \o "ret")>>)>>

EitherMember ==
  Function("clever", <<"kc", "kd">>,
           EitherReturn("k", Get("kv1", "kd", 0), "kv1", Get("kv2", "kc", 0), "kv2"))

Test30 == Test(
  <<PlusFn, MinusFn, FirstMember("foo"), EitherMember,
    Function("moo", << >>,
      ElseIf(<<Alloca("a"), Alloca("s")>> \o Put("p1", "a", 0, "plus") \o Put("p2", "s", 0, "minus"),
        << >>, << >>, <<Phi("goo1", [b2 |-> "undef", b3 |-> "clever"])>>,
        <<Phi("goo", [b1 |-> "foo", b4 |-> "goo1"]), Call("t", "goo", <<"a", "s">>, 41),
          Call("c", "t", << >>, 42), RetInt>>))>>,
  {<<41, {"foo", "clever"}>>, <<42, Both>>})

Test31 == Test(
  <<PlusFn, MinusFn, FirstMember("foo"), EitherMember,
    Function("moo", << >>,
      IfElse(<<Alloca("a"), Alloca("s")>> \o Put("p1", "a", 0, "plus") \o Put("p2", "s", 0, "minus"),
        <<Call("t1", "foo", <<"a", "s">>, 39), Call("c1", "t1", << >>, 40)>>,
        <<Call("t2", "clever", <<"s", "a">>, 44), Call("c2", "t2", << >>, 45)>>,
        <<Phi("t", [b1 |-> "t1", b2 |-> "t2"]), Call("c3", "t", << >>, 47), RetInt>>))>>,
  {<<39, {"foo"}>>, <<40, {"plus"}>>, <<44, {"clever"}>>, <<45, Both>>, <<47, Both>>})

\* temp = a->wfptr; a->wfptr->sptr = b->wfptr->sptr; b->wfptr->sptr = temp->sptr;
\* then calls, and as = a->wfptr->sptr
ExchangeMembers(calls) ==
  Get("temp", "fa", 0) \o Get("w1", "fb", 0) \o Get("s1", "w1", 0) \o Get("w2", "fa", 0)
    \o Put("q1", "w2", 0, "s1") \o Get("s2", "temp", 0) \o Get("w3", "fb", 0)
    \o Put("q2", "w3", 0, "s2") \o calls \o Get("w4", "fa", 0) \o Get("as", "w4", 0)

\* clever wraps its arguments and calls foo.
WrapsAndCalls(line) ==
  Simple("clever", <<"ca", "cb">>,
    <<Alloca("t1"), Alloca("t2")>> \o Put("q3", "t1", 0, "ca") \o Put("q4", "t2", 0, "cb")
      \o <<Call("cf", "foo", <<"t1", "t2">>, line), Ret("cf")>>)

Test32 == Test(
  <<PlusFn, MinusFn,
    Function("foo", <<"fa", "fb">>,
      EitherReturn("f", ExchangeMembers(<< >>), "as", Get("w5", "fb", 0) \o Get("bs", "w5", 0), "bs")),
    WrapsAndCalls(38),
    Simple("moo", << >>,
      PlusAndMinus \o <<Call("t", "clever", <<"m", "n">>, 56)>>
        \o Get("v1", "t", 0) \o <<Call("c1", "v1", << >>, 57)>>
        \o Get("s", "n", 0) \o Get("v2", "s", 0) \o <<Call("c2", "v2", << >>, 58), RetInt>>)>>,
  {<<38, {"foo"}>>, <<56, {"clever"}>>, <<57, {"minus"}>>, <<58, {"minus"}>>})

\* Functions that test33.c and test34.c share.
MakeSimpleAlias ==
  Simple("make_simple_alias", <<"ma", "mb">>, Put("q5", "ma", 0, "mb") \o <<RetVoid>>)
MakeAlias ==
  Simple("make_alias", <<"na", "nb">>,
    Get("nw", "nb", 0) \o Get("ns", "nw", 0) \o Get("nt", "na", 0) \o Put("q6", "nt", 0, "ns")
      \o <<RetVoid>>)
SwapW ==
  Simple("swap_w", <<"xa", "xb">>,
    <<Alloca("wftemp"), MemCpy("wftemp", "xa", TRUE), MemCpy("xa", "xb", TRUE),
      MemCpy("xb", "wftemp", TRUE), RetVoid>>)

Test33 == Test(
  <<PlusFn, MinusFn,
    Function("foo", <<"fa", "fb">>,
      EitherReturn("f",
        ExchangeMembers(Get("w6", "fa", 0) \o Get("s6", "w6", 0) \o Get("v6", "s6", 0)
                          \o <<Call("c6", "v6", << >>, 27)>>), "as",
        Get("w5", "fb", 0) \o Get("bs", "w5", 0), "bs")),
    WrapsAndCalls(38), MakeSimpleAlias, MakeAlias, SwapW,
    Simple("moo", << >>,
      PlusAndMinus \o <<Alloca("w"), Alloca("x"), Alloca("k"), Alloca("y")>>
        \o Put("p1", "w", 0, "m") \o <<Call("c1", "make_simple_alias", <<"x", "n">>, 70)>>
        \o Put("p2", "y", 0, "k") \o <<Call("c2", "make_alias", <<"y", "x">>, 75)>>
        \o Put("p3", "n", 0, "s") \o Get("yw", "y", 0)
        \o <<Call("t", "clever", <<"m", "yw">>, 81)>>
        \o Get("v1", "t", 0) \o <<Call("c3", "v1", << >>, 82)>>
        \o Get("ms", "m", 0) \o Get("v2", "ms", 0) \o <<Call("c4", "v2", << >>, 83)>>
        \o <<Call("c5", "swap_w", <<"x", "w">>, 84)>>
        \o Get("ww", "w", 0) \o Get("wws", "ww", 0) \o Get("v3", "wws", 0)
        \o <<Call("c7", "v3", << >>, 85), RetInt>>),
    MemCpyDecl>>,
  {<<27, {"minus"}>>, <<38, {"foo"}>>, <<70, {"make_simple_alias"}>>, <<75, {"make_alias"}>>,
   <<81, {"clever"}>>, <<82, {"minus"}>>, <<83, Both>>, <<84, {"swap_w"}>>, <<85, {"minus"}>>})

Test34 == Test(
  <<PlusFn, MinusFn, MakeSimpleAlias, MakeAlias, SwapW,
    Function("foo", <<"fa", "fb">>,
      EitherReturn("f",
        <<Call("c1", "swap_w", <<"fa", "fb">>, 39)>> \o Get("w1", "fb", 0) \o Get("s1", "w1", 0)
          \o Get("v1", "s1", 0) \o <<Call("c2", "v1", << >>, 40)>>
          \o Get("w2", "fa", 0) \o Get("as", "w2", 0), "as",
        Get("w3", "fa", 0) \o Get("s3", "w3", 0) \o Put("p1", "s3", 0, "minus")
          \o Get("w4", "fb", 0) \o Get("bs", "w4", 0), "bs")),
    Simple("clever", <<"ca", "cb">>,
      <<Alloca("t1"), Alloca("t2"), Call("c3", "make_simple_alias", <<"t1", "ca">>, 49),
        Call("c4", "make_simple_alias", <<"t2", "cb">>, 51),
        Call("c5", "foo", <<"t1", "t2">>, 52), Ret("c5")>>),
    Simple("moo", << >>,
      PlusAndMinus \o <<Alloca("w"), Alloca("x"), Alloca("k"), Alloca("y"),
        Call("c6", "make_simple_alias", <<"w", "m">>, 68),
        Call("c7", "make_simple_alias", <<"x", "n">>, 70)>>
        \o Put("p2", "y", 0, "k") \o <<Call("c8", "make_alias", <<"y", "x">>, 75)>>
        \o Get("yw1", "y", 0) \o <<Call("c9", "clever", <<"m", "yw1">>, 79)>>
        \o Get("yw2", "y", 0) \o Get("xw", "x", 0)
        \o <<Call("t", "clever", <<"yw2", "xw">>, 80)>>
        \o Get("v2", "t", 0) \o <<Call("c10", "v2", << >>, 81), RetInt>>),
    MemCpyDecl>>,
  {<<39, {"swap_w"}>>, <<40, Both>>, <<49, {"make_simple_alias"}>>, <<51, {"make_simple_alias"}>>,
   <<52, {"foo"}>>, <<68, {"make_simple_alias"}>>, <<70, {"make_simple_alias"}>>,
   <<75, {"make_alias"}>>, <<79, {"clever"}>>, <<80, {"clever"}>>, <<81, Both>>})

MostTests ==
  {Test00, Test01, Test02, Test03, Test04, Test05, Test06, Test07, Test08, Test09, Test10,
   Test11, Test12, Test13, Test14, Test15, Test16, Test17, Test18, Test19, Test20, Test21,
   Test22, Test23, Test24, Test25, Test26, Test27, Test28, Test29, Test30, Test31, Test32, Test33}
=============================================================================
