---------------------------- MODULE FuncPtrTests ----------------------------
(***************************************************************************)
(* Assignment2/testcases/class/test00.c to test19.c and the output each    *)
(* gives in its last comments, as clang -g -O0 and mem2reg leave them.     *)
(* Integers and branch conditions are left out.  TestNN is testNN.c.       *)
(***************************************************************************)
EXTENDS PointerProgram

Both == {"plus", "minus"}

Test00 == Test(<<PlusFn, Simple("clever", << >>, <<Call("c", "plus", << >>, 10), RetInt>>)>>,
  {<<10, {"plus"}>>})

Test01 == Test(
  <<PlusFn, MinusFn,
    Function("clever", << >>,
      <<Block("b0", {"b1", "b2"}, << >>), Block("b1", {"b2"}, << >>),
        Block("b2", {"b3", "b4"}, <<Phi("t", [b0 |-> "null", b1 |-> "plus"])>>),
        Block("b3", {"b4"}, <<Call("c", "t", << >>, 22)>>), Block("b4", {}, <<RetInt>>)>>)>>,
  {<<22, {"plus"}>>})

Test02 == Test(
  <<PlusFn, MinusFn,
    Function("clever", << >>,
      <<Block("b0", {"b1", "b2"}, << >>), Block("b1", {"b3"}, << >>), Block("b2", {"b3"}, << >>),
        Block("b3", {"b4", "b5"}, <<Phi("t", [b1 |-> "plus", b2 |-> "minus"])>>),
        Block("b4", {"b5"}, <<Call("c", "t", << >>, 24)>>), Block("b5", {}, <<RetInt>>)>>)>>,
  {<<24, Both>>})

Test03 == Test(
  <<PlusFn, MinusFn,
    Function("clever", << >>,
      <<Block("b0", {"b1", "b2"}, << >>), Block("b1", {"b2"}, << >>),
        Block("b2", {"b3", "b4"}, <<Phi("t1", [b0 |-> "null", b1 |-> "plus"])>>),
        Block("b3", {"b4"}, << >>),
        Block("b4", {"b5", "b6"}, <<Phi("t2", [b2 |-> "t1", b3 |-> "minus"])>>),
        Block("b5", {"b6"}, <<Call("c", "t2", << >>, 27)>>), Block("b6", {}, <<RetInt>>)>>)>>,
  {<<27, Both>>})

Test04 == Test(
  <<PlusFn, MinusFn, Applies("foo", 10),
    Function("clever", << >>,
      <<Block("b0", {"b1", "b2"}, << >>), Block("b1", {"b2"}, << >>),
        Block("b2", {"b3", "b4"}, <<Phi("t1", [b0 |-> "null", b1 |-> "minus"]),
                                    Call("c1", "foo", <<"t1">>, 26)>>),
        Block("b3", {"b4"}, << >>),
        Block("b4", {"b5", "b6"}, <<Phi("q", [b2 |-> "null", b3 |-> "plus"]),
                                    Phi("t2", [b2 |-> "t1", b3 |-> "plus"])>>),
        Block("b5", {"b6"}, <<Call("c2", "foo", <<"q">>, 33)>>),
        Block("b6", {}, <<RetInt>>)>>)>>,
  {<<10, Both>>, <<26, {"foo"}>>, <<33, {"foo"}>>})

Test05 == Test(
  <<PlusFn, MinusFn,
    Function("clever", << >>,
      <<Block("b0", {"b1", "b2"}, << >>), Block("b1", {"b2"}, << >>),
        Block("b2", {"b3", "b4"}, <<Phi("t1", [b0 |-> "null", b1 |-> "plus"])>>),
        Block("b3", {"b4"}, << >>),
        Block("b4", {"b5", "b6"}, <<Phi("t2", [b2 |-> "t1", b3 |-> "minus"])>>),
        Block("b5", {"b6"}, << >>),
        Block("b6", {"b7", "b8"}, <<Phi("q", [b4 |-> "null", b5 |-> "t2"])>>),
        Block("b7", {"b8"}, << >>),
        Block("b8", {"b9", "b10"}, <<Phi("r", [b6 |-> "null", b7 |-> "q"])>>),
        Block("b9", {"b10"}, <<Call("c", "r", << >>, 33)>>), Block("b10", {}, <<RetInt>>)>>)>>,
  {<<33, Both>>})

Test06 == Test(
  <<PlusFn, MinusFn, Applies("clever", 10),
    Function("moo", << >>,
      <<Block("b0", {"b1", "b2"}, << >>), Block("b1", {"b2"}, << >>),
        Block("b2", {"b3", "b4"}, <<Phi("t1", [b0 |-> "null", b1 |-> "plus"])>>),
        Block("b3", {"b4"}, << >>),
        Block("b4", {}, <<Phi("t2", [b2 |-> "t1", b3 |-> "minus"]),
                          Call("c", "clever", <<"t2">>, 26), RetInt>>)>>)>>,
  {<<10, Both>>, <<26, {"clever"}>>})

Test07 == Test(
  <<PlusFn, MinusFn, Applies("clever", 10),
    Function("moo", << >>,
      <<Block("b0", {"b1", "b2"}, << >>), Block("b1", {"b3"}, << >>), Block("b2", {"b3"}, << >>),
        Block("b3", {"b4", "b5"}, <<Phi("t", [b1 |-> "plus", b2 |-> "minus"])>>),
        Block("b4", {"b6"}, <<Call("c1", "clever", <<"t">>, 28)>>),
        Block("b5", {"b6"}, <<Call("c2", "clever", <<"plus">>, 30)>>),
        Block("b6", {}, <<Phi("result", [b4 |-> "c1", b5 |-> "c2"]), Ret("result")>>)>>)>>,
  {<<10, Both>>, <<28, {"clever"}>>, <<30, {"clever"}>>})

\* t = 0; if (x == '+') t = plus; else if (x == '-') t = minus;  then rest
PlusOrMinus(rest) ==
  ElseIf(<< >>, << >>, << >>, <<Phi("t1", [b2 |-> "null", b3 |-> "minus"])>>,
         <<Phi("t", [b1 |-> "plus", b4 |-> "t1"])>> \o rest)

Test08 == Test(
  <<PlusFn, MinusFn, Applies("clever", 10),
    Function("moo", << >>, PlusOrMinus(<<Call("c", "clever", <<"t">>, 26), RetInt>>))>>,
  {<<10, Both>>, <<26, {"clever"}>>})

Test09 == Test(
  <<PlusFn, MinusFn, Applies("foo", 10),
    Simple("clever", <<"a">>, <<Call("c1", "foo", <<"a">>, 14), RetInt>>),
    Function("moo", << >>, PlusOrMinus(<<Call("c2", "clever", <<"t">>, 30), RetInt>>))>>,
  {<<10, Both>>, <<14, {"foo"}>>, <<30, {"clever"}>>})

Test10 == Test(
  <<PlusFn, MinusFn,
    Function("foo", <<"fa", "fb">>,
      <<Block("f0", {"f1", "f2"}, << >>), Block("f1", {"f3"}, << >>), Block("f2", {"f3"}, << >>),
        Block("f3", {}, <<Phi("s", [f1 |-> "fa", f2 |-> "fb"]),
                          Call("c1", "s", << >>, 15), RetInt>>)>>),
    Simple("clever", <<"ca", "cb">>, <<Call("c2", "foo", <<"ca", "cb">>, 19), RetInt>>),
    Function("moo", << >>,
      PlusOrMinus(<<Call("c3", "clever", <<"plus", "t">>, 35), RetInt>>))>>,
  {<<15, Both>>, <<19, {"foo"}>>, <<35, {"clever"}>>})

CallsResult(foo) ==
  <<PlusFn, MinusFn, foo,
    Simple("clever", <<"ca", "cb">>,
      <<Call("s", "foo", <<"ca", "cb">>, 15), Call("c1", "s", << >>, 16), RetInt>>),
    Function("moo", << >>,
      PlusOrMinus(<<Call("c2", "clever", <<"plus", "t">>, 32), RetInt>>))>>

Test11 == Test(CallsResult(ReturnsFirst("foo")),
  {<<15, {"foo"}>>, <<16, {"plus"}>>, <<32, {"clever"}>>})

Test12 == Test(CallsResult(ReturnsSecond("foo")),
  {<<15, {"foo"}>>, <<16, Both>>, <<32, {"clever"}>>})

Test13 == Test(
  <<PlusFn, MinusFn, ReturnsFirst("foo"), ReturnsSecond("clever"),
    Function("moo", << >>,
      ElseIf(<< >>, << >>, << >>, <<Phi("goo1", [b2 |-> "undef", b3 |-> "clever"])>>,
        <<Phi("goo", [b1 |-> "foo", b4 |-> "goo1"]),
          Call("t", "goo", <<"plus", "minus">>, 30), Call("c", "t", << >>, 31), RetInt>>))>>,
  {<<30, {"foo", "clever"}>>, <<31, Both>>})

Test14 == Test(
  <<PlusFn, MinusFn, ReturnsFirst("foo"), ReturnsSecond("clever"),
    Function("moo", << >>,
      IfElse(<< >>, <<Call("t1", "foo", <<"plus", "minus">>, 24)>>, << >>,
        <<Phi("s", [b1 |-> "plus", b2 |-> "minus"]), Phi("goo", [b1 |-> "foo", b2 |-> "clever"]),
          Call("t2", "goo", <<"s", "plus">>, 31), Call("c", "t2", << >>, 32), RetInt>>))>>,
  {<<24, {"foo"}>>, <<31, {"clever", "foo"}>>, <<32, {"plus"}>>})

Test15 == Test(
  <<PlusFn, MinusFn, Applies("foo", 14),
    Function("moo", << >>,
      IfThen(<< >>, <<Call("c1", "foo", <<"plus">>, 24)>>,
        <<Phi("pf", [b0 |-> "null", b1 |-> "minus"]), Call("c2", "foo", <<"pf">>, 27), RetInt>>))>>,
  {<<14, Both>>, <<24, {"foo"}>>, <<27, {"foo"}>>})

\* clever passes its arguments on to foo.
Clever == Simple("clever", <<"ca", "cb">>, <<Call("cc", "foo", <<"ca", "cb">>, 14), Ret("cc")>>)

Test16 == Test(
  <<PlusFn, MinusFn, ReturnsFirst("foo"), Clever,
    Simple("clever1", <<"da", "db">>, <<Call("dc", "clever", <<"db", "da">>, 17), Ret("dc")>>),
    Simple("moo", << >>,
      <<Call("t", "clever1", <<"minus", "plus">>, 24), Call("c", "t", << >>, 25), RetInt>>)>>,
  {<<14, {"foo"}>>, <<17, {"clever"}>>, <<24, {"clever1"}>>, <<25, {"plus"}>>})

\* clever1 swaps its last two arguments and passes them to its first.
Clever1(line) ==
  Simple("clever1", <<"goo", "da", "db">>, <<Call("dc", "goo", <<"db", "da">>, line), Ret("dc")>>)

Test17 == Test(
  <<PlusFn, MinusFn, ReturnsFirst("foo"), Clever, Clever1(17),
    Simple("moo", << >>,
      <<Call("t", "clever1", <<"clever", "minus", "plus">>, 24), Call("c", "t", << >>, 25),
        RetInt>>)>>,
  {<<14, {"foo"}>>, <<17, {"clever"}>>, <<24, {"clever1"}>>, <<25, {"plus"}>>})

\* goo = clever; if (x == '+') goo = foo;  t = clever1(goo, minus, plus); t();
PicksGoo(line) ==
  IfThen(<< >>, << >>,
    <<Phi("gp", [b0 |-> "clever", b1 |-> "foo"]),
      Call("t", "clever1", <<"gp", "minus", "plus">>, line), Call("c", "t", << >>, line + 1),
      RetInt>>)

Test18 == Test(
  <<PlusFn, MinusFn, ReturnsFirst("foo"), Clever, Clever1(18), Function("moo", << >>, PicksGoo(30))>>,
  {<<14, {"foo"}>>, <<18, {"clever", "foo"}>>, <<30, {"clever1"}>>, <<31, {"plus"}>>})

Test19 == Test(
  <<PlusFn, MinusFn, ReturnsFirst("foo"), Clever,
    Function("clever1", <<"goo", "da", "db">>,
      <<Block("d0", {"d1", "d2"}, <<Call("dc", "goo", <<"db", "da">>, 18)>>),
        Block("d1", {"d2"}, << >>),
        Block("d2", {}, <<Phi("af", [d0 |-> "da", d1 |-> "minus"]),
                          Phi("ff", [d0 |-> "dc", d1 |-> "plus"]),
                          Call("dd", "goo", <<"ff", "af">>, 24), Ret("dd")>>)>>),
    Function("moo", << >>, PicksGoo(36))>>,
  {<<14, {"foo"}>>, <<18, {"clever", "foo"}>>, <<24, {"clever", "foo"}>>, <<36, {"clever1"}>>,
   <<37, {"plus"}>>})

AllTests ==
  {Test00, Test01, Test02, Test03, Test04, Test05, Test06, Test07, Test08, Test09,
   Test10, Test11, Test12, Test13, Test14, Test15, Test16, Test17, Test18, Test19}
=============================================================================
