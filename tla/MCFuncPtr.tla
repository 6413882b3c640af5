----------------------------- MODULE MCFuncPtr -----------------------------
(***************************************************************************)
(* Modules for FuncPtrPass, for TLC.                                       *)
(***************************************************************************)
EXTENDS FuncPtrSound, FuncPtrTests

(***************************************************************************)
(* main picks, on each side of a branch, a function v without arguments, a *)
(* function h that may call its argument and a function k that returns a   *)
(* function, and calls them on each other:                                 *)
(*   h(v); c2 = k(v); c2(); run(c2); both(v, c2)();                        *)
(***************************************************************************)

PickModule(v, h, k) == Module(
  <<Declaration("f"), Declaration("g"),
    Simple("run", <<"p">>, <<Call("rc", "p", << >>, 10), RetVoid>>),
    Simple("skip", <<"q">>, <<RetVoid>>),
    Simple("id", <<"x">>, <<Ret("x")>>),
    Simple("konst", <<"y">>, <<Ret("g")>>),
    Simple("fwd", <<"w">>, <<Call("wc", "id", <<"w">>, 11), Ret("wc")>>),
    Function("both", <<"a", "b">>,
      <<Block("t0", {"t1", "t2"}, << >>), Block("t1", {"t2"}, << >>),
        Block("t2", {}, <<Phi("z", [t0 |-> "a", t1 |-> "b"]), Ret("z")>>)>>),
    Function("main", << >>,
      IfElse(<< >>, << >>, << >>,
        <<Phi("v", [b1 |-> v[1], b2 |-> v[2]]), Phi("h", [b1 |-> h[1], b2 |-> h[2]]),
          Phi("k", [b1 |-> k[1], b2 |-> k[2]]),
          Call("c1", "h", <<"v">>, 20), Call("c2", "k", <<"v">>, 21),
          Call("c3", "c2", << >>, 22), Call("c4", "run", <<"c2">>, 23),
          Call("c5", "both", <<"v", "c2">>, 24), Call("c6", "c5", << >>, 25), RetInt>>))>>)

PickModules ==
  {PickModule(v, h, k) :
     v \in {"f", "g"} \X {"f", "g"}, h \in {<<"run", "run">>, <<"run", "skip">>},
     k \in {"id", "konst", "fwd"} \X {"id", "konst", "fwd"}}

MCModules == PickModules \cup AllTests

-----------------------------------------------------------------------------
(***************************************************************************)
(* Modules on which the pass goes wrong.                                   *)
(***************************************************************************)

\* void run(void (*p)(void)) { p(); p(); }   void k(void) { run(f); }
\* int main() { run(k); }
Nested == Module(
  <<Declaration("f"),
    Simple("run", <<"p">>, <<Call("r1", "p", << >>, 1), Call("r2", "p", << >>, 2), RetVoid>>),
    Simple("k", << >>, <<Call("kc", "run", <<"f">>, 3), RetVoid>>),
    Simple("main", << >>, <<Call("c", "run", <<"k">>, 4), RetInt>>)>>)

\* p = f;  do { if (c) p = g; } while (d);  p();
PhiLoop == Module(
  <<Declaration("f"), Declaration("g"),
    Function("main", << >>,
      <<Block("b0", {"b1"}, << >>),
        Block("b1", {"b2", "b3"}, <<Phi("p1", [b0 |-> "f", b3 |-> "p2"])>>),
        Block("b2", {"b3"}, << >>),
        Block("b3", {"b1", "b4"}, <<Phi("p2", [b1 |-> "p1", b2 |-> "g"])>>),
        Block("b4", {}, <<Call("c", "p2", << >>, 1), RetInt>>)>>)>>)

\* get returns pick, pick returns f:   int main() { get()()(); }
ThreeCalls == Module(
  <<Declaration("f"), Simple("pick", << >>, <<Ret("f")>>), Simple("get", << >>, <<Ret("pick")>>),
    Simple("main", << >>,
      <<Call("c1", "get", << >>, 1), Call("c2", "c1", << >>, 2), Call("c3", "c2", << >>, 3),
        RetInt>>)>>)

MCNested == {Nested}
MCPhiLoop == {PhiLoop}
MCThreeCalls == {ThreeCalls}
=============================================================================
