--------------------------- MODULE MCPointToGaps ---------------------------
(***************************************************************************)
(* Modules on which the point-to analysis does not report every callee.    *)
(* Each is a few lines of C, given in its comment.                         *)
(***************************************************************************)
EXTENDS PointToSound, PointerProgram

\* A main after the functions f and g.
AfterFG(functions) == Module(<<Declaration("f"), Declaration("g")>> \o functions)

\* struct { void (*m)(void), (*n)(void); } o;  o.m = f; o.n = g; o.m();
TwoFields ==
  AfterFG(<<Simple("main", << >>,
    <<Alloca("o")>> \o Put("m", "o", 0, "f") \o Put("n", "o", 1, "g") \o Get("v", "o", 0)
      \o <<Call("c", "v", << >>, 3), RetInt>>)>>)

\* o = f; h = c ? put : get;  h(&o, g);  o();     with put declared, get defined
\* as { *t = v; }
MixedCallees ==
  AfterFG(<<Function("put", <<"u", "w">>, << >>),
    Simple("get", <<"t", "v">>, <<Store("v", "t"), RetVoid>>),
    Function("main", << >>,
      IfThen(<<Alloca("o"), Store("f", "o")>>, << >>,
             <<Phi("h", [b0 |-> "put", b1 |-> "get"]), Call("c1", "h", <<"o", "g">>, 3),
               Load("p", "o"), Call("c2", "p", << >>, 4), RetInt>>))>>)

\* q = 0; do { p = malloc(8); if (q) { *p = g; (*q)(); } else *p = f; q = p; }
\* while (c);
OneSiteTwoObjects ==
  AfterFG(<<Function("malloc", <<"size">>, << >>), Function("main", << >>,
    <<Block("b0", {"b1"}, << >>),
      Block("b1", {"b2", "b3"},
            <<Phi("q", [b0 |-> "null", b4 |-> "m"]), Call("m", "malloc", <<"8">>, 1)>>),
      Block("b2", {"b4"}, <<Store("g", "m"), Load("v", "q"), Call("c", "v", << >>, 2)>>),
      Block("b3", {"b4"}, <<Store("f", "m")>>),
      Block("b4", {"b1"}, << >>)>>)>>)

MCMixedCallees == {MixedCallees}
MCStrongUpdate == {TwoFields, OneSiteTwoObjects}
=============================================================================
