----------------------- MODULE MCInterpreterGlobals ------------------------
(***************************************************************************)
(* A function that counts its calls in a global variable, for TLC:         *)
(*                                                                         *)
(*     int n;                                                              *)
(*     int count() { n = n + 1; return n; }                                *)
(*     int main() { count(); PRINT(count()); }                             *)
(***************************************************************************)
EXTENDS MCInterpreter

n == Ref("n", "int")

Counter ==
  Program(<<Var("n", "int")>>,
    ("count" :> Function(<< >>, <<Set(n, Add(n, Literal(1))), Return(n)>>)) @@
    ("main" :> Function(<< >>,
       <<Call("count", "int", << >>), PRINT(Call("count", "int", << >>))>>)),
    << >>)

MCCounter == {Counter}
=============================================================================
