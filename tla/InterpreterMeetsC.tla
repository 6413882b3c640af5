------------------------- MODULE InterpreterMeetsC -------------------------
(***************************************************************************)
(* The interpreter beside the meaning of the program in C.                 *)
(***************************************************************************)
EXTENDS Interpreter

C == INSTANCE CMeaning

\* The comparison of Assignment1/check.sh: the interpreter prints what the
\* compiled program does.
PrintsWhatCPrints == Done => output = C!Output(prog)
=============================================================================
