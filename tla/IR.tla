-------------------------------- MODULE IR ---------------------------------
(***************************************************************************)
(* What both passes over LLVM modules ask a module for.  A module is a     *)
(* record p (see PointerProgram): p.order lists its functions, p.blocks    *)
(* gives the basic blocks of each, p.code the instructions of each block.  *)
(***************************************************************************)
EXTENDS Functions

Funcs(p) == Range(p.order)

\* isDeclaration(): a function without basic blocks.
Declared(p) == {f \in Funcs(p) : p.blocks[f] = {}}

\* The instructions of a function, and of all.
InstsOf(p, f) == UNION {Range(p.code[b]) : b \in p.blocks[f]}
Insts(p) == UNION {InstsOf(p, f) : f \in Funcs(p)}
=============================================================================
