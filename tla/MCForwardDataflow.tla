------------------------- MODULE MCForwardDataflow -------------------------
(***************************************************************************)
(* Instances of ForwardDataflow for TLC: every control-flow graph over the *)
(* blocks in which no edge enters the entry block (an LLVM invariant), and *)
(* visitors over two facts.                                                *)
(***************************************************************************)
EXTENDS ForwardDataflow

CONSTANTS Entry, f, g

MCCFGs == {E \in SUBSET (Block \X Block) : \A e \in E : e[2] # Entry}

\* Functions of f alone, one of them not monotone, and two that trade the
\* facts for each other.
MCTransfers ==
  {[X \in SUBSET Fact |-> {}], [X \in SUBSET Fact |-> {f}],
   [X \in SUBSET Fact |-> {f} \ X],
   [X \in SUBSET Fact |-> UNION {{f, g} \ {x} : x \in X}],
   [X \in SUBSET Fact |-> IF f \in X THEN X \cup {g} ELSE X]}

MCVisitors == [Block -> MCTransfers]
=============================================================================
