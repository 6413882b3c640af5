------------------------ MODULE MCBackwardDataflow -------------------------
(***************************************************************************)
(* Instances of BackwardDataflow for TLC: every control-flow graph without *)
(* an edge into the entry block, every monotone visitor.                   *)
(***************************************************************************)
EXTENDS BackwardDataflow

CONSTANT Entry

MCCFGs == {E \in SUBSET (Block \X Block) : \A e \in E : e[2] # Entry}

MCMonotoneVisitors ==
  [Block -> {f \in [SUBSET Fact -> SUBSET Fact] :
               \A X, Y \in SUBSET Fact : X \subseteq Y => f[X] \subseteq f[Y]}]
=============================================================================
