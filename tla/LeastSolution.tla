--------------------------- MODULE LeastSolution ---------------------------
(***************************************************************************)
(* What the dataflow framework of Assignment3/src/Dataflow.h promises to   *)
(* its callers: given a control-flow graph, a visitor (one transfer        *)
(* function per basic block) and an initial value, it delivers, once, an   *)
(* input value for every block that solves the dataflow inequations, and   *)
(* the least such value whenever the visitor is monotone ("the caller must *)
(* ensure that the function is in fact a monotone function").  The order   *)
(* in which blocks are visited is no part of the promise.                  *)
(*                                                                         *)
(* A dataflow value is a set of facts and merge is union, as they are for  *)
(* both visitors of the repository (LivenessVisitor, PointToVisitor).      *)
(***************************************************************************)
CONSTANTS
  Block,      \* the basic blocks of the function under analysis
  Fact,       \* what a dataflow value is a set of
  CFGs,       \* the control-flow graphs considered: sets of edges
  Visitors    \* the visitors considered: functions in [Block -> [DFVal -> DFVal]]

DFVal == SUBSET Fact
Assignment == [Block -> DFVal]

VARIABLES
  cfg,        \* the control-flow graph of the function
  visitor,    \* its visitor: visitor[b][X] is the value after block b
  initval,    \* the initial dataflow value
  answer      \* {} before, {in} once the input values have been delivered

vars == <<cfg, visitor, initval, answer>>

-----------------------------------------------------------------------------

Monotone(f) ==
  \A b \in Block : \A X, Y \in DFVal : X \subseteq Y => f[b][X] \subseteq f[b][Y]

Below(in1, in2) == \A b \in Block : in1[b] \subseteq in2[b]

\* in gives each block the initial value and what its predecessors produce.
Solution(E, f, i, in) ==
  \A b \in Block :
    /\ i \subseteq in[b]
    /\ \A p \in Block : <<p, b>> \in E => f[p][in[p]] \subseteq in[b]

Least(E, f, i, in) ==
  /\ Solution(E, f, i, in)
  /\ \A in2 \in Assignment : Solution(E, f, i, in2) => Below(in, in2)

-----------------------------------------------------------------------------

Init ==
  /\ cfg \in CFGs
  /\ visitor \in Visitors
  /\ initval \in DFVal
  /\ answer = {}

Deliver ==
  /\ answer = {}
  /\ \E in \in Assignment :
       /\ Solution(cfg, visitor, initval, in)
       /\ Monotone(visitor) => Least(cfg, visitor, initval, in)
       /\ answer' = {in}
  /\ UNCHANGED <<cfg, visitor, initval>>

Spec == Init /\ [][Deliver]_vars
=============================================================================
