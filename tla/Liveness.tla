----------------------------- MODULE Liveness ------------------------------
(***************************************************************************)
(* Assignment3/src/Liveness.h: LivenessVisitor run over one function by    *)
(* compBackwardDataflow.  A dataflow value (LivenessInfo) is the set of    *)
(* instructions whose results are live.                                    *)
(*                                                                         *)
(* A function is a record p:                                               *)
(*   p.entry  its entry block                                              *)
(*   p.cfg    the edges between its basic blocks                           *)
(*   p.code   the sequence of instructions of each block                   *)
(*   p.op     the operands of each instruction that are instructions       *)
(*   p.dbg    the debug intrinsics among the instructions                  *)
(*   p.phi    the phi nodes (the visitor does not look at this field)      *)
(***************************************************************************)
EXTENDS Sequences, SequencesExt, FiniteSets

CONSTANTS
  Block,
  Value,       \* the instructions that have a result other instructions may use
  Programs     \* the functions considered

VARIABLES
  prog,            \* the function F
  visitor,         \* the LivenessVisitor, as what it does to each block of F
  entry, exit,     \* the two components of result
  worklist

vars == <<prog, visitor, entry, exit, worklist>>

-----------------------------------------------------------------------------

\* Mutant: erase after inserting.
EraseLast(p, inst, live) ==
  IF inst \in p.dbg THEN live ELSE (live \cup p.op[inst]) \ {inst}

\* LivenessVisitor::compDFVal on an instruction, executed backwards.
compDFVal(p, inst, live) ==
  IF inst \in p.dbg THEN live ELSE (live \ {inst}) \cup p.op[inst]

\* Mutant: walk the block from its first instruction to its last.
WalkForward(p, bb, live) ==
  FoldLeft(LAMBDA before, inst : compDFVal(p, inst, before), live, p.code[bb])

\* The base class walks a block from its last instruction to its first.
compBlock(p, bb, live) ==
  FoldRight(LAMBDA inst, after : compDFVal(p, inst, after), p.code[bb], live)

Visitor(p) == [bb \in Block |-> [live \in SUBSET Value |-> compBlock(p, bb, live)]]

\* runOnFunction: initval is the empty LivenessInfo.
Solver == INSTANCE BackwardDataflow
            WITH Fact <- Value,
                 CFGs <- SUBSET (Block \X Block),
                 Visitors <- [Block -> [SUBSET Value -> SUBSET Value]],
                 cfg <- prog.cfg, initval <- {}

\* Mutant: result gets an element for the blocks without successors only.
InitAtExits ==
  /\ prog \in Programs
  /\ visitor = Visitor(prog)
  /\ worklist = {bb \in Block : \A e \in prog.cfg : e[1] # bb}
  /\ entry = [bb \in worklist |-> {}]
  /\ exit = [bb \in worklist |-> {}]

Init ==
  /\ prog \in Programs
  /\ visitor = Visitor(prog)
  /\ Solver!Init

Turn(bb) ==
  /\ UNCHANGED prog
  /\ Solver!Settle(bb) \/ Solver!Propagate(bb)

Next == \E bb \in Block : Turn(bb)

Spec == Init /\ [][Next]_vars /\ WF_vars(Next)

-----------------------------------------------------------------------------
(***************************************************************************)
(* Liveness by its definition, on the graph of program points: <<bb, i>>   *)
(* is the point before the i-th instruction of bb, <<bb, Len + 1>> the end *)
(* of bb.                                                                  *)
(***************************************************************************)

Points(p) == UNION {{bb} \X (1 .. Len(p.code[bb]) + 1) : bb \in Block}

Before(p, q) == q[2] <= Len(p.code[q[1]])

Uses(p, q, v) ==
  Before(p, q) /\ LET inst == p.code[q[1]][q[2]]
                  IN  inst \notin p.dbg /\ v \in p.op[inst]

UsePoints(p, v) == {q \in Points(p) : Uses(p, q, v)}

\* The points from which control gets to r in one step that does not execute
\* the definition of v.
StepsTo(p, v, r) ==
  IF r[2] = 1
  THEN {<<e[1], Len(p.code[e[1]]) + 1>> : e \in {x \in p.cfg : x[2] = r[1]}}
  ELSE {q \in {<<r[1], r[2] - 1>>} : p.code[q[1]][q[2]] # v}

\* The points from which control can reach a target without executing the
\* definition of v.
Reaching(p, v, targets) ==
  LET Closure[S \in SUBSET Points(p)] ==
        LET nearer == UNION {StepsTo(p, v, r) : r \in S}
        IN  IF nearer \subseteq S THEN S ELSE Closure[S \cup nearer]
  IN  Closure[targets]

\* The points from which a use of v can be reached before its definition.
LivePoints(p, v) == Reaching(p, v, UsePoints(p, v))

-----------------------------------------------------------------------------
(***************************************************************************)
(* What LLVM's verifier has made sure of before the pass runs.             *)
(***************************************************************************)

ASSUME FunctionsAssumption ==
  /\ IsFiniteSet(Block) /\ Block # {}
  /\ \A p \in Programs :
       /\ p.entry \in Block /\ p.cfg \subseteq Block \X Block
       /\ p.dbg \cap Value = {}
       /\ \A bb \in Block :
            /\ Len(p.code[bb]) \in Nat
            /\ DOMAIN p.code[bb] = 1 .. Len(p.code[bb])
            /\ \A i \in 1 .. Len(p.code[bb]) :
                 p.code[bb][i] \notin p.dbg => p.op[p.code[bb][i]] \subseteq Value

\* A definition dominates its uses other than by phi nodes.
ASSUME SSAAssumption ==
  \A p \in Programs : \A v \in Value :
    <<p.entry, 1>> \notin
      Reaching(p, v, {q \in UsePoints(p, v) : p.code[q[1]][q[2]] \notin p.phi})

-----------------------------------------------------------------------------

TypeOK ==
  /\ visitor \in [Block -> [SUBSET Value -> SUBSET Value]]
  /\ entry \in [Block -> SUBSET Value]
  /\ exit \in [Block -> SUBSET Value]
  /\ worklist \subseteq Block

\* When runOnFunction prints its result, a value is in the set of a block
\* boundary exactly if some path from there reaches a use of it before its
\* definition, through loops and blocks without a way to an exit alike.
LivenessExact ==
  worklist = {} =>
    \A v \in Value : LET live == LivePoints(prog, v) IN
      \A bb \in Block :
        /\ v \in entry[bb] <=> <<bb, 1>> \in live
        /\ v \in exit[bb] <=> <<bb, Len(prog.code[bb]) + 1>> \in live

\* A function in SSA form defines a value before it uses it, so nothing should
\* be live where the function starts.  The visitor counts the operands of a phi
\* node as used where the phi node stands rather than at the end of the
\* predecessors they come from; that is the only way a value gets there.
LiveAtStartOnlyByPhi ==
  worklist = {} =>
    \A v \in entry[prog.entry] : \E inst \in prog.phi : v \in prog.op[inst]
=============================================================================
