---------------------- MODULE BackwardDataflowProofs -----------------------
(***************************************************************************)
(* compBackwardDataflow is compForwardDataflow on the reversed graph: the  *)
(* refinement, and what it transfers from ForwardDataflowProofs.           *)
(***************************************************************************)
EXTENDS BackwardDataflow, TLAPS

FwdProofs == INSTANCE ForwardDataflowProofs
               WITH CFGs <- {Reverse(E) : E \in CFGs}, cfg <- Reverse(cfg),
                    entry <- exit, exit <- entry

LEMMA ReverseEdge ==
  ASSUME NEW E, E \subseteq Block \X Block, NEW a, NEW b
  PROVE  <<a, b>> \in Reverse(E) <=> <<b, a>> \in E
<1>1. ASSUME <<b, a>> \in E PROVE <<a, b>> \in Reverse(E)
  BY <1>1 DEF Reverse
<1>2. ASSUME <<a, b>> \in Reverse(E) PROVE <<b, a>> \in E
  <2>1. PICK e \in E : <<a, b>> = <<e[2], e[1]>>
    BY <1>2 DEF Reverse
  <2>2. e = <<b, a>>
    BY <2>1
  <2>3. QED
    BY <2>2
<1>3. QED
  BY <1>1, <1>2

\* The predecessors in the reversed graph are the successors, and vice versa.
LEMMA ReverseNeighbours ==
  ASSUME cfg \in CFGs, NEW bb \in Block
  PROVE  Fwd!pred(bb) = succ(bb) /\ Fwd!succ(bb) = pred(bb)
  BY ReverseEdge, BackwardAssumption DEF Fwd!pred, Fwd!succ, pred, succ

LEMMA CFGConstant == Loop => [](cfg \in CFGs)
<1>1. Init => cfg \in CFGs
  BY DEF Init
<1>2. cfg \in CFGs /\ [Next]_vars => (cfg \in CFGs)'
  BY DEF Next, vars, Settle, Propagate
<1>3. QED
  BY <1>1, <1>2, PTL DEF Loop

\* The result map keeps its type, whatever the graph and the visitor.
THEOREM BackwardTypeCorrect == Loop => []TypeOK
<1>1. Init => TypeOK
  BY DEF Init, TypeOK
<1>2. TypeOK /\ [Next]_vars => TypeOK'
  <2> SUFFICES ASSUME TypeOK, [Next]_vars
               PROVE  TypeOK'
    OBVIOUS
  <2>1. ASSUME NEW bb \in Block
        PROVE  bbexitval(bb) \in SUBSET Fact /\ bbentryval(bb) \in SUBSET Fact
    <3>1. succ(bb) \subseteq Block
      BY DEF succ
    <3>2. bbexitval(bb) \in SUBSET Fact
      BY <3>1 DEF bbexitval, TypeOK
    <3>3. visitor[bb] \in [SUBSET Fact -> SUBSET Fact]
      BY BackwardAssumption DEF TypeOK
    <3>4. QED
      BY <3>2, <3>3 DEF bbentryval
  <2>2. ASSUME NEW bb \in Block, Settle(bb) PROVE TypeOK'
    BY <2>1, <2>2 DEF Settle, TypeOK
  <2>3. ASSUME NEW bb \in Block, Propagate(bb) PROVE TypeOK'
    BY <2>1, <2>3 DEF Propagate, TypeOK, pred
  <2>4. CASE UNCHANGED vars
    BY <2>4 DEF vars, TypeOK
  <2>5. QED
    BY <2>2, <2>3, <2>4 DEF Next
<1>3. QED
  BY <1>1, <1>2, PTL DEF Loop

\* Every behaviour of compBackwardDataflow is one of compForwardDataflow on
\* the reversed graph with entry and exit swapped.
THEOREM BackwardIsForwardReversed == Loop => ImplementsForward
<1>1. Init => Fwd!Init
  BY DEF Init, Fwd!Init, Fwd!DFVal, Fwd!Promise!DFVal
<1>2. cfg \in CFGs /\ [Next]_vars => [Fwd!Next]_(Fwd!vars)
  <2> SUFFICES ASSUME cfg \in CFGs, [Next]_vars
               PROVE  [Fwd!Next]_(Fwd!vars)
    OBVIOUS
  <2> cfg' = cfg => Reverse(cfg)' = Reverse(cfg)
    BY DEF Reverse
  <2>1. ASSUME NEW bb \in Block, Settle(bb)
        PROVE  Fwd!Settle(bb)
    BY <2>1, ReverseNeighbours
       DEF Settle, Fwd!Settle, Fwd!bbentryval, Fwd!bbexitval, bbentryval, bbexitval
  <2>2. ASSUME NEW bb \in Block, Propagate(bb)
        PROVE  Fwd!Propagate(bb)
    <3>1. Fwd!bbentryval(bb) = bbexitval(bb)
      BY ReverseNeighbours DEF Fwd!bbentryval, bbexitval
    <3>2. Fwd!bbexitval(bb) = bbentryval(bb)
      BY <3>1 DEF Fwd!bbexitval, bbentryval
    <3>3. Fwd!succ(bb) = pred(bb)
      BY ReverseNeighbours
    <3>4. UNCHANGED <<Reverse(cfg), visitor, initval>>
      BY <2>2 DEF Propagate, Reverse
    <3>5. QED
      BY <2>2, <3>1, <3>2, <3>3, <3>4 DEF Propagate, Fwd!Propagate
  <2>3. CASE UNCHANGED vars
    BY <2>3 DEF vars, Fwd!vars
  <2>4. QED
    BY <2>1, <2>2, <2>3 DEF Next, Fwd!Next
<1>3. QED
  BY <1>1, <1>2, CFGConstant, PTL DEF Loop, ImplementsForward, Fwd!Loop

\* The forward solver of the reversed graph satisfies the assumption of its
\* proofs.
LEMMA ReversedProblem ==
  /\ {Reverse(E) : E \in CFGs} \subseteq SUBSET (Block \X Block)
  /\ Visitors \subseteq [Block -> [FwdProofs!DFVal -> FwdProofs!DFVal]]
  /\ Block # {}
<1>1. ASSUME NEW E \in CFGs PROVE Reverse(E) \subseteq Block \X Block
  BY BackwardAssumption DEF Reverse
<1>2. {Reverse(E) : E \in CFGs} \subseteq SUBSET (Block \X Block)
  <2> SUFFICES ASSUME NEW R \in {Reverse(E) : E \in CFGs}
               PROVE  R \subseteq Block \X Block
    OBVIOUS
  <2> QED
    BY <1>1
<1>3. QED
  BY <1>2, BackwardAssumption DEF FwdProofs!DFVal, FwdProofs!Promise!DFVal

LEMMA SameLoop == Fwd!Loop => FwdProofs!Loop
<1>1. Fwd!Init => FwdProofs!Init
  BY DEF Fwd!Init, FwdProofs!Init, Fwd!DFVal, FwdProofs!DFVal,
         Fwd!Promise!DFVal, FwdProofs!Promise!DFVal
<1>2. [Fwd!Next]_(Fwd!vars) => [FwdProofs!Next]_(FwdProofs!vars)
  BY DEF Fwd!Next, FwdProofs!Next, Fwd!vars, FwdProofs!vars,
         Fwd!Settle, FwdProofs!Settle, Fwd!Propagate, FwdProofs!Propagate,
         Fwd!bbentryval, FwdProofs!bbentryval,
         Fwd!bbexitval, FwdProofs!bbexitval,
         Fwd!pred, FwdProofs!pred, Fwd!succ, FwdProofs!succ
<1>3. QED
  BY <1>1, <1>2, PTL DEF Fwd!Loop, FwdProofs!Loop

\* compBackwardDataflow delivers the least solution of the reversed problem,
\* by the theorem about compForwardDataflow.
THEOREM BackwardCorrect == Loop => DeliversLeastSolution
<1>1. FwdProofs!Loop => FwdProofs!DeliversLeastSolution
  BY ReversedProblem, FwdProofs!ForwardCorrect
<1>2. FwdProofs!DeliversLeastSolution => DeliversLeastSolution
  <2>1. FwdProofs!Promise!Init => Fwd!Promise!Init
    BY DEF Fwd!Promise!Init, FwdProofs!Promise!Init,
           Fwd!Promise!DFVal, FwdProofs!Promise!DFVal
  <2>2. [FwdProofs!Promise!Deliver]_(FwdProofs!Promise!vars)
        => [Fwd!Promise!Deliver]_(Fwd!Promise!vars)
    BY DEF Fwd!Promise!Deliver, FwdProofs!Promise!Deliver,
           Fwd!Promise!vars, FwdProofs!Promise!vars,
           Fwd!Promise!Assignment, FwdProofs!Promise!Assignment,
           Fwd!Promise!DFVal, FwdProofs!Promise!DFVal,
           Fwd!Promise!Solution, FwdProofs!Promise!Solution,
           Fwd!Promise!Monotone, FwdProofs!Promise!Monotone,
           Fwd!Promise!Least, FwdProofs!Promise!Least,
           Fwd!Promise!Below, FwdProofs!Promise!Below
  <2>3. QED
    BY <2>1, <2>2, PTL
       DEF DeliversLeastSolution, FwdProofs!DeliversLeastSolution,
           Fwd!DeliversLeastSolution, FwdProofs!Promise!Spec, Fwd!Promise!Spec
<1>3. QED
  BY <1>1, <1>2, SameLoop, BackwardIsForwardReversed, PTL DEF ImplementsForward

\* Every turn of compBackwardDataflow descends in the measure of the forward
\* solver with entry and exit swapped, whatever the visitor.
THEOREM BackwardTurnsDescend == Loop => Fwd!EachTurnDescends
<1>1. FwdProofs!Loop => FwdProofs!EachTurnDescends
  BY ReversedProblem, FwdProofs!TurnsDescend
<1>2. [FwdProofs!Descends(FwdProofs!Measure', FwdProofs!Measure)]_(FwdProofs!vars)
        => [Fwd!Descends(Fwd!Measure', Fwd!Measure)]_(Fwd!vars)
  BY DEF Fwd!Descends, FwdProofs!Descends, Fwd!Measure, FwdProofs!Measure,
         Fwd!Within, FwdProofs!Within, Fwd!vars, FwdProofs!vars
<1>. QED
  BY <1>1, <1>2, SameLoop, BackwardIsForwardReversed, PTL
     DEF ImplementsForward, Fwd!EachTurnDescends, FwdProofs!EachTurnDescends

-----------------------------------------------------------------------------
(***************************************************************************)
(* The invariants of the forward solver, in the terms of the backward one. *)
(***************************************************************************)

\* A block off the worklist is up to date.
BlocksUpToDate ==
  \A bb \in Block :
    bb \notin worklist =>
      /\ entry[bb] = visitor[bb][exit[bb]]
      /\ \A s \in succ(bb) : entry[s] \subseteq exit[bb]

IsMonotone ==
  \A bb \in Block : \A X, Y \in SUBSET Fact :
    X \subseteq Y => visitor[bb][X] \subseteq visitor[bb][Y]

\* out gives each block the initial value and what its successors produce.
Solves(out) ==
  \A bb \in Block :
    /\ initval \subseteq out[bb]
    /\ \A s \in succ(bb) : visitor[s][out[s]] \subseteq out[bb]

NeverTooMuch ==
  IsMonotone =>
    \A out \in [Block -> SUBSET Fact] :
      Solves(out) =>
        \A bb \in Block :
          /\ exit[bb] \subseteq out[bb]
          /\ entry[bb] \subseteq visitor[bb][out[bb]] \cup initval

LEMMA BackwardInvariants == Loop => [](BlocksUpToDate /\ NeverTooMuch)
<1>1. /\ FwdProofs!Loop => []FwdProofs!OffWorklistUpToDate
      /\ FwdProofs!Loop => []FwdProofs!NeverAboveASolution
  BY ReversedProblem, FwdProofs!WorklistSuffices, FwdProofs!NoStaleFacts
<1>2. cfg \in CFGs /\ FwdProofs!OffWorklistUpToDate => BlocksUpToDate
  <2>. SUFFICES ASSUME cfg \in CFGs, FwdProofs!OffWorklistUpToDate
                PROVE  BlocksUpToDate
    OBVIOUS
  <2>1. \A bb \in Block : FwdProofs!pred(bb) = succ(bb)
    BY ReverseNeighbours DEF Fwd!pred, FwdProofs!pred
  <2>. QED
    BY <2>1 DEF FwdProofs!OffWorklistUpToDate, BlocksUpToDate
<1>3. cfg \in CFGs /\ FwdProofs!NeverAboveASolution => NeverTooMuch
  <2>. SUFFICES ASSUME cfg \in CFGs, FwdProofs!NeverAboveASolution, IsMonotone,
                       NEW out \in [Block -> SUBSET Fact], Solves(out),
                       NEW bb \in Block
                PROVE  /\ exit[bb] \subseteq out[bb]
                       /\ entry[bb] \subseteq visitor[bb][out[bb]] \cup initval
    BY DEF NeverTooMuch
  <2>1. FwdProofs!Promise!Monotone(visitor)
    BY DEF IsMonotone, FwdProofs!Promise!Monotone, FwdProofs!Promise!DFVal
  <2>2. FwdProofs!Promise!Solution(Reverse(cfg), visitor, initval, out)
    <3>1. cfg \subseteq Block \X Block
      BY BackwardAssumption
    <3>2. \A b, p \in Block : <<p, b>> \in Reverse(cfg) => p \in succ(b)
      BY <3>1, ReverseEdge DEF succ
    <3>. QED
      BY <3>2 DEF Solves, FwdProofs!Promise!Solution
  <2>3. out \in FwdProofs!Assignment
    BY DEF FwdProofs!Assignment, FwdProofs!Promise!Assignment, FwdProofs!Promise!DFVal
  <2>. QED
    BY <2>1, <2>2, <2>3 DEF FwdProofs!NeverAboveASolution
<1>. QED
  BY <1>1, <1>2, <1>3, CFGConstant, BackwardIsForwardReversed, SameLoop, PTL DEF ImplementsForward
=============================================================================
