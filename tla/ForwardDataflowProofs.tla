----------------------- MODULE ForwardDataflowProofs -----------------------
(***************************************************************************)
(* Proofs about compForwardDataflow for every set of blocks and facts, all *)
(* control-flow graphs and all visitors.                                   *)
(***************************************************************************)
EXTENDS ForwardDataflow, ProofLemmas

\* One turn of the loop, whether or not the exit value changed.
LEMMA StepShape ==
  ASSUME TypeOK, NEW bb \in Block, Settle(bb) \/ Propagate(bb)
  PROVE  /\ bb \in worklist
         /\ UNCHANGED <<cfg, visitor, initval>>
         /\ entry' = [entry EXCEPT ![bb] = bbentryval(bb)]
         /\ exit' = [exit EXCEPT ![bb] = bbexitval(bb)]
         /\ worklist' \subseteq Block
         /\ worklist \ {bb} \subseteq worklist'
         /\ bbexitval(bb) # exit[bb] => succ(bb) \subseteq worklist'
  BY DEF TypeOK, Settle, Propagate, succ, Assignment, Promise!Assignment

\* The merged entry value and the new exit value are dataflow values.
LEMMA StepTypes ==
  ASSUME TypeOK, NEW bb \in Block
  PROVE  /\ bbentryval(bb) \in DFVal
         /\ bbexitval(bb) \in DFVal
  <1> USE DEF TypeOK, DFVal, Promise!DFVal, Assignment, Promise!Assignment
  <1>1. bbentryval(bb) \in DFVal
    BY DEF bbentryval, pred
  <1>2. visitor \in [Block -> [DFVal -> DFVal]]
    BY ProblemAssumption
  <1>3. QED
    BY <1>1, <1>2 DEF bbexitval

\* TypeOK holds of compForwardDataflow for every function and visitor.
THEOREM TypeCorrect == Loop => []TypeOK
<1>1. Init => TypeOK
  BY DEF Init, TypeOK, Assignment, Promise!Assignment, DFVal, Promise!DFVal
<1>2. TypeOK /\ [Next]_vars => TypeOK'
  <2> SUFFICES ASSUME TypeOK, [Next]_vars PROVE TypeOK'
    OBVIOUS
  <2>1. ASSUME NEW bb \in Block, Settle(bb) \/ Propagate(bb)
        PROVE  TypeOK'
    <3>1. /\ entry' = [entry EXCEPT ![bb] = bbentryval(bb)]
          /\ exit' = [exit EXCEPT ![bb] = bbexitval(bb)]
          /\ UNCHANGED <<cfg, visitor, initval>>
          /\ worklist' \subseteq Block
      BY <2>1, StepShape
    <3>2. bbentryval(bb) \in DFVal /\ bbexitval(bb) \in DFVal
      BY StepTypes
    <3>3. QED
      BY <3>1, <3>2 DEF TypeOK, Assignment, Promise!Assignment, DFVal, Promise!DFVal
  <2>2. CASE UNCHANGED vars
    BY <2>2 DEF vars, TypeOK
  <2>3. QED
    BY <2>1, <2>2 DEF Next
<1>3. QED
  BY <1>1, <1>2, PTL DEF Loop

-----------------------------------------------------------------------------

\* A turn of the loop keeps the blocks off the worklist up to date.
LEMMA UpToDateStep ==
  ASSUME TypeOK, OffWorklistUpToDate,
         NEW bb \in Block, Settle(bb) \/ Propagate(bb)
  PROVE  OffWorklistUpToDate'
<1>1. /\ bb \in worklist
      /\ UNCHANGED <<cfg, visitor, initval>>
      /\ entry' = [entry EXCEPT ![bb] = bbentryval(bb)]
      /\ exit' = [exit EXCEPT ![bb] = bbexitval(bb)]
      /\ worklist \ {bb} \subseteq worklist'
      /\ bbexitval(bb) # exit[bb] => succ(bb) \subseteq worklist'
  BY StepShape
<1> SUFFICES ASSUME NEW b \in Block
             PROVE  /\ initval \subseteq entry'[b]
                    /\ b \notin worklist' =>
                         /\ exit'[b] = visitor[b][entry'[b]]
                         /\ \A p \in pred(b) : exit'[p] \subseteq entry'[b]
  BY <1>1 DEF OffWorklistUpToDate, pred
<1> USE DEF TypeOK, Assignment, Promise!Assignment
<1>2. entry[b] \subseteq entry'[b]
  BY <1>1 DEF bbentryval
<1>3. initval \subseteq entry'[b]
  BY <1>2 DEF OffWorklistUpToDate
<1>4. ASSUME b \notin worklist'
      PROVE  exit'[b] = visitor[b][entry'[b]]
  <2>1. CASE b = bb
    BY <1>1, <2>1 DEF bbexitval
  <2>2. CASE b # bb
    BY <1>1, <1>4, <2>2 DEF OffWorklistUpToDate
  <2>3. QED
    BY <2>1, <2>2
<1>5. ASSUME b \notin worklist', NEW p \in pred(b)
      PROVE  exit'[p] \subseteq entry'[b]
  <2>1. p \in Block /\ <<p, b>> \in cfg
    BY DEF pred
  <2>2. exit'[p] = exit[p]
    <3>1. CASE p = bb
      <4>1. b \in succ(bb)
        BY <2>1, <3>1 DEF succ
      <4>2. QED
        BY <1>1, <1>5, <3>1, <4>1
    <3>2. CASE p # bb
      BY <1>1, <2>1, <3>2
    <3>3. QED
      BY <3>1, <3>2
  <2>3. CASE b = bb
    BY <1>1, <2>1, <2>2, <2>3 DEF bbentryval, pred
  <2>4. CASE b # bb
    BY <1>1, <1>2, <1>5, <2>1, <2>2, <2>4 DEF OffWorklistUpToDate
  <2>5. QED
    BY <2>3, <2>4
<1>6. QED
  BY <1>3, <1>4, <1>5

\* The loop may stop when the worklist is empty: OffWorklistUpToDate is an
\* invariant of compForwardDataflow, whatever the visitor.
THEOREM WorklistSuffices == Loop => []OffWorklistUpToDate
<1>1. Init => OffWorklistUpToDate
  BY DEF Init, OffWorklistUpToDate
<1>2. TypeOK /\ OffWorklistUpToDate /\ [Next]_vars => OffWorklistUpToDate'
  <2>1. ASSUME TypeOK, OffWorklistUpToDate, Next
        PROVE  OffWorklistUpToDate'
    BY <2>1, UpToDateStep DEF Next
  <2>2. ASSUME OffWorklistUpToDate, UNCHANGED vars
        PROVE  OffWorklistUpToDate'
    BY <2>2 DEF OffWorklistUpToDate, vars, pred
  <2>3. QED
    BY <2>1, <2>2
<1>3. QED
  BY <1>1, <1>2, TypeCorrect, PTL DEF Loop
-----------------------------------------------------------------------------

\* A transfer function is applied to dataflow values only, and its monotony is
\* used at the entry value a turn computes.
LEMMA TransferGrows ==
  ASSUME TypeOK, Promise!Monotone(visitor), NEW b \in Block,
         NEW X \in DFVal, NEW Y \in DFVal, X \subseteq Y
  PROVE  visitor[b][X] \subseteq visitor[b][Y]
  BY DEF Promise!Monotone, DFVal

LEMMA NeverAboveStep ==
  ASSUME TypeOK, NeverAboveASolution,
         NEW bb \in Block, Settle(bb) \/ Propagate(bb)
  PROVE  NeverAboveASolution'
<1>1. /\ UNCHANGED <<cfg, visitor, initval>>
      /\ entry' = [entry EXCEPT ![bb] = bbentryval(bb)]
      /\ exit' = [exit EXCEPT ![bb] = bbexitval(bb)]
  BY StepShape
<1> SUFFICES ASSUME Promise!Monotone(visitor), NEW in \in Assignment,
                    Promise!Solution(cfg, visitor, initval, in),
                    NEW b \in Block
             PROVE  /\ entry'[b] \subseteq in[b]
                    /\ exit'[b] \subseteq visitor[b][in[b]] \cup initval
  BY <1>1 DEF NeverAboveASolution
<1> USE DEF TypeOK, Assignment, Promise!Assignment
<1>2. \A c \in Block : /\ entry[c] \subseteq in[c]
                       /\ exit[c] \subseteq visitor[c][in[c]] \cup initval
  BY DEF NeverAboveASolution
<1>3. CASE b # bb
  BY <1>1, <1>2, <1>3
<1>4. CASE b = bb
  <2>1. bbentryval(bb) \subseteq in[bb]
    <3>1. \A p \in pred(bb) : exit[p] \subseteq in[bb]
      BY <1>2 DEF pred, Promise!Solution
    <3>2. QED
      BY <1>2, <3>1 DEF bbentryval
  <2>2. bbexitval(bb) \subseteq visitor[bb][in[bb]]
    <3>1. bbentryval(bb) \in DFVal /\ in[bb] \in DFVal
      BY StepTypes DEF DFVal
    <3>2. QED
      BY <2>1, <3>1, TransferGrows DEF bbexitval
  <2>3. QED
    BY <1>1, <1>4, <2>1, <2>2
<1>5. QED
  BY <1>3, <1>4

\* No intermediate result of compForwardDataflow exceeds a solution, whatever
\* the order in which the addresses of the blocks make it visit them.
THEOREM NoStaleFacts == Loop => []NeverAboveASolution
<1>1. Init => NeverAboveASolution
  BY DEF Init, NeverAboveASolution, Promise!Solution
<1>2. TypeOK /\ NeverAboveASolution /\ [Next]_vars => NeverAboveASolution'
  <2>1. ASSUME TypeOK, NeverAboveASolution, Next
        PROVE  NeverAboveASolution'
    BY <2>1, NeverAboveStep DEF Next
  <2>2. ASSUME NeverAboveASolution, UNCHANGED vars
        PROVE  NeverAboveASolution'
    BY <2>2 DEF NeverAboveASolution, vars
  <2>3. QED
    BY <2>1, <2>2
<1>3. QED
  BY <1>1, <1>2, TypeCorrect, PTL DEF Loop

-----------------------------------------------------------------------------

LEMMA ExitBehindStep ==
  ASSUME TypeOK, ExitBehindEntry,
         NEW bb \in Block, Settle(bb) \/ Propagate(bb)
  PROVE  /\ ExitBehindEntry'
         /\ Promise!Monotone(visitor) =>
              \A b \in Block : exit[b] \subseteq exit'[b] \/ exit[b] = initval
<1>1. /\ UNCHANGED <<cfg, visitor, initval>>
      /\ entry' = [entry EXCEPT ![bb] = bbentryval(bb)]
      /\ exit' = [exit EXCEPT ![bb] = bbexitval(bb)]
  BY StepShape
<1> SUFFICES ASSUME Promise!Monotone(visitor), NEW b \in Block
             PROVE  /\ \/ exit'[b] = initval
                       \/ exit'[b] \subseteq visitor[b][entry'[b]]
                    /\ exit[b] \subseteq exit'[b] \/ exit[b] = initval
  BY <1>1 DEF ExitBehindEntry
<1> USE DEF TypeOK, Assignment, Promise!Assignment
<1>2. exit[b] = initval \/ exit[b] \subseteq visitor[b][entry[b]]
  BY DEF ExitBehindEntry
<1>3. CASE b # bb
  BY <1>1, <1>2, <1>3
<1>4. CASE b = bb
  <2>1. visitor[bb][entry[bb]] \subseteq bbexitval(bb)
    <3>1. /\ entry[bb] \in DFVal
          /\ bbentryval(bb) \in DFVal
          /\ entry[bb] \subseteq bbentryval(bb)
      BY StepTypes DEF DFVal, bbentryval
    <3>2. QED
      BY <3>1, TransferGrows DEF bbexitval
  <2>2. entry'[b] = bbentryval(bb) /\ exit'[b] = bbexitval(bb)
    BY <1>1, <1>4
  <2>3. QED
    BY <1>2, <1>4, <2>1, <2>2 DEF bbexitval
<1>5. QED
  BY <1>3, <1>4

\* Exit values only grow once the initial value has been replaced, so no fact
\* a block has published to its successors is ever withdrawn.
THEOREM NothingWithdrawn == Loop => ExitsOnlyGrow
<1>1. Init => ExitBehindEntry
  BY DEF Init, ExitBehindEntry
<1>2. TypeOK /\ ExitBehindEntry /\ [Next]_vars
        => /\ ExitBehindEntry'
           /\ [Promise!Monotone(visitor) =>
                 \A bb \in Block :
                   exit[bb] \subseteq exit'[bb] \/ exit[bb] = initval]_vars
  <2>1. ASSUME TypeOK, ExitBehindEntry, Next
        PROVE  /\ ExitBehindEntry'
               /\ Promise!Monotone(visitor) =>
                    \A bb \in Block :
                      exit[bb] \subseteq exit'[bb] \/ exit[bb] = initval
    BY <2>1, ExitBehindStep DEF Next
  <2>2. ASSUME ExitBehindEntry, UNCHANGED vars
        PROVE  ExitBehindEntry'
    BY <2>2 DEF ExitBehindEntry, vars
  <2>3. QED
    BY <2>1, <2>2
<1>3. QED
  BY <1>1, <1>2, TypeCorrect, PTL DEF Loop, ExitsOnlyGrow

-----------------------------------------------------------------------------

\* The entry value a turn computes holds the old one, so the turn changes the
\* measure at its first difference downwards.
LEMMA DescentStep ==
  ASSUME TypeOK, NEW bb \in Block, Settle(bb) \/ Propagate(bb)
  PROVE  Descends(Measure', Measure)
<1>. DEFINE missing == {bf \in Block \X Fact : bf[2] \notin entry[bf[1]]}
            stale == {b \in Block : exit[b] # visitor[b][entry[b]]}
<1>1. /\ bb \in worklist
      /\ UNCHANGED <<cfg, visitor, initval>>
      /\ entry' = [entry EXCEPT ![bb] = bbentryval(bb)]
      /\ exit' = [exit EXCEPT ![bb] = bbexitval(bb)]
      /\ bbexitval(bb) = exit[bb] => worklist' = worklist \ {bb}
  BY StepShape DEF Settle, Propagate
<1>. USE DEF TypeOK, Assignment, Promise!Assignment, DFVal, Promise!DFVal
<1>2. bbentryval(bb) \in SUBSET Fact /\ entry[bb] \subseteq bbentryval(bb)
  BY StepTypes DEF bbentryval
<1>3. /\ \A b \in Block : entry'[b] = IF b = bb THEN bbentryval(bb) ELSE entry[b]
      /\ \A b \in Block : exit'[b] = IF b = bb THEN bbexitval(bb) ELSE exit[b]
  BY <1>1
<1>4. CASE bbentryval(bb) # entry[bb]
  <2>1. PICK f \in Fact : f \in bbentryval(bb) /\ f \notin entry[bb]
    BY <1>2, <1>4
  <2>2. <<bb, f>> \in missing /\ <<bb, f>> \notin missing'
    BY <1>3, <2>1
  <2>3. missing' \subseteq missing
    BY <1>2, <1>3
  <2>. QED
    BY <2>2, <2>3 DEF Descends, Measure, Within
<1>5. CASE bbentryval(bb) = entry[bb]
  <2>1. entry' = entry /\ missing' = missing
    BY <1>1, <1>5
  <2>2. bbexitval(bb) = visitor[bb][entry[bb]]
    BY <1>5 DEF bbexitval
  <2>3. CASE bbexitval(bb) # exit[bb]
    <3>1. bb \in stale /\ bb \notin stale' /\ stale' \subseteq stale
      BY <1>1, <1>3, <2>1, <2>2, <2>3
    <3>. QED
      BY <2>1, <3>1 DEF Descends, Measure, Within
  <2>4. CASE bbexitval(bb) = exit[bb]
    <3>1. exit' = exit /\ stale' = stale
      BY <1>1, <2>1, <2>4
    <3>2. Within(worklist', worklist)
      BY <1>1, <2>4 DEF Within
    <3>. QED
      BY <2>1, <3>1, <3>2 DEF Descends, Measure
  <2>. QED
    BY <2>3, <2>4
<1>. QED
  BY <1>4, <1>5

\* Every turn of compForwardDataflow descends, whatever the visitor.
THEOREM TurnsDescend == Loop => EachTurnDescends
<1>1. TypeOK /\ [Next]_vars => [Descends(Measure', Measure)]_vars
  BY DescentStep DEF Next
<1>. QED
  BY <1>1, TypeCorrect, PTL DEF Loop, EachTurnDescends

\* On a function with finitely many blocks and facts there is no endless
\* descent, so the loop takes finitely many turns, whatever the visitor does.
THEOREM DescentEnds ==
  ASSUME IsFiniteSet(Block), IsFiniteSet(Fact),
         NEW missing \in [Nat -> SUBSET (Block \X Fact)],
         NEW stale \in [Nat -> SUBSET Block], NEW list \in [Nat -> SUBSET Block]
  PROVE  \E n \in Nat : ~ Descends(<<missing[n + 1], stale[n + 1], list[n + 1]>>,
                                   <<missing[n], stale[n], list[n]>>)
<1>. SUFFICES ASSUME \A n \in Nat : Descends(<<missing[n + 1], stale[n + 1], list[n + 1]>>,
                                             <<missing[n], stale[n], list[n]>>)
              PROVE  FALSE
  OBVIOUS
<1>. DEFINE C1 == {missing[n] : n \in Nat}
<1>1. PICK a \in C1 : \A U \in C1 : ~ (U \subseteq a /\ U # a)
  <2>1. IsFiniteSet(Block \X Fact)
    BY FS_Product
  <2>2. C1 \subseteq SUBSET (Block \X Fact) /\ C1 # {}
    OBVIOUS
  <2>. HIDE DEF C1
  <2>. QED
    BY <2>1, <2>2, SmallestSubset
<1>. DEFINE C2 == {stale[n] : n \in {k \in Nat : missing[k] = a}}
<1>2. PICK b \in C2 : \A U \in C2 : ~ (U \subseteq b /\ U # b)
  <2>1. C2 \subseteq SUBSET Block /\ C2 # {}
    OBVIOUS
  <2>. HIDE DEF C2
  <2>. QED
    BY <2>1, SmallestSubset
<1>. DEFINE C3 == {list[n] : n \in {k \in Nat : missing[k] = a /\ stale[k] = b}}
<1>3. PICK c \in C3 : \A U \in C3 : ~ (U \subseteq c /\ U # c)
  <2>1. C3 \subseteq SUBSET Block /\ C3 # {}
    OBVIOUS
  <2>. HIDE DEF C3
  <2>. QED
    BY <2>1, SmallestSubset
<1>4. PICK n \in Nat : missing[n] = a /\ stale[n] = b /\ list[n] = c
  OBVIOUS
<1>5. /\ Descends(<<missing[n + 1], stale[n + 1], list[n + 1]>>,
                  <<missing[n], stale[n], list[n]>>)
      /\ n + 1 \in Nat
  OBVIOUS
<1>6. CASE Within(missing[n + 1], a)
  BY <1>1, <1>5, <1>6 DEF Within
<1>7. CASE missing[n + 1] = a /\ Within(stale[n + 1], b)
  BY <1>2, <1>5, <1>7 DEF Within
<1>8. CASE missing[n + 1] = a /\ stale[n + 1] = b /\ Within(list[n + 1], c)
  BY <1>3, <1>5, <1>8 DEF Within
<1>. QED
  BY <1>4, <1>5, <1>6, <1>7, <1>8 DEF Descends

-----------------------------------------------------------------------------

\* When the worklist is empty the entry values are a solution, the least one
\* if the visitor is monotone.
LEMMA EmptyWorklistSolves ==
  TypeOK /\ OffWorklistUpToDate /\ NeverAboveASolution /\ worklist = {}
  => /\ entry \in Assignment
     /\ Promise!Solution(cfg, visitor, initval, entry)
     /\ Promise!Monotone(visitor) =>
          Promise!Least(cfg, visitor, initval, entry)
<1> SUFFICES ASSUME TypeOK, OffWorklistUpToDate, NeverAboveASolution,
                    worklist = {}
             PROVE  /\ entry \in Assignment
                    /\ Promise!Solution(cfg, visitor, initval, entry)
                    /\ Promise!Monotone(visitor) =>
                         Promise!Least(cfg, visitor, initval, entry)
  OBVIOUS
<1>1. Promise!Solution(cfg, visitor, initval, entry)
  BY DEF OffWorklistUpToDate, Promise!Solution, pred
<1>2. ASSUME Promise!Monotone(visitor), NEW in \in Assignment,
             Promise!Solution(cfg, visitor, initval, in)
      PROVE  Promise!Below(entry, in)
  BY <1>2 DEF NeverAboveASolution, Promise!Below
<1>3. QED
  BY <1>1, <1>2 DEF TypeOK, Promise!Least, Assignment

\* compForwardDataflow delivers what LeastSolution promises: the first state
\* with an empty worklist is its only Deliver step, all others stutter.
THEOREM ForwardCorrect == Loop => DeliversLeastSolution
<1>1. Init => Promise!Init
  BY ProblemAssumption DEF Init, Promise!Init, DFVal
<1>2. TypeOK' /\ OffWorklistUpToDate' /\ NeverAboveASolution' /\ worklist' = {}
      => /\ entry' \in Assignment
         /\ Promise!Solution(cfg', visitor', initval', entry')
         /\ Promise!Monotone(visitor') =>
              Promise!Least(cfg', visitor', initval', entry')
  <2>1. (TypeOK /\ OffWorklistUpToDate /\ NeverAboveASolution /\ worklist = {}
         => /\ entry \in Assignment
            /\ Promise!Solution(cfg, visitor, initval, entry)
            /\ Promise!Monotone(visitor) =>
                 Promise!Least(cfg, visitor, initval, entry))'
    BY EmptyWorklistSolves, PTL
  <2>2. QED
    BY <2>1
<1>3. /\ TypeOK /\ TypeOK'
      /\ OffWorklistUpToDate' /\ NeverAboveASolution'
      /\ [Next]_vars
      => [Promise!Deliver]_(Promise!vars)
  <2> SUFFICES ASSUME TypeOK, TypeOK', OffWorklistUpToDate',
                      NeverAboveASolution', [Next]_vars
               PROVE  [Promise!Deliver]_(Promise!vars)
    OBVIOUS
  <2>1. CASE UNCHANGED vars
    BY <2>1 DEF vars, Promise!vars
  <2>2. ASSUME NEW bb \in Block, Settle(bb) \/ Propagate(bb)
        PROVE  [Promise!Deliver]_(Promise!vars)
    <3>1. /\ worklist # {}
          /\ UNCHANGED <<cfg, visitor, initval>>
      BY <2>2, StepShape
    <3>2. CASE worklist' # {}
      BY <3>1, <3>2 DEF Promise!vars
    <3>3. CASE worklist' = {}
      <4>1. /\ entry' \in Assignment
            /\ Promise!Solution(cfg, visitor, initval, entry')
            /\ Promise!Monotone(visitor) =>
                 Promise!Least(cfg, visitor, initval, entry')
        BY <1>2, <3>1, <3>3
      <4>2. QED
        BY <3>1, <3>3, <4>1 DEF Promise!Deliver, Assignment
    <3>4. QED
      BY <3>2, <3>3
  <2>3. QED
    BY <2>1, <2>2 DEF Next
<1>4. QED
  BY <1>1, <1>3, TypeCorrect, WorklistSuffices, NoStaleFacts, PTL
     DEF Loop, DeliversLeastSolution, Promise!Spec

\* At most one assignment is least.
LEMMA LeastUnique ==
  ASSUME NEW E, NEW f, NEW i, NEW in1 \in Assignment, NEW in2 \in Assignment,
         Promise!Least(E, f, i, in1), Promise!Least(E, f, i, in2)
  PROVE  in1 = in2
<1>1. \A b \in Block : in1[b] \subseteq in2[b] /\ in2[b] \subseteq in1[b]
  BY DEF Promise!Least, Promise!Below, Assignment
<1>2. \A b \in Block : in1[b] = in2[b]
  BY <1>1 DEF Assignment, Promise!Assignment, Promise!DFVal
<1>3. QED
  BY <1>2 DEF Assignment, Promise!Assignment

\* An empty worklist leaves the one result that the problem has: the entry values
\* are its least solution, and the exit values, all of them up to date, the
\* transfer of these.
LEMMA EmptyWorklistOneResult ==
  TypeOK /\ OffWorklistUpToDate /\ NeverAboveASolution => OneResult
<1>. SUFFICES ASSUME TypeOK, OffWorklistUpToDate, NeverAboveASolution,
                     Promise!Monotone(visitor), worklist = {}
              PROVE  <<entry, exit>> = ResultOf(cfg, visitor, initval)
  BY DEF OneResult
<1>. DEFINE in == CHOOSE in \in Assignment :
                    Promise!Least(cfg, visitor, initval, in)
<1>1. entry \in Assignment /\ Promise!Least(cfg, visitor, initval, entry)
  BY EmptyWorklistSolves
<1>2. in \in Assignment /\ Promise!Least(cfg, visitor, initval, in)
  BY <1>1
<1>. HIDE DEF in
<1>3. entry = in
  BY <1>1, <1>2, LeastUnique
<1>4. exit = [bb \in Block |-> visitor[bb][in[bb]]]
  <2>1. \A bb \in Block : exit[bb] = visitor[bb][entry[bb]]
    BY DEF OffWorklistUpToDate
  <2>. QED
    BY <1>3, <2>1 DEF TypeOK, Assignment, Promise!Assignment
<1>. QED
  BY <1>3, <1>4 DEF ResultOf, in

\* However the addresses of the blocks order the worklist of compForwardDataflow,
\* the entry and exit values it ends with for a monotone visitor are those that
\* the graph, the visitor and the initial value determine.  So any two runs on the
\* same arguments that end have the same result.
THEOREM OrderIrrelevant == Loop => []OneResult
<1>. QED
  BY EmptyWorklistOneResult, TypeCorrect, WorklistSuffices, NoStaleFacts, PTL
     DEF Loop
=============================================================================
