------------------------- MODULE BackwardDataflow --------------------------
(***************************************************************************)
(* compBackwardDataflow of Assignment3/src/Dataflow.h.  It shares no code  *)
(* with the forward solver: it merges over successors, transfers from the  *)
(* exit to the entry of a block and requeues predecessors.  That it is the *)
(* forward solver of the reversed graph is what ImplementsForward says.    *)
(***************************************************************************)
CONSTANTS Block, Fact, CFGs, Visitors

VARIABLES
  cfg, visitor, initval,   \* the arguments fn, visitor and initval
  entry,                   \* (*result)[bb].first
  exit,                    \* (*result)[bb].second
  worklist

vars == <<cfg, visitor, initval, entry, exit, worklist>>

Reverse(E) == {<<e[2], e[1]>> : e \in E}

Fwd == INSTANCE ForwardDataflow
         WITH CFGs <- {Reverse(E) : E \in CFGs}, cfg <- Reverse(cfg),
              entry <- exit, exit <- entry

pred(bb) == {p \in Block : <<p, bb>> \in cfg}
succ(bb) == {s \in Block : <<bb, s>> \in cfg}

ASSUME BackwardAssumption ==
  /\ CFGs \subseteq SUBSET (Block \X Block)
  /\ Visitors \subseteq [Block -> [SUBSET Fact -> SUBSET Fact]]
  /\ Block # {}

-----------------------------------------------------------------------------

\* Mutants: insert the exit blocks only, as the comment in the code has it,
\* into the worklist; into result as well.
InitWorklistAtExits ==
  /\ cfg \in CFGs
  /\ visitor \in Visitors
  /\ initval \in SUBSET Fact
  /\ entry = [bb \in Block |-> initval]
  /\ exit = [bb \in Block |-> initval]
  /\ worklist = {bb \in Block : succ(bb) = {}}

InitAtExits ==
  LET exits == {bb \in Block : succ(bb) = {}} IN
  /\ cfg \in CFGs
  /\ visitor \in Visitors
  /\ initval \in SUBSET Fact
  /\ entry = [bb \in exits |-> initval]
  /\ exit = [bb \in exits |-> initval]
  /\ worklist = exits

\* Every block is inserted, not only the exit blocks the comment in the code
\* speaks of: a block from which no exit is reachable is visited as well.
Init ==
  /\ cfg \in CFGs
  /\ visitor \in Visitors
  /\ initval \in SUBSET Fact
  /\ entry = [bb \in Block |-> initval]
  /\ exit = [bb \in Block |-> initval]
  /\ worklist = Block

\* The value of bbexitval after the merge loop over the successors.
bbexitval(bb) == exit[bb] \cup UNION {entry[s] : s \in succ(bb)}

\* bbexitval after visitor->compDFVal(bb, &bbexitval, false).
bbentryval(bb) == visitor[bb][bbexitval(bb)]

\* Mutant: go on to the next turn without taking the block off the worklist.
SettleAndStay(bb) ==
  /\ bb \in worklist
  /\ bbentryval(bb) = entry[bb]
  /\ exit' = [exit EXCEPT ![bb] = bbexitval(bb)]
  /\ UNCHANGED <<cfg, visitor, initval, entry, worklist>>

\* The entry value of bb has not changed: nothing to propagate.
Settle(bb) ==
  /\ bb \in worklist
  /\ bbentryval(bb) = entry[bb]
  /\ exit' = [exit EXCEPT ![bb] = bbexitval(bb)]
  /\ worklist' = worklist \ {bb}
  /\ UNCHANGED <<cfg, visitor, initval, entry>>

\* Mutant: put the successors back instead of the predecessors.
PropagateForward(bb) ==
  /\ bb \in worklist
  /\ bbentryval(bb) # entry[bb]
  /\ exit' = [exit EXCEPT ![bb] = bbexitval(bb)]
  /\ entry' = [entry EXCEPT ![bb] = bbentryval(bb)]
  /\ worklist' = (worklist \ {bb}) \cup succ(bb)
  /\ UNCHANGED <<cfg, visitor, initval>>

\* It has: store it and put every predecessor back on the worklist.
Propagate(bb) ==
  /\ bb \in worklist
  /\ bbentryval(bb) # entry[bb]
  /\ exit' = [exit EXCEPT ![bb] = bbexitval(bb)]
  /\ entry' = [entry EXCEPT ![bb] = bbentryval(bb)]
  /\ worklist' = (worklist \ {bb}) \cup pred(bb)
  /\ UNCHANGED <<cfg, visitor, initval>>

Next == \E bb \in Block : Settle(bb) \/ Propagate(bb)

Loop == Init /\ [][Next]_vars

\* The loop is run by one thread that nothing suspends.
Spec == Loop /\ WF_vars(Next)

-----------------------------------------------------------------------------

TypeOK ==
  /\ cfg \in CFGs
  /\ visitor \in Visitors
  /\ initval \in SUBSET Fact
  /\ entry \in [Block -> SUBSET Fact]
  /\ exit \in [Block -> SUBSET Fact]
  /\ worklist \subseteq Block

\* Every behaviour of the backward solver is one of the forward solver on the
\* reversed graph with the two components of result swapped, so whatever is
\* shown of compForwardDataflow holds of compBackwardDataflow.
ImplementsForward == Fwd!Loop

\* Hence it delivers the least solution of the reversed problem.
DeliversLeastSolution == Fwd!DeliversLeastSolution

\* The loop ends, on graphs without an exit block too.
Terminates == <>(worklist = {})
=============================================================================
