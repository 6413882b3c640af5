-------------------------- MODULE ForwardDataflow --------------------------
(***************************************************************************)
(* compForwardDataflow of Assignment3/src/Dataflow.h: the worklist         *)
(* iteration over the basic blocks of one function.  One step is one turn  *)
(* of the while loop, which nothing can observe from within.               *)
(*                                                                         *)
(* The worklist is a std::set<BasicBlock *>: its first element is the      *)
(* block with the smallest address, so any block may be the next one.      *)
(***************************************************************************)
CONSTANTS Block, Fact, CFGs, Visitors

VARIABLES
  cfg, visitor, initval,   \* the arguments fn, visitor and initval
  entry,                   \* (*result)[bb].first
  exit,                    \* (*result)[bb].second
  worklist

vars == <<cfg, visitor, initval, entry, exit, worklist>>

Promise == INSTANCE LeastSolution
             WITH answer <- IF worklist = {} THEN {entry} ELSE {}

DFVal == Promise!DFVal
Assignment == Promise!Assignment

ASSUME ProblemAssumption ==
  /\ CFGs \subseteq SUBSET (Block \X Block)
  /\ Visitors \subseteq [Block -> [DFVal -> DFVal]]
  /\ Block # {}

pred(bb) == {p \in Block : <<p, bb>> \in cfg}
succ(bb) == {s \in Block : <<bb, s>> \in cfg}

-----------------------------------------------------------------------------

\* Mutant: result gets an element for the blocks without successors only.
InitAtExits ==
  LET exits == {bb \in Block : succ(bb) = {}} IN
  /\ cfg \in CFGs
  /\ visitor \in Visitors
  /\ initval \in DFVal
  /\ entry = [bb \in exits |-> initval]
  /\ exit = [bb \in exits |-> initval]
  /\ worklist = exits

Init ==
  /\ cfg \in CFGs
  /\ visitor \in Visitors
  /\ initval \in DFVal
  /\ entry = [bb \in Block |-> initval]
  /\ exit = [bb \in Block |-> initval]
  /\ worklist = Block

\* Mutants: merge the exit values of the successors; start from nothing instead
\* of from the old entry value.
MergeSuccessors(bb) == entry[bb] \cup UNION {exit[s] : s \in succ(bb)}
MergeAfresh(bb) == UNION {exit[p] : p \in pred(bb)}

\* The value of bbentryval after the merge loop over the predecessors.
bbentryval(bb) == entry[bb] \cup UNION {exit[p] : p \in pred(bb)}

\* Mutant: run the visitor before the merge loop instead of after it.
VisitBeforeMerge(bb) == visitor[bb][entry[bb]]

\* bbentryval after visitor->compDFVal(bb, &bbentryval, true).
bbexitval(bb) == visitor[bb][bbentryval(bb)]

\* The exit value of bb has not changed: nothing to propagate.
Settle(bb) ==
  /\ bb \in worklist
  /\ bbexitval(bb) = exit[bb]
  /\ entry' = [entry EXCEPT ![bb] = bbentryval(bb)]
  /\ worklist' = worklist \ {bb}
  /\ UNCHANGED <<cfg, visitor, initval, exit>>

\* Mutants: forget the successors; take the predecessors for them; store the
\* entry value after the visitor has run instead of before.
PropagateNowhere(bb) ==
  /\ bb \in worklist
  /\ bbexitval(bb) # exit[bb]
  /\ entry' = [entry EXCEPT ![bb] = bbentryval(bb)]
  /\ exit' = [exit EXCEPT ![bb] = bbexitval(bb)]
  /\ worklist' = worklist \ {bb}
  /\ UNCHANGED <<cfg, visitor, initval>>

PropagateBack(bb) ==
  /\ bb \in worklist
  /\ bbexitval(bb) # exit[bb]
  /\ entry' = [entry EXCEPT ![bb] = bbentryval(bb)]
  /\ exit' = [exit EXCEPT ![bb] = bbexitval(bb)]
  /\ worklist' = (worklist \ {bb}) \cup pred(bb)
  /\ UNCHANGED <<cfg, visitor, initval>>

PropagateLate(bb) ==
  /\ bb \in worklist
  /\ bbexitval(bb) # exit[bb]
  /\ entry' = [entry EXCEPT ![bb] = bbexitval(bb)]
  /\ exit' = [exit EXCEPT ![bb] = bbexitval(bb)]
  /\ worklist' = (worklist \ {bb}) \cup succ(bb)
  /\ UNCHANGED <<cfg, visitor, initval>>

\* It has: store it and put every successor (bb too, on a self-loop) back.
Propagate(bb) ==
  /\ bb \in worklist
  /\ bbexitval(bb) # exit[bb]
  /\ entry' = [entry EXCEPT ![bb] = bbentryval(bb)]
  /\ exit' = [exit EXCEPT ![bb] = bbexitval(bb)]
  /\ worklist' = (worklist \ {bb}) \cup succ(bb)
  /\ UNCHANGED <<cfg, visitor, initval>>

Next == \E bb \in Block : Settle(bb) \/ Propagate(bb)

Loop == Init /\ [][Next]_vars

\* The loop is run by one thread that nothing suspends.
Spec == Loop /\ WF_vars(Next)

-----------------------------------------------------------------------------

TypeOK ==
  /\ cfg \in CFGs
  /\ visitor \in Visitors
  /\ initval \in DFVal
  /\ entry \in Assignment
  /\ exit \in Assignment
  /\ worklist \subseteq Block

\* A block never loses the initial value it started with, and a block that
\* is off the worklist is up to date: its exit value is its transfer function
\* applied to its entry value, which already holds the exit value of every
\* predecessor.  The loop may therefore stop when the worklist is empty; the
\* insertions of the last inner loop are exactly enough.
OffWorklistUpToDate ==
  \A bb \in Block :
    /\ initval \subseteq entry[bb]
    /\ bb \notin worklist =>
         /\ exit[bb] = visitor[bb][entry[bb]]
         /\ \A p \in pred(bb) : exit[p] \subseteq entry[bb]

\* With a monotone visitor no intermediate value ever exceeds a solution, so
\* no visiting order can leave a stale fact behind (entry values are never
\* recomputed from scratch, only enlarged).
NeverAboveASolution ==
  Promise!Monotone(visitor) =>
    \A in \in Assignment :
      Promise!Solution(cfg, visitor, initval, in) =>
        \A bb \in Block :
          /\ entry[bb] \subseteq in[bb]
          /\ exit[bb] \subseteq visitor[bb][in[bb]] \cup initval

\* What ExitsOnlyGrow rests on: once the initial value has been replaced, an
\* exit value is the transfer of an earlier, hence smaller, entry value.
ExitBehindEntry ==
  Promise!Monotone(visitor) =>
    \A bb \in Block :
      exit[bb] = initval \/ exit[bb] \subseteq visitor[bb][entry[bb]]

\* With a monotone visitor the exit value of a block only grows, except when
\* the initial value every block starts with is first replaced.
ExitsOnlyGrow ==
  [][Promise!Monotone(visitor) =>
       \A bb \in Block : exit[bb] \subseteq exit'[bb] \/ exit[bb] = initval]_vars

\* The loop delivers what LeastSolution promises, whatever the order.
DeliversLeastSolution == Promise!Spec

\* The least solution of a problem and what the visitor makes of it: functions of
\* the problem alone.
ResultOf(E, f, i) ==
  LET in == CHOOSE in \in Assignment : Promise!Least(E, f, i, in)
  IN  <<in, [bb \in Block |-> f[bb][in[bb]]]>>

\* With a monotone visitor the loop ends with the same result, entry and exit
\* value of every block, in whatever order the worklist, a set of addresses,
\* gives the blocks: the result depends on the arguments of the call only.
OneResult ==
  Promise!Monotone(visitor) /\ worklist = {} =>
    <<entry, exit>> = ResultOf(cfg, visitor, initval)

\* What a turn can use up: the facts an entry value does not hold yet, the
\* blocks whose exit value is not the transfer of their entry value, the
\* worklist.
Measure ==
  <<{bf \in Block \X Fact : bf[2] \notin entry[bf[1]]},
    {bb \in Block : exit[bb] # visitor[bb][entry[bb]]},
    worklist>>

Within(S, T) == S \subseteq T /\ S # T

Descends(m, n) ==
  \/ Within(m[1], n[1])
  \/ m[1] = n[1] /\ Within(m[2], n[2])
  \/ m[1] = n[1] /\ m[2] = n[2] /\ Within(m[3], n[3])

\* Each turn uses up something and gives back only what comes after it in
\* Measure, whatever the visitor: blocks come back on the worklist only for an
\* exit value that was out of date or an entry value that grew.
EachTurnDescends == [][Descends(Measure', Measure)]_vars

\* The loop ends.  This holds for every visitor, monotone or not, because an
\* entry value is only ever enlarged.
Terminates == <>(worklist = {})
=============================================================================
