--------------------------- MODULE PointToSound ----------------------------
(***************************************************************************)
(* The point-to analysis of Assignment3 followed by a run of the module it *)
(* analysed: what the pass printed has to cover every call the run makes.  *)
(***************************************************************************)
EXTENDS PointTo, FlowInsensitive

CONSTANTS MaxObjects, MaxFrames

VARIABLES frames, mem

Machine == INSTANCE PointerMachine

soundVars == <<vars, frames, mem>>

SoundInit == Init /\ Machine!Init

Analyse == Next /\ UNCHANGED <<frames, mem>>

Run == Done /\ (Machine!Start \/ Machine!Step) /\ UNCHANGED vars

SoundSpec == SoundInit /\ [][Analyse \/ Run]_soundVars /\ WF_soundVars(Analyse)

-----------------------------------------------------------------------------

SoundTypeOK ==
  /\ \A i \in DOMAIN stack :
       /\ stack[i].fn \in Funcs(prog)
       /\ i < Len(stack) => stack[i].fn \notin Declared(prog)
       /\ stack[i].worklist \subseteq prog.blocks[stack[i].fn]
       /\ stack[i].at \in {"loop", "inst", "call"}
       /\ i > 1 => stack[i].at = "call"
       /\ stack[i].at # "loop" => stack[i].bb \in prog.blocks[stack[i].fn]
  /\ lineFuncList \subseteq Nat \X Funcs(prog)

\* Every call a run makes is one the pass printed, whatever the addresses of
\* the blocks, the branches taken and the number of iterations: no strong
\* update, no merge and no return from a callee may drop a callee that is
\* still possible.
CallsCovered == Done => Machine!Calling \subseteq lineFuncList

\* What a flow-insensitive analysis of each module finds.
Possible == [p \in Modules |-> Calls(p, Solution(p))]

\* The pass reports no call that a flow-insensitive analysis does not find
\* possible: no argument is bound in the wrong callee, no result returned to the
\* wrong call, and nothing is left in a map or in retSets by an earlier turn or
\* by another activation that does not belong there.
NothingInvented == lineFuncList \subseteq Possible[prog]

\* The pass ends.
AnalysisEnds == <>Done
=============================================================================
