---------------------------- MODULE FuncPtrSound ---------------------------
(***************************************************************************)
(* FuncPtrPass of Assignment2 followed by a run of the module it analysed: *)
(* what the pass printed has to cover every call the run makes.            *)
(***************************************************************************)
EXTENDS FuncPtrPass

CONSTANTS MaxObjects, MaxFrames

VARIABLES frames, mem

Machine == INSTANCE PointerMachine

soundVars == <<vars, frames, mem>>

SoundInit == Init /\ Machine!Init

Analyse == Next /\ UNCHANGED <<frames, mem>>

Run == Done /\ (Machine!Start \/ Machine!Step) /\ UNCHANGED vars

SoundSpec == SoundInit /\ [][Analyse \/ Run]_soundVars /\ WF_soundVars(Analyse)

-----------------------------------------------------------------------------

\* Every call a run makes is one the pass printed.
CallsCovered == Done => Machine!Calling \subseteq lineFuncList

\* The recursive descent ends.
AnalysisEnds == <>Done
=============================================================================
