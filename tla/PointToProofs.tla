--------------------------- MODULE PointToProofs ---------------------------
(***************************************************************************)
(* Proofs about the point-to analysis, for all modules, recursive ones     *)
(* included: in every nested activation of compForwardDataflow the         *)
(* worklist holds every block that is out of date; a callee is entered     *)
(* only if it has a body; what is reported are functions at lines, and     *)
(* none that flow-insensitive inclusion finds impossible there.            *)
(***************************************************************************)
EXTENDS PointToSound, FlowInsensitiveProofs

-----------------------------------------------------------------------------
(***************************************************************************)
(* Merging.                                                                *)
(***************************************************************************)

LEMMA PlusAbsorbs ==
  ASSUME NEW map, NEW old, NEW more, Within(map, more)
  PROVE  Plus(map, Plus(old, more)) = Plus(old, more)
<1>. DEFINE p == Plus(old, more)
<1>1. /\ p = [k \in DOMAIN p |-> p[k]]
      /\ DOMAIN p = DOMAIN old \cup DOMAIN more
      /\ \A k \in DOMAIN p : p[k] = At(old, k) \cup At(more, k)
  BY DEF Plus
<1>. HIDE DEF p
<1>2. DOMAIN map \subseteq DOMAIN p
  BY <1>1 DEF Within
<1>3. \A k \in DOMAIN p : At(map, k) \cup At(p, k) = p[k]
  BY <1>1 DEF Within, At
<1>4. Plus(map, p) = [k \in DOMAIN p |-> At(map, k) \cup At(p, k)]
  BY <1>2 DEF Plus
<1>5. Plus(map, p) = p
  BY <1>1, <1>3, <1>4
<1>. QED
  BY <1>5 DEF p

LEMMA WithinMerged ==
  ASSUME NEW maps, NEW b \in DOMAIN maps
  PROVE  Within(maps[b], Merged(maps))
BY DEF Within, Merged, At

\* The entry value of a block is above the exit values of its predecessors.
LEMMA AbovePredecessors ==
  ASSUME NEW bb, NEW b \in prog.blocks[Top.fn], <<b, bb>> \in prog.cfg
  PROVE  LessEq(Top.exit[b], bbentryval(bb))
<1>. DEFINE preds == {c \in prog.blocks[Top.fn] : <<c, bb>> \in prog.cfg}
            pts   == Merged([c \in preds |-> Top.exit[c].pts])
            cells == Merged([c \in preds |-> Top.exit[c].alias])
<1>1. Within(Top.exit[b].pts, pts) /\ Within(Top.exit[b].alias, cells)
  <2>1. b \in preds
    OBVIOUS
  <2>. HIDE DEF preds
  <2>2. Within([c \in preds |-> Top.exit[c].pts][b], pts)
    BY <2>1, WithinMerged
  <2>3. Within([c \in preds |-> Top.exit[c].alias][b], cells)
    BY <2>1, WithinMerged
  <2>. QED
    BY <2>1, <2>2, <2>3
<1>2. bbentryval(bb) = [pts |-> Plus(Top.entry[bb].pts, pts),
                        alias |-> Plus(Top.entry[bb].alias, cells)]
  BY DEF bbentryval, extend
<1>. HIDE DEF pts, cells
<1>3. /\ Plus(Top.exit[b].pts, Plus(Top.entry[bb].pts, pts)) = Plus(Top.entry[bb].pts, pts)
      /\ Plus(Top.exit[b].alias, Plus(Top.entry[bb].alias, cells))
           = Plus(Top.entry[bb].alias, cells)
  BY <1>1, PlusAbsorbs
<1>. QED
  BY <1>2, <1>3 DEF LessEq, extend

-----------------------------------------------------------------------------
(***************************************************************************)
(* One activation of compForwardDataflow.                                  *)
(***************************************************************************)

Fields == {"fn", "entry", "exit", "worklist", "at", "bb", "pc", "dfval", "retSets",
           "callees", "argsVec", "alias", "flag"}

Shape(act) ==
  /\ DOMAIN act = Fields
  /\ DOMAIN act.entry = prog.blocks[act.fn]
  /\ DOMAIN act.exit = prog.blocks[act.fn]
  /\ act.worklist \subseteq prog.blocks[act.fn]
  /\ act.at # "loop" => act.bb \in prog.blocks[act.fn]

UpToDate(act) ==
  \A b \in DOMAIN act.exit, bb \in DOMAIN act.entry \ act.worklist :
    <<b, bb>> \in prog.cfg => LessEq(act.exit[b], act.entry[bb])

ActOK(act) == Shape(act) /\ UpToDate(act)

StackInv == IsSeq(stack) /\ \A i \in 1 .. Len(stack) : ActOK(stack[i])

\* A new activation has every block on its worklist.
LEMMA NewIsOK ==
  ASSUME NEW fn, NEW initval
  PROVE  ActOK(Activation(fn, initval))
<1>1. Shape(Activation(fn, initval))
  BY DEF Shape, Fields, Activation
<1>2. DOMAIN Activation(fn, initval).entry \ Activation(fn, initval).worklist = {}
  BY DEF Activation
<1>. QED
  BY <1>1, <1>2 DEF ActOK, UpToDate

\* What a handler does leaves the result map and the worklist alone.
Same(act, other) ==
  /\ DOMAIN other = Fields
  /\ other.fn = act.fn /\ other.entry = act.entry /\ other.exit = act.exit
  /\ other.worklist = act.worklist /\ other.bb = act.bb
  /\ other.at # "loop" => act.at # "loop"

LEMMA SameIsOK ==
  ASSUME NEW act, ActOK(act), NEW other, Same(act, other)
  PROVE  ActOK(other)
BY DEF ActOK, Shape, UpToDate, Same

LEMMA TakenIsOK ==
  ASSUME ActOK(Top), NEW bb \in Top.worklist
  PROVE  ActOK([Top EXCEPT !.worklist = @ \ {bb}, !.at = "inst", !.bb = bb, !.pc = 1,
                           !.dfval = bbentryval(bb), !.entry[bb] = bbentryval(bb)])
<1>1. PICK val : val = bbentryval(bb)
  OBVIOUS
<1>2. PICK act : act = [Top EXCEPT !.worklist = @ \ {bb}, !.at = "inst", !.bb = bb,
                                   !.pc = 1, !.dfval = val, !.entry[bb] = val]
  OBVIOUS
<1>3. DOMAIN Top = Fields
  BY DEF ActOK, Shape
<1>4. /\ DOMAIN act = Fields
      /\ act.fn = Top.fn /\ act.exit = Top.exit
      /\ act.worklist = Top.worklist \ {bb} /\ act.bb = bb
      /\ act.entry = [Top.entry EXCEPT ![bb] = val]
  BY <1>2, <1>3 DEF Fields
<1>5. bb \in DOMAIN Top.entry /\ DOMAIN Top.exit = prog.blocks[Top.fn]
  BY DEF ActOK, Shape
<1>6. Shape(act)
  BY <1>4, <1>5 DEF ActOK, Shape
<1>7. ASSUME NEW b \in DOMAIN act.exit, NEW c \in DOMAIN act.entry \ act.worklist,
             <<b, c>> \in prog.cfg
      PROVE  LessEq(act.exit[b], act.entry[c])
  <2>1. CASE c = bb
    <3>1. LessEq(Top.exit[b], val)
      BY <1>1, <1>4, <1>5, <1>7, <2>1, AbovePredecessors
    <3>. QED
      BY <1>4, <1>5, <2>1, <3>1
  <2>2. CASE c # bb
    <3>1. c \in DOMAIN Top.entry \ Top.worklist /\ act.entry[c] = Top.entry[c]
      BY <1>4, <1>5, <2>2
    <3>. QED
      BY <1>4, <1>7, <3>1 DEF ActOK, UpToDate
  <2>. QED
    BY <2>1, <2>2
<1>8. UpToDate(act)
  BY <1>7 DEF UpToDate
<1>. QED
  BY <1>1, <1>2, <1>6, <1>8 DEF ActOK

LEMMA EndedIsOK ==
  ASSUME ActOK(Top), Top.at = "inst", NEW list,
         list = IF Top.dfval # Top.exit[Top.bb]
                THEN Top.worklist \cup {b \in prog.blocks[Top.fn] : <<Top.bb, b>> \in prog.cfg}
                ELSE Top.worklist
  PROVE  ActOK([Top EXCEPT !.exit[Top.bb] = Top.dfval, !.worklist = list, !.at = "loop",
                           !.bb = nullptr, !.pc = 1, !.dfval = EmptyInfo])
<1>1. PICK act : act = [Top EXCEPT !.exit[Top.bb] = Top.dfval, !.worklist = list,
                                   !.at = "loop", !.bb = nullptr, !.pc = 1,
                                   !.dfval = EmptyInfo]
  OBVIOUS
<1>2. DOMAIN Top = Fields
  BY DEF ActOK, Shape
<1>3. /\ DOMAIN act = Fields
      /\ act.fn = Top.fn /\ act.entry = Top.entry
      /\ act.worklist = list /\ act.at = "loop"
      /\ act.exit = [Top.exit EXCEPT ![Top.bb] = Top.dfval]
  BY <1>1, <1>2 DEF Fields
<1>4. /\ Top.bb \in DOMAIN Top.exit
      /\ DOMAIN Top.entry = prog.blocks[Top.fn] /\ DOMAIN Top.exit = prog.blocks[Top.fn]
      /\ Top.worklist \subseteq list /\ list \subseteq prog.blocks[Top.fn]
  BY DEF ActOK, Shape
<1>5. Shape(act)
  BY <1>3, <1>4 DEF Shape
<1>6. ASSUME NEW b \in DOMAIN act.exit, NEW c \in DOMAIN act.entry \ act.worklist,
             <<b, c>> \in prog.cfg
      PROVE  LessEq(act.exit[b], act.entry[c])
  <2>1. act.exit[b] = Top.exit[b]
    <3>1. CASE b = Top.bb
      BY <1>3, <1>4, <1>6, <3>1
    <3>2. CASE b # Top.bb
      BY <1>3, <1>4, <3>2
    <3>. QED
      BY <3>1, <3>2
  <2>2. b \in DOMAIN Top.exit /\ c \in DOMAIN Top.entry \ Top.worklist
    BY <1>3, <1>4
  <2>. QED
    BY <1>3, <1>6, <2>1, <2>2 DEF ActOK, UpToDate
<1>7. UpToDate(act)
  BY <1>6 DEF UpToDate
<1>. QED
  BY <1>1, <1>5, <1>7 DEF ActOK

-----------------------------------------------------------------------------
(***************************************************************************)
(* The stack of activations.                                               *)
(***************************************************************************)

LEMMA TopIsOK ==
  ASSUME StackInv, stack # << >>
  PROVE  ActOK(Top)
<1>1. Len(stack) \in Nat \ {0}
  BY Popped DEF StackInv
<1>. QED
  BY <1>1 DEF StackInv, Top

\* The program stays, so what is shown of the new stack now holds of it then.
LEMMA NextStack ==
  ASSUME prog' = prog, IsSeq(stack'), \A i \in 1 .. Len(stack') : ActOK(stack'[i])
  PROVE  StackInv'
BY DEF StackInv, IsSeq, ActOK, Shape, UpToDate, LessEq

LEMMA SetTopKeeps ==
  ASSUME StackInv, stack # << >>, prog' = prog, NEW act, ActOK(act), SetTop(act)
  PROVE  StackInv'
<1>1. /\ IsSeq(stack') /\ Len(stack') = Len(stack) /\ Len(stack) \in Nat \ {0}
      /\ stack'[1] = act
      /\ \A i \in 2 .. Len(stack) : stack'[i] = stack[i]
  BY Replaced DEF StackInv, SetTop
<1>2. \A i \in 1 .. Len(stack') : ActOK(stack'[i])
  <2>1. ASSUME NEW i \in 1 .. Len(stack')
        PROVE  ActOK(stack'[i])
    <3>1. CASE i = 1
      BY <1>1, <3>1
    <3>2. CASE i # 1
      BY <1>1, <3>2 DEF StackInv
    <3>. QED
      BY <3>1, <3>2
  <2>. QED
    BY <2>1
<1>. QED
  BY <1>1, <1>2, NextStack

LEMMA StackNext == StackInv /\ [Next]_vars => StackInv'
<1>. SUFFICES ASSUME StackInv, [Next]_vars PROVE StackInv'
  OBVIOUS
<1>1. ASSUME stack # << >>, prog' = prog, NEW act, Same(Top, act), SetTop(act)
      PROVE  StackInv'
  BY <1>1, TopIsOK, SameIsOK, SetTopKeeps
<1>2. stack # << >> => DOMAIN Top = Fields
  BY TopIsOK DEF ActOK, Shape
<1>14. ASSUME SkipIntrinsic PROVE StackInv'
  BY <1>14 DEF SkipIntrinsic, StackInv, IsSeq, ActOK, Shape, UpToDate, LessEq
<1>3. ASSUME NextFunction PROVE StackInv'
  <2>1. PICK act : act = Activation(Head(todo), EmptyInfo) /\ ActOK(act)
    BY NewIsOK
  <2>2. IsSeq(stack') /\ Len(stack') = 1 /\ stack'[1] = act
    <3>1. <<act>> \in Seq({act})
      OBVIOUS
    <3>. QED
      BY <1>3, <2>1, <3>1 DEF NextFunction, IsSeq
  <2>. QED
    BY <1>3, <2>1, <2>2, NextStack DEF NextFunction
<1>4. ASSUME TakeBlock PROVE StackInv'
  <2>1. stack # << >> /\ prog' = prog
    BY <1>4 DEF TakeBlock
  <2>2. PICK bb \in Top.worklist :
          SetTop([Top EXCEPT !.worklist = @ \ {bb}, !.at = "inst", !.bb = bb, !.pc = 1,
                             !.dfval = bbentryval(bb), !.entry[bb] = bbentryval(bb)])
    BY <1>4 DEF TakeBlock
  <2>3. PICK act : act = [Top EXCEPT !.worklist = @ \ {bb}, !.at = "inst", !.bb = bb,
                                     !.pc = 1, !.dfval = bbentryval(bb),
                                     !.entry[bb] = bbentryval(bb)]
    OBVIOUS
  <2>4. ActOK(act)
    BY <2>1, <2>3, TopIsOK, TakenIsOK
  <2>. QED
    BY <2>1, <2>2, <2>3, <2>4, SetTopKeeps
<1>5. ASSUME Transfer PROVE StackInv'
  <2>1. stack # << >> /\ prog' = prog /\ Top.at = "inst"
    BY <1>5 DEF Transfer, AtInst
  <2>2. PICK info, pc :
          SetTop([Top EXCEPT !.dfval = info, !.pc = pc])
    BY <1>5 DEF Transfer
  <2>3. Same(Top, [Top EXCEPT !.dfval = info, !.pc = pc])
    BY <1>2, <2>1 DEF Same, Fields
  <2>. QED
    BY <1>1, <2>1, <2>2, <2>3
<1>6. ASSUME Return PROVE StackInv'
  <2>1. stack # << >> /\ prog' = prog /\ Top.at = "inst"
    BY <1>6 DEF Return, AtInst
  <2>2. PICK act : SetTop(act) /\ Same(Top, act)
    <3>1. CASE IsRoot
      <4>1. Same(Top, [Top EXCEPT !.pc = @ + 1])
        BY <1>2, <2>1 DEF Same, Fields
      <4>. QED
        BY <1>6, <3>1, <4>1 DEF Return
    <3>2. CASE ~IsRoot
      <4>1. PICK info, pc, first, second :
              SetTop([Top EXCEPT !.dfval = info, !.pc = pc, !.retSets.first = first,
                                 !.retSets.second = second])
        BY <1>6, <3>2 DEF Return
      <4>2. Same(Top, [Top EXCEPT !.dfval = info, !.pc = pc, !.retSets.first = first,
                                  !.retSets.second = second])
        BY <1>2, <2>1 DEF Same, Fields
      <4>. QED
        BY <4>1, <4>2
    <3>. QED
      BY <3>1, <3>2
  <2>. QED
    BY <1>1, <2>1, <2>2
<1>7. ASSUME Resolve PROVE StackInv'
  <2>1. stack # << >> /\ prog' = prog /\ Top.at = "inst"
    BY <1>7 DEF Resolve, AtInst
  <2>2. PICK info, callees, args :
          SetTop([Top EXCEPT !.at = "call", !.dfval = info, !.callees = callees,
                             !.argsVec = args, !.alias = EmptyMap, !.flag = FALSE])
    BY <1>7 DEF Resolve
  <2>3. Same(Top, [Top EXCEPT !.at = "call", !.dfval = info, !.callees = callees,
                              !.argsVec = args, !.alias = EmptyMap, !.flag = FALSE])
    BY <1>2, <2>1 DEF Same, Fields
  <2>. QED
    BY <1>1, <2>1, <2>2, <2>3
<1>8. ASSUME Enter PROVE StackInv'
  <2>1. stack # << >> /\ prog' = prog /\ Top.at = "call"
    BY <1>8 DEF Enter, AtCall
  <2>2. PICK f, initval :
          stack' = <<Activation(f, initval), [Top EXCEPT !.callees = @ \ {f}]>> \o Tail(stack)
    BY <1>8 DEF Enter
  <2>3. PICK act : act = Activation(f, initval) /\ ActOK(act)
    BY NewIsOK
  <2>4. PICK caller : caller = [Top EXCEPT !.callees = @ \ {f}] /\ ActOK(caller)
    <3>1. Same(Top, [Top EXCEPT !.callees = @ \ {f}])
      BY <1>2, <2>1 DEF Same, Fields
    <3>. QED
      BY <2>1, <3>1, TopIsOK, SameIsOK
  <2>5. /\ IsSeq(stack') /\ Len(stack') = Len(stack) + 1 /\ Len(stack) \in Nat \ {0}
        /\ stack'[1] = act /\ stack'[2] = caller
        /\ \A i \in 3 .. Len(stack) + 1 : stack'[i] = stack[i - 1]
    BY <2>1, <2>2, <2>3, <2>4, Nested DEF StackInv
  <2>6. ASSUME NEW i \in 1 .. Len(stack')
        PROVE  ActOK(stack'[i])
    <3>1. CASE i \in {1, 2}
      BY <2>3, <2>4, <2>5, <3>1
    <3>2. CASE i \notin {1, 2}
      <4>1. i \in 3 .. Len(stack) + 1 /\ i - 1 \in 1 .. Len(stack)
        BY <2>5, <3>2
      <4>. QED
        BY <2>5, <4>1 DEF StackInv
    <3>. QED
      BY <3>1, <3>2
  <2>. QED
    BY <2>1, <2>5, <2>6, NextStack
<1>9. ASSUME Leave PROVE StackInv'
  <2>1. stack # << >> /\ prog' = prog /\ Len(stack) # 1
    BY <1>9 DEF Leave, IsRoot
  <2>2. PICK info, cells :
          stack' = <<[stack[2] EXCEPT !.dfval.pts = info, !.alias = cells, !.flag = TRUE]>>
                     \o Tail(Tail(stack))
    BY <1>9 DEF Leave
  <2>3. /\ IsSeq(Tail(stack)) /\ Len(Tail(stack)) = Len(stack) - 1
        /\ Len(stack) \in Nat \ {0}
        /\ \A i \in 1 .. Len(stack) - 1 : Tail(stack)[i] = stack[i + 1]
    BY <2>1, Popped DEF StackInv
  <2>. DEFINE s == Tail(stack)
  <2>. HIDE DEF s
  <2>4. PICK n \in Nat \ {0} : Len(stack) = n + 1
    <3>1. PICK m \in Nat \ {0} : m = Len(stack) /\ m # 1
      BY <2>1, <2>3
    <3>2. m - 1 \in Nat \ {0} /\ Len(stack) = (m - 1) + 1
      BY <3>1
    <3>. QED
      BY <3>2
  <2>5. /\ IsSeq(s) /\ Len(s) = n /\ s # << >> /\ 2 \in 1 .. Len(stack)
        /\ \A i \in 1 .. n : s[i] = stack[i + 1]
    <3>1. IsSeq(s) /\ Len(s) = n /\ \A i \in 1 .. n : s[i] = stack[i + 1]
      BY <2>3, <2>4 DEF s
    <3>2. s # << >>
      BY <3>1
    <3>. QED
      BY <2>4, <3>1, <3>2
  <2>6. PICK caller :
          /\ caller = [stack[2] EXCEPT !.dfval.pts = info, !.alias = cells, !.flag = TRUE]
          /\ ActOK(caller)
    <3>1. ActOK(stack[2])
      BY <2>5 DEF StackInv
    <3>2. PICK act : act = stack[2] /\ ActOK(act) /\ DOMAIN act = Fields
      BY <3>1 DEF ActOK, Shape
    <3>3. Same(act, [act EXCEPT !.dfval.pts = info, !.alias = cells, !.flag = TRUE])
      BY <3>2 DEF Same, Fields
    <3>. QED
      BY <3>2, <3>3, SameIsOK
  <2>7. /\ IsSeq(stack') /\ Len(stack') = n /\ stack'[1] = caller
        /\ \A i \in 2 .. n : stack'[i] = s[i]
    <3>1. stack' = <<caller>> \o Tail(s)
      BY <2>2, <2>6 DEF s
    <3>. QED
      BY <2>4, <2>5, <3>1, Replaced
  <2>8. ASSUME NEW i \in 1 .. n
        PROVE  ActOK(stack'[i])
    <3>1. CASE i = 1
      BY <2>6, <2>7, <3>1
    <3>2. CASE i # 1
      <4>1. i \in 2 .. n /\ i + 1 \in 1 .. Len(stack)
        BY <2>4, <3>2
      <4>. QED
        BY <2>5, <2>7, <4>1 DEF StackInv
    <3>. QED
      BY <3>1, <3>2
  <2>. QED
    BY <2>1, <2>7, <2>8, NextStack
<1>10. ASSUME CallDone PROVE StackInv'
  <2>1. stack # << >> /\ prog' = prog /\ Top.at = "call"
    BY <1>10 DEF CallDone, AtCall
  <2>2. PICK cells, pc :
          SetTop([Top EXCEPT !.dfval.alias = cells, !.at = "inst", !.pc = pc,
                             !.argsVec = << >>, !.alias = EmptyMap, !.flag = FALSE])
    BY <1>10 DEF CallDone
  <2>3. Same(Top, [Top EXCEPT !.dfval.alias = cells, !.at = "inst", !.pc = pc,
                              !.argsVec = << >>, !.alias = EmptyMap, !.flag = FALSE])
    BY <1>2, <2>1 DEF Same, Fields
  <2>. QED
    BY <1>1, <2>1, <2>2, <2>3
<1>11. ASSUME EndBlock PROVE StackInv'
  <2>1. stack # << >> /\ prog' = prog /\ Top.at = "inst"
    BY <1>11 DEF EndBlock
  <2>2. PICK list :
          /\ list = IF Top.dfval # Top.exit[Top.bb]
                    THEN Top.worklist \cup
                           {b \in prog.blocks[Top.fn] : <<Top.bb, b>> \in prog.cfg}
                    ELSE Top.worklist
          /\ SetTop([Top EXCEPT !.exit[Top.bb] = Top.dfval, !.worklist = list,
                                !.at = "loop", !.bb = nullptr, !.pc = 1,
                                !.dfval = EmptyInfo])
    BY <1>11 DEF EndBlock
  <2>3. PICK act :
          /\ act = [Top EXCEPT !.exit[Top.bb] = Top.dfval, !.worklist = list,
                               !.at = "loop", !.bb = nullptr, !.pc = 1,
                               !.dfval = EmptyInfo]
          /\ ActOK(act)
    BY <2>1, <2>2, TopIsOK, EndedIsOK
  <2>. QED
    BY <2>1, <2>2, <2>3, SetTopKeeps
<1>12. ASSUME FunctionDone PROVE StackInv'
  <2>1. stack' = << >> /\ << >> \in Seq({}) /\ prog' = prog
    BY <1>12 DEF FunctionDone
  <2>2. IsSeq(stack') /\ Len(stack') = 0
    BY <2>1 DEF IsSeq
  <2>. QED
    BY <2>1, <2>2, NextStack
<1>13. CASE UNCHANGED vars
  BY <1>13 DEF vars, StackInv, IsSeq, ActOK, Shape, UpToDate, LessEq
<1>. QED
  BY <1>3, <1>4, <1>5, <1>6, <1>7, <1>8, <1>9, <1>10, <1>11, <1>12, <1>13,
     <1>14 DEF Next

\* In every activation of compForwardDataflow, of whatever depth, a block off the
\* worklist has seen the exit values of its predecessors: for every module, and
\* although handleCallInst re-enters the solver in the middle of a turn.
THEOREM NestedWorklistsSuffice == Spec => []OffWorklistUpToDate
<1>1. Init => StackInv
  <2>. SUFFICES ASSUME Init PROVE StackInv
    OBVIOUS
  <2>1. stack = << >> /\ << >> \in Seq({})
    BY DEF Init
  <2>. QED
    BY <2>1 DEF StackInv, IsSeq
<1>2. StackInv => OffWorklistUpToDate
  <2>. SUFFICES ASSUME StackInv PROVE OffWorklistUpToDate
    OBVIOUS
  <2>1. DOMAIN stack = 1 .. Len(stack)
    BY DEF StackInv, IsSeq
  <2>. QED
    BY <2>1 DEF StackInv, ActOK, UpToDate, OffWorklistUpToDate
<1>. QED
  BY <1>1, <1>2, StackNext, PTL DEF Spec

-----------------------------------------------------------------------------
(***************************************************************************)
(* Who is on the stack.                                                    *)
(***************************************************************************)

\* An activation of a function, which enters none but functions with a body.
ActTyped(act) ==
  /\ act.fn \in Funcs(prog)
  /\ act.at \in {"loop", "inst", "call"}
  /\ act.callees \subseteq Funcs(prog) \ Declared(prog)
  /\ act.pc \in Nat \ {0}

\* All but the innermost wait in a call; only the outermost may be of a function
\* without a body.
Placed(act, i, depth) ==
  /\ i > 1 => act.at = "call"
  /\ i < depth => act.fn \notin Declared(prog)

StackTyped ==
  \A i \in 1 .. Len(stack) : ActTyped(stack[i]) /\ Placed(stack[i], i, Len(stack))

TypeInv ==
  /\ prog \in Modules
  /\ todo \in Seq(Funcs(prog))
  /\ StackTyped
  /\ lineFuncList \subseteq Nat \X Funcs(prog)

LEMMA TopIsTyped ==
  ASSUME StackInv, StackTyped, stack # << >>
  PROVE  /\ ActTyped(Top) /\ Shape(Top) /\ DOMAIN Top = Fields
         /\ Len(stack) \in Nat \ {0}
         /\ 1 < Len(stack) => Top.fn \notin Declared(prog)
<1>1. Len(stack) \in Nat \ {0}
  BY Popped DEF StackInv
<1>2. ActTyped(stack[1]) /\ Placed(stack[1], 1, Len(stack))
  BY <1>1 DEF StackTyped
<1>. QED
  BY <1>1, <1>2, TopIsOK DEF Placed, Top, ActOK, Shape

\* The innermost activation changes, its function stays.
LEMMA SetTopTyped ==
  ASSUME StackInv, StackTyped, stack # << >>, prog' = prog,
         NEW act, ActTyped(act), act.fn = Top.fn, SetTop(act)
  PROVE  StackTyped'
<1>1. /\ Len(stack') = Len(stack) /\ Len(stack) \in Nat \ {0}
      /\ stack'[1] = act
      /\ \A i \in 2 .. Len(stack) : stack'[i] = stack[i]
  BY Replaced DEF StackInv, SetTop
<1>2. ASSUME NEW i \in 1 .. Len(stack)
      PROVE  ActTyped(stack'[i]) /\ Placed(stack'[i], i, Len(stack))
  <2>1. CASE i = 1
    BY <1>1, <2>1, TopIsTyped DEF Placed
  <2>2. CASE i # 1
    BY <1>1, <2>2 DEF StackTyped
  <2>. QED
    BY <2>1, <2>2
<1>. QED
  BY <1>1, <1>2 DEF StackTyped, ActTyped, Placed, Funcs, Declared

\* The instruction the innermost activation is at.
LEMMA InstIsInModule ==
  ASSUME StackInv, StackTyped, prog \in Modules, AtInst
  PROVE  inst.op = "call" => inst.line \in Nat
<1>1. ActTyped(Top) /\ Shape(Top) /\ Top.at = "inst" /\ Top.pc <= Len(Code)
  BY TopIsTyped DEF AtInst
<1>2. Top.fn \in Range(prog.order) /\ Top.bb \in prog.blocks[Top.fn] /\ Top.pc \in Nat \ {0}
  BY <1>1 DEF ActTyped, Shape, Funcs
<1>3. /\ Code \in Seq(Range(Code))
      /\ \A i \in DOMAIN Code : Code[i].op = "call" => Code[i].line \in Nat
  BY <1>2, ModulesAssumption DEF Code
<1>4. Top.pc \in DOMAIN Code
  BY <1>1, <1>2, <1>3
<1>. QED
  BY <1>3, <1>4 DEF inst

LEMMA TypeNext == StackInv /\ TypeInv /\ [Next]_vars => TypeInv'
<1>. SUFFICES ASSUME StackInv, TypeInv, [Next]_vars PROVE TypeInv'
  OBVIOUS
<1>1. StackTyped /\ prog \in Modules
  BY DEF TypeInv
<1>2. stack # << >> => /\ ActTyped(Top) /\ Shape(Top) /\ DOMAIN Top = Fields
                       /\ Len(stack) \in Nat \ {0}
                       /\ 1 < Len(stack) => Top.fn \notin Declared(prog)
  BY <1>1, TopIsTyped
\* All the other variables stay.
<1>3. ASSUME UNCHANGED <<prog, todo, lineFuncList>>, StackTyped' PROVE TypeInv'
  BY <1>3 DEF TypeInv, Funcs
<1>4. ASSUME stack # << >>, prog' = prog, NEW act, SetTop(act),
             act.fn = Top.fn, ActTyped(act)
      PROVE  StackTyped'
  BY <1>1, <1>4, SetTopTyped
<1>5. ASSUME SkipIntrinsic PROVE TypeInv'
  <2>1. todo \in Seq(Funcs(prog)) /\ todo # << >> /\ todo' = Tail(todo) /\ UNCHANGED <<prog, stack, lineFuncList>>
    BY <1>5 DEF SkipIntrinsic, TypeInv
  <2>2. todo' \in Seq(Funcs(prog))
    BY <2>1
  <2>. QED
    BY <2>1, <2>2 DEF TypeInv, StackTyped, ActTyped, Placed, Funcs, Declared
<1>6. ASSUME NextFunction PROVE TypeInv'
  <2>1. /\ todo \in Seq(Funcs(prog)) /\ todo # << >> /\ todo' = Tail(todo)
        /\ UNCHANGED <<prog, lineFuncList>>
        /\ stack' = <<Activation(Head(todo), EmptyInfo)>>
    BY <1>6 DEF NextFunction, TypeInv
  <2>2. todo' \in Seq(Funcs(prog)) /\ Head(todo) \in Funcs(prog)
    BY <2>1
  <2>3. PICK act : act = Activation(Head(todo), EmptyInfo)
    OBVIOUS
  <2>4. ActTyped(act)
    BY <2>2, <2>3 DEF ActTyped, Activation
  <2>5. Len(stack') = 1 /\ stack'[1] = act
    BY <2>1, <2>3
  <2>6. StackTyped'
    BY <2>1, <2>4, <2>5 DEF StackTyped, ActTyped, Placed, Funcs, Declared
  <2>. QED
    BY <2>1, <2>2, <2>6 DEF TypeInv, Funcs
<1>7. ASSUME TakeBlock PROVE TypeInv'
  <2>1. stack # << >> /\ UNCHANGED <<prog, todo, lineFuncList>>
    BY <1>7 DEF TakeBlock
  <2>2. PICK bb, val, list, entry :
          SetTop([Top EXCEPT !.worklist = list, !.at = "inst", !.bb = bb, !.pc = 1,
                             !.dfval = val, !.entry = entry])
    <3>1. PICK bb \in Top.worklist :
            SetTop([Top EXCEPT !.worklist = @ \ {bb}, !.at = "inst", !.bb = bb, !.pc = 1,
                               !.dfval = bbentryval(bb), !.entry[bb] = bbentryval(bb)])
      BY <1>7 DEF TakeBlock
    <3>. QED
      BY <3>1
  <2>3. PICK act : act = [Top EXCEPT !.worklist = list, !.at = "inst", !.bb = bb, !.pc = 1,
                                     !.dfval = val, !.entry = entry]
    OBVIOUS
  <2>4. act.fn = Top.fn /\ ActTyped(act)
    BY <1>2, <2>1, <2>3 DEF ActTyped, Fields
  <2>. QED
    BY <1>3, <1>4, <2>1, <2>2, <2>3, <2>4
<1>8. ASSUME Transfer PROVE TypeInv'
  <2>1. stack # << >> /\ UNCHANGED <<prog, todo, lineFuncList>>
    BY <1>8 DEF Transfer, AtInst
  <2>2. PICK info : SetTop([Top EXCEPT !.dfval = info, !.pc = @ + 1])
    BY <1>8 DEF Transfer
  <2>3. PICK act : act = [Top EXCEPT !.dfval = info, !.pc = @ + 1]
    OBVIOUS
  <2>4. act.fn = Top.fn /\ ActTyped(act)
    BY <1>2, <2>1, <2>3 DEF ActTyped, Fields
  <2>. QED
    BY <1>3, <1>4, <2>1, <2>2, <2>3, <2>4
<1>9. ASSUME Return PROVE TypeInv'
  <2>1. stack # << >> /\ UNCHANGED <<prog, todo, lineFuncList>>
    BY <1>9 DEF Return, AtInst
  <2>2. PICK act : SetTop(act) /\ act.fn = Top.fn /\ ActTyped(act)
    <3>1. CASE IsRoot
      <4>1. PICK act : act = [Top EXCEPT !.pc = @ + 1]
        OBVIOUS
      <4>2. act.fn = Top.fn /\ ActTyped(act)
        BY <1>2, <2>1, <4>1 DEF ActTyped, Fields
      <4>. QED
        BY <1>9, <3>1, <4>1, <4>2 DEF Return
    <3>2. CASE ~IsRoot
      <4>1. PICK info, sets : SetTop([Top EXCEPT !.dfval = info, !.pc = @ + 1, !.retSets = sets])
        <5>1. PICK info, first, second :
                SetTop([Top EXCEPT !.dfval = info, !.pc = @ + 1, !.retSets.first = first,
                                   !.retSets.second = second])
          BY <1>9, <3>2 DEF Return
        <5>. QED
          BY <5>1
      <4>2. PICK act : act = [Top EXCEPT !.dfval = info, !.pc = @ + 1, !.retSets = sets]
        OBVIOUS
      <4>3. act.fn = Top.fn /\ ActTyped(act)
        BY <1>2, <2>1, <4>2 DEF ActTyped, Fields
      <4>. QED
        BY <4>1, <4>2, <4>3
    <3>. QED
      BY <3>1, <3>2
  <2>. QED
    BY <1>3, <1>4, <2>1, <2>2
<1>10. ASSUME Resolve PROVE TypeInv'
  <2>1. stack # << >> /\ UNCHANGED <<prog, todo>>
    BY <1>10 DEF Resolve, AtInst
  <2>2. PICK callees, info, args :
          /\ callees \subseteq Funcs(prog)
          /\ lineFuncList' = lineFuncList \cup {<<inst.line, f>> : f \in callees}
          /\ SetTop([Top EXCEPT !.at = "call", !.dfval = info,
                       !.callees = callees \ Declared(prog), !.argsVec = args,
                       !.alias = EmptyMap, !.flag = FALSE])
    <3>. HIDE DEF SetTop, Funcs, Declared
    <3>. QED
      BY <1>10 DEF Resolve
  <2>3. inst.line \in Nat
    BY <1>1, <1>10, InstIsInModule DEF Resolve
  <2>4. lineFuncList' \subseteq Nat \X Funcs(prog)
    BY <2>2, <2>3 DEF TypeInv
  <2>5. PICK act : act = [Top EXCEPT !.at = "call", !.dfval = info,
                       !.callees = callees \ Declared(prog), !.argsVec = args,
                       !.alias = EmptyMap, !.flag = FALSE]
    OBVIOUS
  <2>6. act.fn = Top.fn /\ ActTyped(act)
    BY <1>2, <2>1, <2>2, <2>5 DEF ActTyped, Fields
  <2>7. StackTyped'
    BY <1>4, <2>1, <2>2, <2>5, <2>6
  <2>. QED
    BY <2>1, <2>4, <2>7 DEF TypeInv, Funcs
<1>11. ASSUME Enter PROVE TypeInv'
  <2>1. stack # << >> /\ UNCHANGED <<prog, todo, lineFuncList>> /\ Top.at = "call"
    BY <1>11 DEF Enter, AtCall
  <2>2. PICK f, initval :
          /\ f \in Top.callees
          /\ stack' = <<Activation(f, initval), [Top EXCEPT !.callees = @ \ {f}]>> \o Tail(stack)
    BY <1>11 DEF Enter
  <2>3. PICK act : act = Activation(f, initval)
    OBVIOUS
  <2>4. PICK caller : caller = [Top EXCEPT !.callees = @ \ {f}]
    OBVIOUS
  <2>5. f \in Funcs(prog) \ Declared(prog)
    BY <1>2, <2>1, <2>2 DEF ActTyped
  <2>6. ActTyped(act) /\ act.fn = f
    BY <2>3, <2>5 DEF ActTyped, Activation
  <2>7. ActTyped(caller) /\ caller.at = "call" /\ caller.fn = Top.fn
    BY <1>2, <2>1, <2>4 DEF ActTyped, Fields
  <2>8. /\ Len(stack') = Len(stack) + 1 /\ Len(stack) \in Nat \ {0}
        /\ stack'[1] = act /\ stack'[2] = caller
        /\ \A i \in 3 .. Len(stack) + 1 : stack'[i] = stack[i - 1]
    BY <2>1, <2>2, <2>3, <2>4, Nested DEF StackInv
  <2>9. ASSUME NEW i \in 1 .. Len(stack) + 1
        PROVE  ActTyped(stack'[i]) /\ Placed(stack'[i], i, Len(stack) + 1)
    <3>1. CASE i = 1
      BY <2>5, <2>6, <2>8, <3>1 DEF Placed
    <3>2. CASE i = 2
      BY <1>2, <2>1, <2>7, <2>8, <3>2 DEF Placed
    <3>3. CASE i \notin {1, 2}
      <4>1. i \in 3 .. Len(stack) + 1 /\ i - 1 \in 1 .. Len(stack)
        BY <2>8, <3>3
      <4>2. ActTyped(stack[i - 1]) /\ Placed(stack[i - 1], i - 1, Len(stack))
        BY <1>1, <4>1 DEF StackTyped
      <4>. QED
        BY <2>8, <4>1, <4>2 DEF Placed
    <3>. QED
      BY <3>1, <3>2, <3>3
  <2>10. StackTyped'
    BY <2>1, <2>8, <2>9 DEF StackTyped, ActTyped, Placed, Funcs, Declared
  <2>. QED
    BY <1>3, <2>1, <2>10
<1>12. ASSUME Leave PROVE TypeInv'
  <2>1. stack # << >> /\ UNCHANGED <<prog, todo, lineFuncList>> /\ Len(stack) # 1
    BY <1>12 DEF Leave, IsRoot
  <2>2. PICK info, cells :
          stack' = <<[stack[2] EXCEPT !.dfval = info, !.alias = cells, !.flag = TRUE]>>
                     \o Tail(Tail(stack))
    <3>1. PICK pts, cells :
            stack' = <<[stack[2] EXCEPT !.dfval.pts = pts, !.alias = cells, !.flag = TRUE]>>
                       \o Tail(Tail(stack))
      BY <1>12 DEF Leave
    <3>. QED
      BY <3>1
  <2>3. PICK n \in Nat \ {0} : Len(stack) = n + 1
    <3>1. PICK m \in Nat \ {0} : m = Len(stack) /\ m # 1
      BY <1>2, <2>1
    <3>2. m - 1 \in Nat \ {0} /\ Len(stack) = (m - 1) + 1
      BY <3>1
    <3>. QED
      BY <3>2
  <2>. DEFINE s == Tail(stack)
  <2>4. IsSeq(s) /\ Len(s) = n /\ \A i \in 1 .. n : s[i] = stack[i + 1]
    BY <2>1, <2>3, Popped DEF StackInv
  <2>. HIDE DEF s
  <2>5. s # << >>
    BY <2>4
  <2>6. PICK caller : caller = [stack[2] EXCEPT !.dfval = info, !.alias = cells, !.flag = TRUE]
    OBVIOUS
  <2>7. PICK old : /\ old = stack[2] /\ DOMAIN old = Fields
                   /\ ActTyped(old) /\ Placed(old, 2, n + 1)
    BY <1>1, <2>3 DEF StackTyped, StackInv, ActOK, Shape
  <2>8. ActTyped(caller) /\ caller.fn = old.fn
    BY <2>6, <2>7 DEF ActTyped, Fields
  <2>9. /\ Len(stack') = n /\ stack'[1] = caller
        /\ \A i \in 2 .. n : stack'[i] = stack[i + 1]
    <3>1. stack' = <<caller>> \o Tail(s)
      BY <2>2, <2>6 DEF s
    <3>2. /\ Len(stack') = n /\ stack'[1] = caller
          /\ \A i \in 2 .. n : stack'[i] = s[i]
      BY <2>4, <2>5, <3>1, Replaced
    <3>. QED
      BY <2>4, <3>2
  <2>10. ASSUME NEW i \in 1 .. n
         PROVE  ActTyped(stack'[i]) /\ Placed(stack'[i], i, n)
    <3>1. CASE i = 1
      BY <2>7, <2>8, <2>9, <3>1 DEF Placed
    <3>2. CASE i # 1
      <4>1. i \in 2 .. n /\ i + 1 \in 1 .. Len(stack)
        BY <2>3, <3>2
      <4>2. ActTyped(stack[i + 1]) /\ Placed(stack[i + 1], i + 1, n + 1)
        BY <1>1, <2>3, <4>1 DEF StackTyped
      <4>. QED
        BY <2>9, <4>1, <4>2 DEF Placed
    <3>. QED
      BY <3>1, <3>2
  <2>11. StackTyped'
    BY <2>1, <2>9, <2>10 DEF StackTyped, ActTyped, Placed, Funcs, Declared
  <2>. QED
    BY <1>3, <2>1, <2>11
<1>13. ASSUME CallDone PROVE TypeInv'
  <2>1. stack # << >> /\ UNCHANGED <<prog, todo, lineFuncList>>
    BY <1>13 DEF CallDone, AtCall
  <2>2. PICK info :
          SetTop([Top EXCEPT !.dfval = info, !.at = "inst", !.pc = @ + 1,
                             !.argsVec = << >>, !.alias = EmptyMap, !.flag = FALSE])
    <3>1. PICK cells :
            SetTop([Top EXCEPT !.dfval.alias = cells, !.at = "inst", !.pc = @ + 1,
                               !.argsVec = << >>, !.alias = EmptyMap, !.flag = FALSE])
      BY <1>13 DEF CallDone
    <3>. QED
      BY <3>1
  <2>3. PICK act : act = [Top EXCEPT !.dfval = info, !.at = "inst", !.pc = @ + 1,
                             !.argsVec = << >>, !.alias = EmptyMap, !.flag = FALSE]
    OBVIOUS
  <2>4. act.fn = Top.fn /\ ActTyped(act)
    BY <1>2, <2>1, <2>3 DEF ActTyped, Fields
  <2>. QED
    BY <1>3, <1>4, <2>1, <2>2, <2>3, <2>4
<1>14. ASSUME EndBlock PROVE TypeInv'
  <2>1. stack # << >> /\ UNCHANGED <<prog, todo, lineFuncList>>
    BY <1>14 DEF EndBlock
  <2>2. PICK exit, list :
          SetTop([Top EXCEPT !.exit = exit, !.worklist = list, !.at = "loop",
                             !.bb = nullptr, !.pc = 1, !.dfval = EmptyInfo])
    <3>1. PICK list :
            SetTop([Top EXCEPT !.exit[Top.bb] = Top.dfval, !.worklist = list,
                               !.at = "loop", !.bb = nullptr, !.pc = 1,
                               !.dfval = EmptyInfo])
      BY <1>14 DEF EndBlock
    <3>. QED
      BY <3>1
  <2>3. PICK act : act = [Top EXCEPT !.exit = exit, !.worklist = list, !.at = "loop",
                             !.bb = nullptr, !.pc = 1, !.dfval = EmptyInfo]
    OBVIOUS
  <2>4. act.fn = Top.fn /\ ActTyped(act)
    BY <1>2, <2>1, <2>3 DEF ActTyped, Fields
  <2>. QED
    BY <1>3, <1>4, <2>1, <2>2, <2>3, <2>4
<1>15. ASSUME FunctionDone PROVE TypeInv'
  <2>1. stack' = << >> /\ UNCHANGED <<prog, todo, lineFuncList>>
    BY <1>15 DEF FunctionDone
  <2>2. StackTyped'
    BY <2>1 DEF StackTyped
  <2>. QED
    BY <1>3, <2>1, <2>2
<1>16. ASSUME UNCHANGED vars PROVE TypeInv'
  BY <1>16 DEF vars, TypeInv, StackTyped, ActTyped, Placed, Funcs, Declared
<1>. QED
  BY <1>5, <1>6, <1>7, <1>8, <1>9, <1>10, <1>11, <1>12, <1>13, <1>14, <1>15, <1>16 DEF Next

\* However deep the analysis descends: only the innermost activation is between
\* two instructions or two blocks, no callee without a body is entered, and what
\* is reported is a function of the module at the line of a call.
THEOREM SoundTypeCorrect == SoundSpec => []SoundTypeOK
<1>1. SoundInit => StackInv /\ TypeInv
  <2>. SUFFICES ASSUME Init PROVE StackInv /\ TypeInv
    BY DEF SoundInit
  <2>1. stack = << >> /\ Len(stack) = 0 /\ << >> \in Seq({})
    BY DEF Init
  <2>2. StackInv
    BY <2>1 DEF StackInv, IsSeq
  <2>3. todo \in Seq(Funcs(prog))
    BY ModulesAssumption DEF Init, Funcs
  <2>. QED
    BY <2>1, <2>2, <2>3 DEF Init, TypeInv, StackTyped
<1>2. [Analyse \/ Run]_soundVars => [Next]_vars
  BY DEF Analyse, Run, soundVars
<1>3. StackInv /\ TypeInv /\ [Next]_vars => (StackInv /\ TypeInv)'
  BY StackNext, TypeNext
<1>4. StackInv /\ TypeInv => SoundTypeOK
  <2>. SUFFICES ASSUME StackInv, TypeInv PROVE SoundTypeOK
    OBVIOUS
  <2>1. DOMAIN stack = 1 .. Len(stack) /\ Len(stack) \in Nat
    BY DEF StackInv, IsSeq
  <2>2. ASSUME NEW i \in 1 .. Len(stack)
        PROVE  /\ ActTyped(stack[i]) /\ Shape(stack[i]) /\ Placed(stack[i], i, Len(stack))
    BY DEF StackInv, TypeInv, StackTyped, ActOK
  <2>. QED
    BY <2>1, <2>2 DEF SoundTypeOK, ActTyped, Shape, Placed, TypeInv
<1>. QED
  BY <1>1, <1>2, <1>3, <1>4, PTL DEF SoundSpec
-----------------------------------------------------------------------------
(***************************************************************************)
(* Entry values.                                                           *)
(***************************************************************************)

\* What holds at the start of the blocks of an activation is not given up.
Kept(old, new) ==
  \A b \in DOMAIN old.entry :
    Within(old.entry[b].pts, new.entry[b].pts) /\ Within(old.entry[b].alias, new.entry[b].alias)

LEMMA SameEntryIsKept ==
  ASSUME NEW old, NEW new, new.entry = old.entry
  PROVE  Kept(old, new)
BY DEF Kept, Within

LEMMA PlusKeeps ==
  ASSUME NEW map, NEW more
  PROVE  Within(map, Plus(map, more))
BY DEF Within, Plus, At

LEMMA TakenIsKept ==
  ASSUME NEW act, NEW bb \in DOMAIN Top.entry,
         act.entry = [Top.entry EXCEPT ![bb] = bbentryval(bb)]
  PROVE  Kept(Top, act)
<1>1. PICK pts, cells : /\ bbentryval(bb).pts = Plus(Top.entry[bb].pts, pts)
                        /\ bbentryval(bb).alias = Plus(Top.entry[bb].alias, cells)
  BY DEF bbentryval, extend
<1>2. ASSUME NEW b \in DOMAIN Top.entry
      PROVE  /\ Within(Top.entry[b].pts, act.entry[b].pts)
             /\ Within(Top.entry[b].alias, act.entry[b].alias)
  <2>1. CASE b = bb
    BY <1>1, <2>1, PlusKeeps
  <2>2. CASE b # bb
    BY <2>2 DEF Within
  <2>. QED
    BY <2>1, <2>2
<1>. QED
  BY <1>2 DEF Kept

\* The activations on the stack before and after a step, the outermost first.
AllKept ==
  \A d \in 1 .. Len(stack) : d <= Len(stack') =>
    Kept(AtDepth(stack, d), AtDepth(stack', d))

LEMMA SetTopKept ==
  ASSUME StackInv, stack # << >>, NEW act, Kept(Top, act), SetTop(act)
  PROVE  AllKept
<1>1. /\ Len(stack') = Len(stack) /\ Len(stack) \in Nat \ {0}
      /\ stack'[1] = act
      /\ \A i \in 2 .. Len(stack) : stack'[i] = stack[i]
  BY Replaced DEF StackInv, SetTop
<1>2. ASSUME NEW i \in 1 .. Len(stack)
      PROVE  Kept(stack[i], stack'[i])
  BY <1>1, SameEntryIsKept DEF Top
<1>3. \A d \in 1 .. Len(stack) : Len(stack) + 1 - d \in 1 .. Len(stack)
  BY <1>1
<1>. QED
  BY <1>1, <1>2, <1>3 DEF AllKept, AtDepth

LEMMA StepKeeps == StackInv /\ [Next]_vars => AllKept
<1>. SUFFICES ASSUME StackInv, [Next]_vars PROVE AllKept
  OBVIOUS
<1>1. ASSUME stack # << >>, NEW act, SetTop(act), act.entry = Top.entry
      PROVE  AllKept
  BY <1>1, SameEntryIsKept, SetTopKept
<1>2. stack # << >> => DOMAIN Top = Fields
  BY TopIsOK DEF ActOK, Shape
<1>3. ASSUME stack' = stack PROVE AllKept
  BY <1>3, SameEntryIsKept DEF AllKept
<1>4. ASSUME stack = << >> PROVE AllKept
  BY <1>4 DEF AllKept
<1>5. ASSUME TakeBlock PROVE AllKept
  <2>1. PICK bb \in Top.worklist :
          SetTop([Top EXCEPT !.worklist = @ \ {bb}, !.at = "inst", !.bb = bb, !.pc = 1,
                             !.dfval = bbentryval(bb), !.entry[bb] = bbentryval(bb)])
    BY <1>5 DEF TakeBlock
  <2>2. PICK act : act = [Top EXCEPT !.worklist = @ \ {bb}, !.at = "inst", !.bb = bb,
                                     !.pc = 1, !.dfval = bbentryval(bb),
                                     !.entry[bb] = bbentryval(bb)]
    OBVIOUS
  <2>3. stack # << >> /\ bb \in DOMAIN Top.entry
    BY <1>5, TopIsOK DEF TakeBlock, ActOK, Shape
  <2>4. act.entry = [Top.entry EXCEPT ![bb] = bbentryval(bb)]
    BY <1>2, <2>2, <2>3 DEF Fields
  <2>. QED
    BY <2>1, <2>2, <2>3, <2>4, TakenIsKept, SetTopKept
<1>6. ASSUME Transfer \/ Return \/ Resolve \/ CallDone \/ EndBlock
      PROVE  stack # << >> /\ \E act : SetTop(act) /\ act.entry = Top.entry
  <2>1. stack # << >>
    BY <1>6 DEF Transfer, Return, Resolve, CallDone, EndBlock, AtInst, AtCall
  <2>2. CASE Transfer
    <3>1. PICK info, pc : SetTop([Top EXCEPT !.dfval = info, !.pc = pc])
      BY <2>2 DEF Transfer
    <3>2. [Top EXCEPT !.dfval = info, !.pc = pc].entry = Top.entry
      BY <1>2, <2>1 DEF Fields
    <3>. QED
      BY <2>1, <3>1, <3>2
  <2>3. CASE Return
    <3>1. CASE IsRoot
      <4>1. [Top EXCEPT !.pc = @ + 1].entry = Top.entry
        BY <1>2, <2>1 DEF Fields
      <4>. QED
        BY <2>1, <2>3, <3>1, <4>1 DEF Return
    <3>2. CASE ~IsRoot
      <4>1. PICK info, pc, first, second :
              SetTop([Top EXCEPT !.dfval = info, !.pc = pc, !.retSets.first = first,
                                 !.retSets.second = second])
        BY <2>3, <3>2 DEF Return
      <4>2. [Top EXCEPT !.dfval = info, !.pc = pc, !.retSets.first = first,
                        !.retSets.second = second].entry = Top.entry
        BY <1>2, <2>1 DEF Fields
      <4>. QED
        BY <2>1, <4>1, <4>2
    <3>. QED
      BY <3>1, <3>2
  <2>4. CASE Resolve
    <3>1. PICK info, callees, args :
            SetTop([Top EXCEPT !.at = "call", !.dfval = info, !.callees = callees,
                               !.argsVec = args, !.alias = EmptyMap, !.flag = FALSE])
      BY <2>4 DEF Resolve
    <3>2. [Top EXCEPT !.at = "call", !.dfval = info, !.callees = callees, !.argsVec = args,
                      !.alias = EmptyMap, !.flag = FALSE].entry = Top.entry
      BY <1>2, <2>1 DEF Fields
    <3>. QED
      BY <2>1, <3>1, <3>2
  <2>5. CASE CallDone
    <3>1. PICK cells, pc :
            SetTop([Top EXCEPT !.dfval.alias = cells, !.at = "inst", !.pc = pc,
                               !.argsVec = << >>, !.alias = EmptyMap, !.flag = FALSE])
      BY <2>5 DEF CallDone
    <3>2. [Top EXCEPT !.dfval.alias = cells, !.at = "inst", !.pc = pc, !.argsVec = << >>,
                      !.alias = EmptyMap, !.flag = FALSE].entry = Top.entry
      BY <1>2, <2>1 DEF Fields
    <3>. QED
      BY <2>1, <3>1, <3>2
  <2>6. CASE EndBlock
    <3>1. PICK list :
            SetTop([Top EXCEPT !.exit[Top.bb] = Top.dfval, !.worklist = list, !.at = "loop",
                               !.bb = nullptr, !.pc = 1, !.dfval = EmptyInfo])
      BY <2>6 DEF EndBlock
    <3>2. [Top EXCEPT !.exit[Top.bb] = Top.dfval, !.worklist = list, !.at = "loop",
                      !.bb = nullptr, !.pc = 1, !.dfval = EmptyInfo].entry = Top.entry
      BY <1>2, <2>1 DEF Fields
    <3>. QED
      BY <2>1, <3>1, <3>2
  <2>. QED
    BY <1>6, <2>2, <2>3, <2>4, <2>5, <2>6
<1>7. ASSUME Enter PROVE AllKept
  <2>1. stack # << >>
    BY <1>7 DEF Enter, AtCall
  <2>2. PICK f, act :
          stack' = <<act, [Top EXCEPT !.callees = @ \ {f}]>> \o Tail(stack)
    BY <1>7 DEF Enter
  <2>3. PICK caller : caller = [Top EXCEPT !.callees = @ \ {f}] /\ caller.entry = Top.entry
    <3>1. [Top EXCEPT !.callees = @ \ {f}].entry = Top.entry
      BY <1>2, <2>1 DEF Fields
    <3>. QED
      BY <3>1
  <2>4. /\ Len(stack') = Len(stack) + 1 /\ Len(stack) \in Nat \ {0}
        /\ stack'[2] = caller
        /\ \A i \in 3 .. Len(stack) + 1 : stack'[i] = stack[i - 1]
    BY <2>1, <2>2, <2>3, Nested DEF StackInv
  <2>5. ASSUME NEW d \in 1 .. Len(stack)
        PROVE  Kept(AtDepth(stack, d), AtDepth(stack', d))
    <3>1. CASE d = Len(stack)
      <4>1. AtDepth(stack, d) = Top /\ AtDepth(stack', d) = caller
        BY <2>4, <3>1 DEF AtDepth, Top
      <4>. QED
        BY <2>3, <4>1, SameEntryIsKept
    <3>2. CASE d # Len(stack)
      <4>1. /\ Len(stack) + 1 + 1 - d \in 3 .. Len(stack) + 1
            /\ Len(stack) + 1 + 1 - d - 1 = Len(stack) + 1 - d
        BY <2>4, <3>2
      <4>2. AtDepth(stack', d) = AtDepth(stack, d)
        BY <2>4, <4>1 DEF AtDepth
      <4>. QED
        BY <4>2, SameEntryIsKept
    <3>. QED
      BY <3>1, <3>2
  <2>. QED
    BY <2>5 DEF AllKept
<1>8. ASSUME Leave PROVE AllKept
  <2>1. stack # << >> /\ Len(stack) # 1
    BY <1>8 DEF Leave, IsRoot
  <2>2. PICK info, cells :
          stack' = <<[stack[2] EXCEPT !.dfval.pts = info, !.alias = cells, !.flag = TRUE]>>
                     \o Tail(Tail(stack))
    BY <1>8 DEF Leave
  <2>3. PICK n \in Nat \ {0} : Len(stack) = n + 1
    <3>1. PICK m \in Nat \ {0} : m = Len(stack) /\ m # 1
      BY <2>1, Popped DEF StackInv
    <3>2. m - 1 \in Nat \ {0} /\ Len(stack) = (m - 1) + 1
      BY <3>1
    <3>. QED
      BY <3>2
  <2>. DEFINE s == Tail(stack)
  <2>4. IsSeq(s) /\ Len(s) = n /\ \A i \in 1 .. n : s[i] = stack[i + 1]
    BY <2>1, <2>3, Popped DEF StackInv
  <2>. HIDE DEF s
  <2>5. s # << >>
    BY <2>4
  <2>6. DOMAIN stack[2] = Fields
    BY <2>3 DEF StackInv, ActOK, Shape
  <2>7. PICK caller :
          /\ caller = [stack[2] EXCEPT !.dfval.pts = info, !.alias = cells, !.flag = TRUE]
          /\ caller.entry = stack[2].entry
    <3>1. PICK old : old = stack[2] /\ DOMAIN old = Fields
      BY <2>6
    <3>2. [old EXCEPT !.dfval.pts = info, !.alias = cells, !.flag = TRUE].entry = old.entry
      BY <3>1 DEF Fields
    <3>. QED
      BY <3>1, <3>2
  <2>8. /\ Len(stack') = n /\ stack'[1] = caller
        /\ \A i \in 2 .. n : stack'[i] = stack[i + 1]
    <3>1. stack' = <<caller>> \o Tail(s)
      BY <2>2, <2>7 DEF s
    <3>2. /\ Len(stack') = n /\ stack'[1] = caller
          /\ \A i \in 2 .. n : stack'[i] = s[i]
      BY <2>4, <2>5, <3>1, Replaced
    <3>. QED
      BY <2>4, <3>2
  <2>9. ASSUME NEW i \in 1 .. n
        PROVE  Kept(stack[i + 1], stack'[i])
    <3>1. CASE i = 1
      <4>1. i + 1 = 2
        BY <3>1
      <4>2. stack'[i].entry = stack[i + 1].entry
        BY <2>7, <2>8, <3>1, <4>1, Zenon
      <4>. QED
        BY <4>2, SameEntryIsKept
    <3>2. CASE i # 1
      <4>1. stack'[i].entry = stack[i + 1].entry
        BY <2>8, <3>2
      <4>. QED
        BY <4>1, SameEntryIsKept
    <3>. QED
      BY <3>1, <3>2
  <2>10. ASSUME NEW d \in 1 .. n
         PROVE  Kept(AtDepth(stack, d), AtDepth(stack', d))
    <3>1. n + 1 - d \in 1 .. n /\ n + 1 + 1 - d = n + 1 - d + 1
      OBVIOUS
    <3>. QED
      BY <2>3, <2>8, <2>9, <3>1 DEF AtDepth
  <2>. QED
    BY <2>3, <2>8, <2>10 DEF AllKept
<1>9. ASSUME FunctionDone PROVE AllKept
  BY <1>9 DEF FunctionDone, AllKept
<1>10. SkipIntrinsic \/ NextFunction => stack = << >>
  BY DEF SkipIntrinsic, NextFunction
<1>11. UNCHANGED vars => stack' = stack
  BY DEF vars
<1>. QED
  BY <1>1, <1>3, <1>4, <1>5, <1>6, <1>7, <1>8, <1>9, <1>10, <1>11 DEF Next

\* As long as an activation of compForwardDataflow is on the stack, the entry
\* values of its blocks only grow: for every module, with stores that clear what
\* the memory held and with callees analysed in the middle of a block.
THEOREM NothingForgotten == Spec => EntriesOnlyGrow
<1>1. Init => StackInv
  <2>1. Init => stack = << >> /\ << >> \in Seq({})
    BY DEF Init
  <2>. QED
    BY <2>1 DEF StackInv, IsSeq
<1>2. AllKept => \A d \in 1 .. Len(stack) : d <= Len(stack') =>
       LET old == AtDepth(stack, d).entry
           new == AtDepth(stack', d).entry
       IN  \A b \in DOMAIN old :
             Within(old[b].pts, new[b].pts) /\ Within(old[b].alias, new[b].alias)
  BY DEF AllKept, Kept
<1>. QED
  BY <1>1, <1>2, StackNext, StepKeeps, PTL DEF Spec, EntriesOnlyGrow

-----------------------------------------------------------------------------
(***************************************************************************)
(* The handlers stay within a solution of the flow-insensitive reference.  *)
(***************************************************************************)

\* What LLVM makes sure of for an instruction.
LEMMA InstWellFormed ==
  ASSUME NEW p \in Modules, NEW i \in Insts(p)
  PROVE  /\ i.op = "call" => /\ i.line \in Nat /\ i.args \in Seq(Range(i.args))
                             /\ nullptr \notin Range(i.args)
         /\ i.op = "phi" => IsFiniteSet(Range(i.in)) /\ nullptr \notin Range(i.in)
<1>1. PICK f \in Funcs(p) : i \in InstsOf(p, f)
  BY DEF Insts
<1>2. PICK b \in p.blocks[f] : i \in Range(p.code[b])
  BY <1>1 DEF InstsOf
<1>. QED
  BY <1>2, ModulesAssumption DEF Funcs

\* The reference has a solution for every module.
LEMMA ModulesFinite ==
  ASSUME NEW p \in Modules
  PROVE  FiniteModule(p)
<1>1. ASSUME NEW f \in Funcs(p)
      PROVE  IsFiniteSet(InstsOf(p, f)) /\ IsFiniteSet(Range(p.args[f]))
  <2>. DEFINE g == [b \in p.blocks[f] |-> Range(p.code[b])]
  <2>1. IsFiniteSet(p.blocks[f]) /\ \A b \in p.blocks[f] : p.code[b] \in Seq(Range(p.code[b]))
    BY ModulesAssumption DEF Funcs
  <2>2. \A b \in p.blocks[f] : IsFiniteSet(Range(p.code[b]))
    BY <2>1, FiniteRange
  <2>3. DOMAIN g = p.blocks[f] /\ \A b \in p.blocks[f] : g[b] = Range(p.code[b])
    OBVIOUS
  <2>4. InstsOf(p, f) = UNION {g[b] : b \in DOMAIN g}
    BY DEF InstsOf
  <2>. HIDE DEF g
  <2>5. IsFiniteSet(InstsOf(p, f))
    BY <2>1, <2>2, <2>3, <2>4, FiniteUnion
  <2>6. IsFiniteSet(Range(p.args[f]))
    BY FiniteRange, ModulesAssumption DEF Funcs
  <2>. QED
    BY <2>5, <2>6
<1>2. IsFiniteSet(Funcs(p))
  BY FiniteRange, ModulesAssumption DEF Funcs
<1>3. \A i \in Insts(p) : i.op = "call" => IsFiniteSet(Range(i.args))
  BY FiniteRange, InstWellFormed
<1>4. \A i \in Insts(p) : i.op = "phi" => IsFiniteSet(Range(i.in))
  BY InstWellFormed
<1>. QED
  BY <1>1, <1>2, <1>3, <1>4 DEF FiniteModule

\* A map of a PointToInfo says nothing that is not among the facts.
MapIn(facts, kind, map) == \A k \in DOMAIN map : map[k] \subseteq Held(facts, <<kind, k>>)

InfoIn(facts, info) ==
  /\ DOMAIN info = {"pts", "alias"}
  /\ MapIn(facts, "pts", info.pts)
  /\ MapIn(facts, "alias", info.alias)

LEMMA EmptyIn ==
  ASSUME NEW facts
  PROVE  InfoIn(facts, EmptyInfo) /\ MapIn(facts, "alias", EmptyMap)
BY DEF InfoIn, MapIn, EmptyInfo, EmptyMap

LEMMA PlusIn ==
  ASSUME NEW facts, NEW kind, NEW m1, MapIn(facts, kind, m1), NEW m2, MapIn(facts, kind, m2)
  PROVE  MapIn(facts, kind, Plus(m1, m2))
BY DEF MapIn, Plus, At

LEMMA SetIn ==
  ASSUME NEW facts, NEW kind, NEW map, MapIn(facts, kind, map), NEW keys, NEW vals,
         \A k \in keys : vals \subseteq Held(facts, <<kind, k>>)
  PROVE  MapIn(facts, kind, Set(map, keys, vals))
BY DEF MapIn, Set

LEMMA InfoPtsIn ==
  ASSUME NEW facts, NEW info, InfoIn(facts, info), NEW map, MapIn(facts, "pts", map)
  PROVE  InfoIn(facts, [info EXCEPT !.pts = map])
BY DEF InfoIn

LEMMA InfoAliasIn ==
  ASSUME NEW facts, NEW info, InfoIn(facts, info), NEW map, MapIn(facts, "alias", map)
  PROVE  InfoIn(facts, [info EXCEPT !.alias = map])
BY DEF InfoIn

LEMMA ExtendIn ==
  ASSUME NEW facts, NEW info1, InfoIn(facts, info1), NEW info2, InfoIn(facts, info2)
  PROVE  InfoIn(facts, extend(info1, info2))
BY PlusIn DEF InfoIn, extend

LEMMA AskedIn ==
  ASSUME NEW p, NEW facts, Solves(p, facts), NEW info, InfoIn(facts, info), NEW keys
  PROVE  InfoIn(facts, Asked(p, info, keys))
<1>. DEFINE asked == [k \in keys \ {nullptr} |-> {k} \cap Funcs(p)]
<1>1. \A f \in Funcs(p) : f \in Held(facts, <<"pts", f>>)
  BY ObjectHeld DEF Objects, Pts
<1>2. MapIn(facts, "pts", asked)
  BY <1>1 DEF MapIn
<1>3. Asked(p, info, keys) = [info EXCEPT !.pts = Plus(info.pts, asked)]
  BY DEF Asked
<1>. HIDE DEF asked
<1>4. MapIn(facts, "pts", Plus(info.pts, asked))
  BY <1>2, PlusIn DEF InfoIn
<1>. QED
  BY <1>3, <1>4, InfoPtsIn

\* The keys asked for have an entry.
LEMMA AskedKeys ==
  ASSUME NEW p, NEW info, "pts" \in DOMAIN info, NEW keys
  PROVE  keys \ {nullptr} \subseteq DOMAIN Asked(p, info, keys).pts
BY DEF Asked, Plus

LEMMA PointToHeld ==
  ASSUME NEW p, NEW facts, Solves(p, facts), NEW info, InfoIn(facts, info), NEW key
  PROVE  pointTo(p, info, key) \subseteq Held(facts, Pts(key))
<1>1. InfoIn(facts, Asked(p, info, {key}))
  BY AskedIn
<1>. QED
  BY <1>1 DEF pointTo, At, InfoIn, MapIn, Pts

LEMMA AliasHeld ==
  ASSUME NEW facts, NEW info, InfoIn(facts, info), NEW keys, NEW set,
         \A k \in keys : Held(facts, Cell(k)) \subseteq set
  PROVE  alias(info, keys) \subseteq set
BY DEF alias, At, InfoIn, MapIn, Cell

LEMMA AliasAskedIn ==
  ASSUME NEW facts, NEW info, InfoIn(facts, info), NEW keys
  PROVE  InfoIn(facts, AliasAsked(info, keys))
<1>. DEFINE asked == [k \in keys |-> {}]
<1>1. MapIn(facts, "alias", asked)
  BY DEF MapIn
<1>2. AliasAsked(info, keys) = [info EXCEPT !.alias = Plus(info.alias, asked)]
  BY DEF AliasAsked
<1>. HIDE DEF asked
<1>3. MapIn(facts, "alias", Plus(info.alias, asked))
  BY <1>1, PlusIn DEF InfoIn
<1>. QED
  BY <1>2, <1>3, InfoAliasIn

LEMMA SetPointToIn ==
  ASSUME NEW facts, NEW info, InfoIn(facts, info), NEW key, NEW vals,
         vals \subseteq Held(facts, Pts(key))
  PROVE  InfoIn(facts, SetPointTo(info, key, vals))
<1>1. MapIn(facts, "pts", Set(info.pts, {key}, vals))
  BY SetIn DEF InfoIn, Pts
<1>. QED
  BY <1>1, InfoPtsIn DEF SetPointTo

LEMMA AliasClearIn ==
  ASSUME NEW p, NEW facts, NEW info, InfoIn(facts, info), NEW keys
  PROVE  InfoIn(facts, aliasClear(p, info, keys))
<1>1. MapIn(facts, "alias", Set(info.alias, keys \ Funcs(p), {}))
  BY SetIn DEF InfoIn
<1>. QED
  BY <1>1, InfoAliasIn DEF aliasClear

LEMMA AliasExtendIn ==
  ASSUME NEW p, NEW facts, NEW info, InfoIn(facts, info), NEW keys, NEW vals,
         \A k \in keys : vals \subseteq Held(facts, Cell(k))
  PROVE  InfoIn(facts, aliasExtend(p, info, keys, vals))
<1>. DEFINE more == [k \in keys |-> vals]
            cleared == aliasClear(p, info, keys)
<1>1. MapIn(facts, "alias", more)
  BY DEF MapIn, Cell
<1>2. aliasExtend(p, info, keys, vals) = [cleared EXCEPT !.alias = Plus(cleared.alias, more)]
  BY DEF aliasExtend
<1>3. InfoIn(facts, cleared)
  BY AliasClearIn
<1>. HIDE DEF more, cleared
<1>4. MapIn(facts, "alias", Plus(cleared.alias, more))
  BY <1>1, <1>3, PlusIn DEF InfoIn
<1>. QED
  BY <1>2, <1>3, <1>4, InfoAliasIn

\* The handlers of the instructions that do not leave the function.
LEMMA HandledIn ==
  ASSUME NEW p \in Modules, NEW facts, Solves(p, facts), NEW i \in Insts(p),
         NEW info, InfoIn(facts, info)
  PROVE  InfoIn(facts, Handled(p, i, info))
<1>1. CASE i.op = "alloca"
  <2>1. i.id \in Held(facts, Pts(i.id))
    BY <1>1, ObjectHeld DEF Objects, Makes
  <2>2. InfoIn(facts, handleAllocaInst(p, i, info))
    BY <2>1, SetPointToIn DEF handleAllocaInst
  <2>. QED
    BY <1>1, <2>2 DEF Handled
<1>2. CASE i.op = "load"
  <2>. DEFINE ptrs == pointTo(p, info, i.ptr)
              seen == AliasAsked(Asked(p, info, {i.ptr}), ptrs)
              vals == alias(info, ptrs)
  <2>1. ASSUME NEW o \in ptrs
        PROVE  Held(facts, Cell(o)) \subseteq Held(facts, Pts(i.id))
    <3>1. o \in Held(facts, Pts(i.ptr))
      BY PointToHeld
    <3>2. <<Cell(o), Pts(i.id)>> \in Flow(p, facts, i)
      BY <1>2, <3>1 DEF Flow
    <3>. QED
      BY <3>2, FlowHeld
  <2>2. InfoIn(facts, seen)
    BY AskedIn, AliasAskedIn
  <2>3. vals \subseteq Held(facts, Pts(i.id))
    <3>. HIDE DEF ptrs
    <3>. QED
      BY <2>1, AliasHeld
  <2>4. handleLoadInst(p, i, info) = SetPointTo(seen, i.id, vals)
    BY DEF handleLoadInst
  <2>. HIDE DEF seen, vals
  <2>5. InfoIn(facts, handleLoadInst(p, i, info))
    BY <2>2, <2>3, <2>4, SetPointToIn
  <2>. QED
    BY <1>2, <2>5 DEF Handled
<1>3. CASE i.op = "store"
  <2>. DEFINE seen == Asked(p, info, {i.ptr, i.val})
              dests == pointTo(p, info, i.ptr)
              vals == pointTo(p, info, i.val)
  <2>1. ASSUME NEW o \in dests
        PROVE  vals \subseteq Held(facts, Cell(o))
    <3>1. o \in Held(facts, Pts(i.ptr)) /\ vals \subseteq Held(facts, Pts(i.val))
      BY PointToHeld
    <3>2. <<Pts(i.val), Cell(o)>> \in Flow(p, facts, i)
      BY <1>3, <3>1 DEF Flow
    <3>3. Held(facts, Pts(i.val)) \subseteq Held(facts, Cell(o))
      BY <3>2, FlowHeld
    <3>. QED
      BY <3>1, <3>3
  <2>2. InfoIn(facts, seen)
    BY AskedIn
  <2>3. handleStoreInst(p, i, info) = aliasExtend(p, seen, dests, vals)
    BY DEF handleStoreInst
  <2>. HIDE DEF seen, dests, vals
  <2>4. InfoIn(facts, handleStoreInst(p, i, info))
    BY <2>1, <2>2, <2>3, AliasExtendIn
  <2>. QED
    BY <1>3, <2>4 DEF Handled
<1>4. CASE i.op = "memcpy"
  <2>. DEFINE srcs == pointTo(p, info, i.src)
              dests == pointTo(p, info, i.dst)
              seen == AliasAsked(Asked(p, info, {i.dst, i.src}), srcs)
              vals == alias(info, srcs)
  <2>1. ASSUME NEW o \in dests
        PROVE  vals \subseteq Held(facts, Cell(o))
    <3>1. ASSUME NEW s \in srcs
          PROVE  Held(facts, Cell(s)) \subseteq Held(facts, Cell(o))
      <4>1. s \in Held(facts, Pts(i.src)) /\ o \in Held(facts, Pts(i.dst))
        BY PointToHeld
      <4>2. <<Cell(s), Cell(o)>> \in Flow(p, facts, i)
        BY <1>4, <4>1 DEF Flow
      <4>. QED
        BY <4>2, FlowHeld
    <3>. HIDE DEF srcs, dests
    <3>. QED
      BY <3>1, AliasHeld
  <2>2. InfoIn(facts, seen)
    BY AskedIn, AliasAskedIn
  <2>3. handleMemCpyInst(p, i, info) =
          IF ~i.cast THEN info ELSE aliasExtend(p, seen, dests, vals)
    BY DEF handleMemCpyInst
  <2>. HIDE DEF seen, dests, vals
  <2>4. InfoIn(facts, handleMemCpyInst(p, i, info))
    BY <2>1, <2>2, <2>3, AliasExtendIn
  <2>. QED
    BY <1>4, <2>4 DEF Handled
<1>5. CASE i.op = "memset"
  <2>1. InfoIn(facts, handleMemSetInst(p, i, info))
    BY AskedIn, AliasClearIn DEF handleMemSetInst
  <2>. QED
    BY <1>5, <2>1 DEF Handled
<1>6. CASE i.op = "phi"
  <2>. DEFINE cleared == SetPointTo(info, i.id, {})
              seen == Asked(p, cleared, Range(i.in))
              vals == UNION {seen.pts[v] : v \in Range(i.in)}
  <2>1. InfoIn(facts, cleared)
    BY SetPointToIn
  <2>2. InfoIn(facts, seen)
    BY <2>1, AskedIn
  <2>3. Range(i.in) \subseteq DOMAIN seen.pts
    <3>1. "pts" \in DOMAIN cleared
      BY <2>1 DEF InfoIn
    <3>. HIDE DEF cleared
    <3>2. Range(i.in) \ {nullptr} \subseteq DOMAIN seen.pts
      BY <3>1, AskedKeys
    <3>3. nullptr \notin Range(i.in)
      BY <1>6, InstWellFormed
    <3>. QED
      BY <3>2, <3>3
  <2>4. handlePHINode(p, i, info) = SetPointTo(seen, i.id, vals)
    BY DEF handlePHINode
  <2>5. ASSUME NEW v \in Range(i.in)
        PROVE  seen.pts[v] \subseteq Held(facts, Pts(i.id))
    <3>1. <<Pts(v), Pts(i.id)>> \in Flow(p, facts, i)
      BY <1>6 DEF Flow
    <3>2. Held(facts, Pts(v)) \subseteq Held(facts, Pts(i.id))
      BY <3>1, FlowHeld
    <3>. HIDE DEF seen
    <3>. QED
      BY <2>2, <2>3, <3>2 DEF InfoIn, MapIn, Pts
  <2>6. vals \subseteq Held(facts, Pts(i.id))
    <3>. HIDE DEF seen
    <3>. QED
      BY <2>5
  <2>. HIDE DEF seen, vals
  <2>7. InfoIn(facts, handlePHINode(p, i, info))
    BY <2>2, <2>4, <2>6, SetPointToIn
  <2>. QED
    BY <1>6, <2>7 DEF Handled
<1>7. CASE i.op \in {"gep", "bitcast"}
  <2>. DEFINE vals == pointTo(p, info, i.ptr)
              seen == Asked(p, info, {i.ptr})
  <2>1. <<Pts(i.ptr), Pts(i.id)>> \in Flow(p, facts, i)
    BY <1>7 DEF Flow
  <2>2. Held(facts, Pts(i.ptr)) \subseteq Held(facts, Pts(i.id))
    BY <2>1, FlowHeld
  <2>3. vals \subseteq Held(facts, Pts(i.ptr)) /\ InfoIn(facts, seen)
    BY PointToHeld, AskedIn
  <2>4. Handled(p, i, info) = SetPointTo(seen, i.id, vals)
    BY <1>7 DEF Handled, handleGetElementPtrInst, handleBitCastInst
  <2>. HIDE DEF seen, vals
  <2>. QED
    BY <2>2, <2>3, <2>4, SetPointToIn
<1>8. CASE i.op \notin {"alloca", "load", "store", "memcpy", "memset", "phi", "gep", "bitcast"}
  BY <1>8 DEF Handled
<1>. QED
  BY <1>1, <1>2, <1>3, <1>4, <1>5, <1>6, <1>7, <1>8

-----------------------------------------------------------------------------
(***************************************************************************)
(* The invariant: whatever an activation knows, has collected for its      *)
(* caller or is about to pass to a callee is in the solution, and an       *)
(* activation is one of a function its caller may reach.                   *)
(***************************************************************************)

CallOf(p, act) == p.code[act.bb][act.pc]

Returned(p, facts, f) == UNION {Held(facts, Pts(ret.val)) : ret \in Returns(p, f)}

ActIn(p, facts, act) ==
  /\ \A b \in DOMAIN act.entry : InfoIn(facts, act.entry[b])
  /\ \A b \in DOMAIN act.exit : InfoIn(facts, act.exit[b])
  /\ InfoIn(facts, act.dfval)
  /\ DOMAIN act.retSets = {"first", "second"}
  /\ act.retSets.first \subseteq Returned(p, facts, act.fn)
  /\ MapIn(facts, "alias", act.retSets.second)
  /\ MapIn(facts, "alias", act.alias)

\* An activation in the second loop of handleCallInst.
CallIn(p, facts, act) ==
  LET call == CallOf(p, act)
  IN  /\ call \in Insts(p) /\ call.op = "call"
      /\ act.callees \subseteq Reached(p, facts, call)
      /\ DOMAIN act.argsVec = DOMAIN call.args
      /\ \A i \in DOMAIN call.args : act.argsVec[i] \subseteq Held(facts, Pts(call.args[i]))

Fits(p, facts, act) == ActIn(p, facts, act) /\ (act.at = "call" => CallIn(p, facts, act))

CalledFrom(p, facts, act, caller) == act.fn \in Reached(p, facts, CallOf(p, caller))

Chained(p, facts, acts) ==
  \A i \in 1 .. Len(acts) :
    /\ Fits(p, facts, acts[i])
    /\ i < Len(acts) => CalledFrom(p, facts, acts[i], acts[i + 1])

FlowInv ==
  /\ Chained(prog, Solution(prog), stack)
  /\ lineFuncList \subseteq Calls(prog, Solution(prog))

LEMMA MergedIn ==
  ASSUME NEW facts, NEW kind, NEW maps, \A b \in DOMAIN maps : MapIn(facts, kind, maps[b])
  PROVE  MapIn(facts, kind, Merged(maps))
BY DEF MapIn, Merged, At

LEMMA TopFits ==
  ASSUME NEW facts, StackInv, Chained(prog, facts, stack), stack # << >>
  PROVE  Fits(prog, facts, Top)
<1>1. Len(stack) \in Nat \ {0}
  BY Popped DEF StackInv
<1>. QED
  BY <1>1 DEF Chained, Top

\* The innermost activation is replaced by one of the same function.
LEMMA SetTopChained ==
  ASSUME NEW facts, StackInv, Chained(prog, facts, stack), stack # << >>,
         NEW act, Fits(prog, facts, act), act.fn = Top.fn, SetTop(act)
  PROVE  Chained(prog, facts, stack')
<1>1. /\ Len(stack') = Len(stack) /\ Len(stack) \in Nat \ {0}
      /\ stack'[1] = act
      /\ \A i \in 2 .. Len(stack) : stack'[i] = stack[i]
  BY Replaced DEF StackInv, SetTop
<1>2. ASSUME NEW i \in 1 .. Len(stack)
      PROVE  /\ Fits(prog, facts, stack'[i])
             /\ i < Len(stack) => CalledFrom(prog, facts, stack'[i], stack'[i + 1])
  <2>1. /\ Fits(prog, facts, stack[i])
        /\ i < Len(stack) => CalledFrom(prog, facts, stack[i], stack[i + 1])
    BY DEF Chained
  <2>2. i < Len(stack) => i + 1 \in 2 .. Len(stack)
    BY <1>1
  <2>3. CASE i = 1
    BY <1>1, <2>1, <2>2, <2>3 DEF CalledFrom, Top
  <2>4. CASE i # 1
    <3>1. i \in 2 .. Len(stack)
      BY <1>1, <2>4
    <3>. QED
      BY <1>1, <2>1, <2>2, <3>1
  <2>. QED
    BY <2>3, <2>4
<1>. QED
  BY <1>1, <1>2 DEF Chained

LEMMA TopInst ==
  ASSUME StackInv, StackTyped, prog \in Modules, AtInst
  PROVE  /\ Top.fn \in Funcs(prog)
         /\ inst \in InstsOf(prog, Top.fn) /\ inst \in Insts(prog)
<1>1. ActTyped(Top) /\ Shape(Top) /\ Top.at = "inst" /\ Top.pc <= Len(Code)
  BY TopIsTyped DEF AtInst
<1>2. Top.fn \in Funcs(prog) /\ Top.bb \in prog.blocks[Top.fn] /\ Top.pc \in Nat \ {0}
  BY <1>1 DEF ActTyped, Shape
<1>3. Code \in Seq(Range(Code))
  BY <1>2, ModulesAssumption DEF Code, Funcs
<1>4. Top.pc \in DOMAIN Code
  BY <1>1, <1>2, <1>3
<1>5. inst \in Range(prog.code[Top.bb])
  BY <1>4 DEF inst, Range, Code
<1>6. inst \in InstsOf(prog, Top.fn)
  BY <1>2, <1>5 DEF InstsOf
<1>. QED
  BY <1>2, <1>6 DEF Insts

\* A block is taken.
LEMMA TakenFits ==
  ASSUME NEW facts, Fits(prog, facts, Top), Shape(Top), NEW bb \in Top.worklist, NEW act,
         act = [Top EXCEPT !.worklist = @ \ {bb}, !.at = "inst", !.bb = bb, !.pc = 1,
                           !.dfval = bbentryval(bb), !.entry[bb] = bbentryval(bb)]
  PROVE  Fits(prog, facts, act) /\ act.fn = Top.fn
<1>. DEFINE preds == {b \in prog.blocks[Top.fn] : <<b, bb>> \in prog.cfg}
            pts == [b \in preds |-> Top.exit[b].pts]
            cells == [b \in preds |-> Top.exit[b].alias]
            merged == [pts |-> Merged(pts), alias |-> Merged(cells)]
<1>1. \A b \in preds : InfoIn(facts, Top.exit[b])
  BY DEF Fits, ActIn, Shape
<1>2. MapIn(facts, "pts", Merged(pts)) /\ MapIn(facts, "alias", Merged(cells))
  <2>1. /\ \A b \in DOMAIN pts : MapIn(facts, "pts", pts[b])
        /\ \A b \in DOMAIN cells : MapIn(facts, "alias", cells[b])
    BY <1>1 DEF InfoIn
  <2>. HIDE DEF pts, cells
  <2>. QED
    BY <2>1, MergedIn
<1>3. bbentryval(bb) = extend(Top.entry[bb], merged)
  BY DEF bbentryval
<1>. HIDE DEF pts, cells
<1>4. InfoIn(facts, merged)
  BY <1>2 DEF InfoIn
<1>. HIDE DEF merged
<1>5. InfoIn(facts, Top.entry[bb])
  BY DEF Fits, ActIn, Shape
<1>6. PICK val : val = bbentryval(bb) /\ InfoIn(facts, val)
  BY <1>3, <1>4, <1>5, ExtendIn
<1>7. /\ act.fn = Top.fn /\ act.at = "inst" /\ act.dfval = val /\ act.exit = Top.exit
      /\ act.retSets = Top.retSets /\ act.alias = Top.alias
      /\ act.entry = [Top.entry EXCEPT ![bb] = val]
  BY <1>6 DEF Shape, Fields
<1>. QED
  BY <1>6, <1>7 DEF Fits, ActIn

\* A block is done.
LEMMA EndedFits ==
  ASSUME NEW facts, Fits(prog, facts, Top), Shape(Top), NEW list, NEW act,
         act = [Top EXCEPT !.exit[Top.bb] = Top.dfval, !.worklist = list, !.at = "loop",
                           !.bb = nullptr, !.pc = 1, !.dfval = EmptyInfo]
  PROVE  Fits(prog, facts, act) /\ act.fn = Top.fn
<1>1. /\ act.fn = Top.fn /\ act.at = "loop" /\ act.dfval = EmptyInfo /\ act.entry = Top.entry
      /\ act.retSets = Top.retSets /\ act.alias = Top.alias
      /\ act.exit = [Top.exit EXCEPT ![Top.bb] = Top.dfval]
  BY DEF Shape, Fields
<1>2. \A b \in DOMAIN act.exit : InfoIn(facts, act.exit[b])
  BY <1>1 DEF Fits, ActIn
<1>. QED
  BY <1>1, <1>2, EmptyIn DEF Fits, ActIn

\* An instruction other than a call or a return.
LEMMA TransferredFits ==
  ASSUME NEW facts, Fits(prog, facts, Top), Shape(Top), Top.at = "inst",
         NEW info, InfoIn(facts, info), NEW pc, NEW act,
         act = [Top EXCEPT !.dfval = info, !.pc = pc]
  PROVE  Fits(prog, facts, act) /\ act.fn = Top.fn
<1>1. /\ act.fn = Top.fn /\ act.at = "inst" /\ act.dfval = info /\ act.entry = Top.entry
      /\ act.exit = Top.exit /\ act.retSets = Top.retSets /\ act.alias = Top.alias
  BY DEF Shape, Fields
<1>. QED
  BY <1>1 DEF Fits, ActIn

\* A return of a nested activation.
LEMMA ReturnedFits ==
  ASSUME NEW facts, Solves(prog, facts), Fits(prog, facts, Top), Shape(Top), Top.at = "inst",
         NEW i \in Returns(prog, Top.fn),
         NEW info, info = Asked(prog, Top.dfval, {i.val}), NEW act,
         act = [Top EXCEPT !.dfval = info, !.pc = @ + 1,
                  !.retSets.first = @ \cup pointTo(prog, info, i.val),
                  !.retSets.second = Plus(@, info.alias)]
  PROVE  Fits(prog, facts, act) /\ act.fn = Top.fn
<1>1. InfoIn(facts, Top.dfval) /\ DOMAIN Top.retSets = {"first", "second"}
  BY DEF Fits, ActIn
<1>2. InfoIn(facts, info)
  BY <1>1, AskedIn
<1>3. pointTo(prog, info, i.val) \subseteq Returned(prog, facts, Top.fn)
  <2>1. pointTo(prog, info, i.val) \subseteq Held(facts, Pts(i.val))
    BY <1>2, PointToHeld
  <2>. QED
    BY <2>1 DEF Returned
<1>4. PICK first, second :
        /\ first = Top.retSets.first \cup pointTo(prog, info, i.val)
        /\ second = Plus(Top.retSets.second, info.alias)
  OBVIOUS
<1>5. PICK sets : sets = [Top.retSets EXCEPT !.first = first, !.second = second]
  OBVIOUS
<1>6. /\ act.fn = Top.fn /\ act.at = "inst" /\ act.dfval = info /\ act.entry = Top.entry
      /\ act.exit = Top.exit /\ act.alias = Top.alias
      /\ DOMAIN act.retSets = {"first", "second"}
      /\ act.retSets.first = first /\ act.retSets.second = second
  <2>1. DOMAIN sets = {"first", "second"} /\ sets.first = first /\ sets.second = second
    BY <1>1, <1>5
  <2>2. act = [Top EXCEPT !.dfval = info, !.pc = @ + 1, !.retSets.first = first,
                          !.retSets.second = second]
    BY <1>4
  <2>3. act = [Top EXCEPT !.dfval = info, !.pc = @ + 1, !.retSets = sets]
    BY <1>5, <2>2 DEF Shape, Fields
  <2>. QED
    BY <2>1, <2>3 DEF Shape, Fields
<1>7. first \subseteq Returned(prog, facts, Top.fn)
  BY <1>3, <1>4 DEF Fits, ActIn
<1>8. MapIn(facts, "alias", second)
  BY <1>2, <1>4, PlusIn DEF Fits, ActIn, InfoIn
<1>. QED
  BY <1>2, <1>6, <1>7, <1>8 DEF Fits, ActIn

\* A call is resolved.
ResolvedTo(callees, info1, info2, info3, act) ==
  /\ callees = (pointTo(prog, Top.dfval, inst.callee) \cap Funcs(prog)) \ prog.intrinsic
  /\ info1 = Asked(prog, Top.dfval, {inst.callee})
  /\ info2 = IF callees \cap Declared(prog) = {} THEN info1
             ELSE SetPointTo(info1, inst.id, {inst.id})
  /\ info3 = Asked(prog, info2, Range(inst.args))
  /\ act = [Top EXCEPT !.at = "call", !.dfval = info3,
               !.callees = callees \ Declared(prog),
               !.argsVec = [i \in DOMAIN inst.args |-> info3.pts[inst.args[i]]],
               !.alias = EmptyMap, !.flag = FALSE]

LEMMA ResolvedFits ==
  ASSUME prog \in Modules, NEW facts, Solves(prog, facts), Fits(prog, facts, Top), Shape(Top),
         inst \in Insts(prog), inst.op = "call",
         NEW callees, NEW info1, NEW info2, NEW info3, NEW act,
         ResolvedTo(callees, info1, info2, info3, act)
  PROVE  /\ Fits(prog, facts, act) /\ act.fn = Top.fn
         /\ callees \subseteq Reached(prog, facts, inst)
<1>1. InfoIn(facts, Top.dfval)
  BY DEF Fits, ActIn
<1>2. callees \subseteq Reached(prog, facts, inst)
  <2>1. pointTo(prog, Top.dfval, inst.callee) \subseteq Held(facts, Pts(inst.callee))
    BY <1>1, PointToHeld
  <2>. QED
    BY <2>1 DEF Reached, ResolvedTo
<1>3. InfoIn(facts, info1)
  BY <1>1, AskedIn DEF ResolvedTo
<1>4. InfoIn(facts, info2)
  <2>1. CASE callees \cap Declared(prog) = {}
    BY <1>3, <2>1 DEF ResolvedTo
  <2>2. CASE callees \cap Declared(prog) # {}
    <3>1. Makes(prog, facts, inst)
      BY <1>2, <2>2 DEF Makes
    <3>2. inst.id \in Objects(prog, facts)
      BY <3>1 DEF Objects
    <3>3. {inst.id} \subseteq Held(facts, Pts(inst.id))
      BY <3>2, ObjectHeld
    <3>. QED
      BY <1>3, <2>2, <3>3, SetPointToIn DEF ResolvedTo
  <2>. QED
    BY <2>1, <2>2
<1>5. InfoIn(facts, info3)
  BY <1>4, AskedIn DEF ResolvedTo
<1>6. \A i \in DOMAIN inst.args :
        info3.pts[inst.args[i]] \subseteq Held(facts, Pts(inst.args[i]))
  <2>1. ASSUME NEW i \in DOMAIN inst.args
        PROVE  info3.pts[inst.args[i]] \subseteq Held(facts, Pts(inst.args[i]))
    <3>1. inst.args[i] \in Range(inst.args) \ {nullptr}
      BY InstWellFormed DEF Range
    <3>2. "pts" \in DOMAIN info2
      BY <1>4 DEF InfoIn
    <3>3. inst.args[i] \in DOMAIN info3.pts
      BY <3>1, <3>2, AskedKeys DEF ResolvedTo
    <3>. QED
      BY <1>5, <3>3 DEF InfoIn, MapIn, Pts
  <2>. QED
    BY <2>1
<1>7. PICK args : args = [i \in DOMAIN inst.args |-> info3.pts[inst.args[i]]]
  OBVIOUS
<1>8. /\ act.fn = Top.fn /\ act.at = "call" /\ act.dfval = info3 /\ act.entry = Top.entry
      /\ act.exit = Top.exit /\ act.retSets = Top.retSets /\ act.alias = EmptyMap
      /\ act.bb = Top.bb /\ act.pc = Top.pc
      /\ act.callees = callees \ Declared(prog) /\ act.argsVec = args
  BY <1>7 DEF ResolvedTo, Shape, Fields
<1>9. CallOf(prog, act) = inst
  <2>1. inst = prog.code[Top.bb][Top.pc]
    BY Zenon DEF inst, Code
  <2>. QED
    BY <1>8, <2>1, Zenon DEF CallOf
<1>10. CallIn(prog, facts, act)
  <2>1. act.callees \subseteq Reached(prog, facts, inst)
    BY <1>2, <1>8
  <2>2. DOMAIN act.argsVec = DOMAIN inst.args
    BY <1>7, <1>8
  <2>3. \A i \in DOMAIN inst.args : act.argsVec[i] \subseteq Held(facts, Pts(inst.args[i]))
    BY <1>6, <1>7, <1>8
  <2>. QED
    BY <1>9, <2>1, <2>2, <2>3 DEF CallIn
<1>11. ActIn(prog, facts, act)
  BY <1>5, <1>8, EmptyIn DEF Fits, ActIn
<1>. QED
  BY <1>2, <1>8, <1>10, <1>11 DEF Fits

\* A callee starts from what the caller passes to it.
LEMMA NewFits ==
  ASSUME NEW facts, NEW f, NEW initval, InfoIn(facts, initval)
  PROVE  Fits(prog, facts, Activation(f, initval))
<1>1. DOMAIN [first |-> {}, second |-> EmptyMap] = {"first", "second"}
  OBVIOUS
<1>. QED
  BY <1>1, EmptyIn DEF Fits, ActIn, Activation

LEMMA EnteredFits ==
  ASSUME NEW facts, Solves(prog, facts), Fits(prog, facts, Top), Shape(Top), Top.at = "call",
         NEW f \in Top.callees, DOMAIN Top.argsVec \subseteq DOMAIN prog.args[f],
         NEW args,
         args = [a \in {prog.args[f][i] : i \in DOMAIN Top.argsVec} |->
                   UNION {Top.argsVec[i] :
                     i \in {j \in DOMAIN Top.argsVec : prog.args[f][j] = a}}],
         NEW caller, caller = [Top EXCEPT !.callees = @ \ {f}]
  PROVE  /\ InfoIn(facts, [pts |-> args, alias |-> Top.dfval.alias])
         /\ Fits(prog, facts, caller) /\ caller.fn = Top.fn
         /\ f \in Reached(prog, facts, CallOf(prog, caller))
<1>. DEFINE call == CallOf(prog, Top)
<1>1. /\ call \in Insts(prog) /\ call.op = "call"
      /\ Top.callees \subseteq Reached(prog, facts, call)
      /\ DOMAIN Top.argsVec = DOMAIN call.args
      /\ \A i \in DOMAIN call.args : Top.argsVec[i] \subseteq Held(facts, Pts(call.args[i]))
  BY DEF Fits, CallIn
<1>. HIDE DEF call
<1>2. \A i \in DOMAIN call.args : Top.argsVec[i] \subseteq Held(facts, Pts(prog.args[f][i]))
  <2>1. ASSUME NEW i \in DOMAIN call.args
        PROVE  Top.argsVec[i] \subseteq Held(facts, Pts(prog.args[f][i]))
    <3>1. <<Pts(call.args[i]), Pts(prog.args[f][i])>> \in Through(prog, call, f)
      BY <1>1 DEF Through
    <3>2. <<Pts(call.args[i]), Pts(prog.args[f][i])>> \in Flow(prog, facts, call)
      BY <1>1, <3>1 DEF Flow
    <3>3. Held(facts, Pts(call.args[i])) \subseteq Held(facts, Pts(prog.args[f][i]))
      BY <1>1, <3>2, FlowHeld
    <3>. QED
      BY <1>1, <3>3
  <2>. QED
    BY <2>1
<1>3. MapIn(facts, "pts", args)
  <2>1. ASSUME NEW a \in DOMAIN args
        PROVE  args[a] \subseteq Held(facts, Pts(a))
    <3>1. args[a] = UNION {Top.argsVec[i] :
                            i \in {j \in DOMAIN Top.argsVec : prog.args[f][j] = a}}
      OBVIOUS
    <3>. QED
      BY <1>1, <1>2, <3>1
  <2>. QED
    BY <2>1 DEF MapIn, Pts
<1>4. InfoIn(facts, [pts |-> args, alias |-> Top.dfval.alias])
  BY <1>3 DEF Fits, ActIn, InfoIn
<1>5. /\ caller.fn = Top.fn /\ caller.at = "call" /\ caller.dfval = Top.dfval
      /\ caller.entry = Top.entry /\ caller.exit = Top.exit
      /\ caller.retSets = Top.retSets /\ caller.alias = Top.alias
      /\ caller.bb = Top.bb /\ caller.pc = Top.pc
      /\ caller.callees = Top.callees \ {f} /\ caller.argsVec = Top.argsVec
  BY DEF Shape, Fields
<1>6. CallOf(prog, caller) = call
  BY <1>5 DEF CallOf, call
<1>7. CallIn(prog, facts, caller)
  BY <1>1, <1>5, <1>6 DEF CallIn
<1>8. ActIn(prog, facts, caller)
  BY <1>5 DEF Fits, ActIn
<1>. QED
  BY <1>1, <1>4, <1>5, <1>6, <1>7, <1>8 DEF Fits

\* What a callee hands back to the caller below it on the stack.
Left(caller, ret, act) ==
  /\ ret = [k \in {CallOf(prog, caller).id} |-> Top.retSets.first]
  /\ act = [caller EXCEPT !.dfval.pts = Plus(@, ret),
                          !.alias = Plus(@, Top.retSets.second), !.flag = TRUE]

LEMMA LeftFits ==
  ASSUME NEW facts, Solves(prog, facts), Fits(prog, facts, Top),
         NEW caller, Fits(prog, facts, caller), Shape(caller), caller.at = "call",
         CalledFrom(prog, facts, Top, caller),
         NEW ret, NEW act, Left(caller, ret, act)
  PROVE  Fits(prog, facts, act) /\ act.fn = caller.fn /\ act.bb = caller.bb /\ act.pc = caller.pc
<1>. DEFINE call == CallOf(prog, caller)
<1>1. /\ call \in Insts(prog) /\ call.op = "call"
      /\ Top.fn \in Reached(prog, facts, call)
  BY DEF Fits, CallIn, CalledFrom
<1>2. Returned(prog, facts, Top.fn) \subseteq Held(facts, Pts(call.id))
  <2>1. ASSUME NEW r \in Returns(prog, Top.fn)
        PROVE  Held(facts, Pts(r.val)) \subseteq Held(facts, Pts(call.id))
    <3>. HIDE DEF call
    <3>1. <<Pts(r.val), Pts(call.id)>> \in Through(prog, call, Top.fn)
      BY DEF Through
    <3>2. <<Pts(r.val), Pts(call.id)>> \in Flow(prog, facts, call)
      BY <1>1, <3>1 DEF Flow
    <3>. QED
      BY <1>1, <3>2, FlowHeld
  <2>. QED
    BY <2>1 DEF Returned
<1>3. MapIn(facts, "pts", ret)
  BY <1>2 DEF Left, Fits, ActIn, MapIn, Pts
<1>4. PICK pts, cells : pts = Plus(caller.dfval.pts, ret)
                        /\ cells = Plus(caller.alias, Top.retSets.second)
  OBVIOUS
<1>5. MapIn(facts, "pts", pts) /\ MapIn(facts, "alias", cells)
  BY <1>3, <1>4, PlusIn DEF Fits, ActIn, InfoIn
<1>6. PICK info : info = [caller.dfval EXCEPT !.pts = pts] /\ InfoIn(facts, info)
  BY <1>5, InfoPtsIn DEF Fits, ActIn
<1>7. act = [caller EXCEPT !.dfval = info, !.alias = cells, !.flag = TRUE]
  BY <1>4, <1>6 DEF Left, Shape, Fields
<1>8. /\ act.fn = caller.fn /\ act.at = "call" /\ act.dfval = info
      /\ act.entry = caller.entry /\ act.exit = caller.exit
      /\ act.retSets = caller.retSets /\ act.alias = cells
      /\ act.bb = caller.bb /\ act.pc = caller.pc
      /\ act.callees = caller.callees /\ act.argsVec = caller.argsVec
  BY <1>7 DEF Shape, Fields
<1>9. CallIn(prog, facts, act)
  <2>1. CallIn(prog, facts, caller)
    BY DEF Fits
  <2>2. CallOf(prog, act) = CallOf(prog, caller)
    BY <1>8 DEF CallOf
  <2>. QED
    BY <1>8, <2>1, <2>2 DEF CallIn
<1>10. ActIn(prog, facts, act)
  BY <1>5, <1>6, <1>8 DEF Fits, ActIn
<1>. QED
  BY <1>8, <1>9, <1>10 DEF Fits

\* The end of handleCallInst.
LEMMA DoneFits ==
  ASSUME NEW facts, Fits(prog, facts, Top), Shape(Top), NEW pc, NEW act,
         act = [Top EXCEPT !.dfval.alias = IF Top.flag THEN Top.alias ELSE @,
                           !.at = "inst", !.pc = pc,
                           !.argsVec = << >>, !.alias = EmptyMap, !.flag = FALSE]
  PROVE  Fits(prog, facts, act) /\ act.fn = Top.fn
<1>1. PICK cells : /\ cells = IF Top.flag THEN Top.alias ELSE Top.dfval.alias
                   /\ MapIn(facts, "alias", cells)
  BY DEF Fits, ActIn, InfoIn
<1>2. PICK info : info = [Top.dfval EXCEPT !.alias = cells] /\ InfoIn(facts, info)
  BY <1>1, InfoAliasIn DEF Fits, ActIn
<1>3. act = [Top EXCEPT !.dfval = info, !.at = "inst", !.pc = pc,
                        !.argsVec = << >>, !.alias = EmptyMap, !.flag = FALSE]
  BY <1>1, <1>2 DEF Shape, Fields
<1>4. /\ act.fn = Top.fn /\ act.at = "inst" /\ act.dfval = info /\ act.entry = Top.entry
      /\ act.exit = Top.exit /\ act.retSets = Top.retSets /\ act.alias = EmptyMap
  BY <1>3 DEF Shape, Fields
<1>. QED
  BY <1>2, <1>4, EmptyIn DEF Fits, ActIn

\* A callee is entered: the stack grows by one.
LEMMA EnterChained ==
  ASSUME NEW facts, StackInv, Chained(prog, facts, stack), stack # << >>,
         NEW act, Fits(prog, facts, act),
         NEW caller, Fits(prog, facts, caller), caller.fn = Top.fn,
         CalledFrom(prog, facts, act, caller), stack' = <<act, caller>> \o Tail(stack)
  PROVE  Chained(prog, facts, stack')
<1>1. /\ Len(stack') = Len(stack) + 1 /\ Len(stack) \in Nat \ {0}
      /\ stack'[1] = act /\ stack'[2] = caller
      /\ \A i \in 3 .. Len(stack) + 1 : stack'[i] = stack[i - 1]
  BY Nested DEF StackInv
<1>2. ASSUME NEW i \in 1 .. Len(stack) + 1
      PROVE  /\ Fits(prog, facts, stack'[i])
             /\ i < Len(stack) + 1 => CalledFrom(prog, facts, stack'[i], stack'[i + 1])
  <2>1. CASE i = 1
    BY <1>1, <2>1
  <2>2. CASE i = 2
    <3>1. 1 \in 1 .. Len(stack)
      BY <1>1
    <3>2. 1 < Len(stack) => CalledFrom(prog, facts, stack[1], stack[2])
      BY <3>1 DEF Chained
    <3>3. 1 < Len(stack) => stack'[3] = stack[2]
      BY <1>1
    <3>4. 1 < Len(stack) => CalledFrom(prog, facts, caller, stack'[3])
      BY <3>2, <3>3 DEF CalledFrom, Top
    <3>. QED
      BY <1>1, <2>2, <3>4
  <2>3. CASE i \notin {1, 2}
    <3>1. i \in 3 .. Len(stack) + 1 /\ i - 1 \in 1 .. Len(stack)
      BY <1>1, <2>3
    <3>2. /\ Fits(prog, facts, stack[i - 1])
          /\ i - 1 < Len(stack) => CalledFrom(prog, facts, stack[i - 1], stack[(i - 1) + 1])
      BY <3>1 DEF Chained
    <3>3. i < Len(stack) + 1 => /\ i + 1 \in 3 .. Len(stack) + 1
                                /\ (i + 1) - 1 = (i - 1) + 1 /\ i - 1 < Len(stack)
      BY <1>1, <3>1
    <3>. QED
      BY <1>1, <3>1, <3>2, <3>3
  <2>. QED
    BY <2>1, <2>2, <2>3
<1>. QED
  BY <1>1, <1>2 DEF Chained

\* A callee is left: its caller, changed, becomes the innermost activation.
LEMMA LeaveChained ==
  ASSUME NEW facts, StackInv, Chained(prog, facts, stack), stack # << >>, Len(stack) # 1,
         NEW act, Fits(prog, facts, act), act.fn = stack[2].fn,
         stack' = <<act>> \o Tail(Tail(stack))
  PROVE  Chained(prog, facts, stack')
<1>1. PICK n \in Nat \ {0} : Len(stack) = n + 1
  <2>1. PICK m \in Nat \ {0} : m = Len(stack) /\ m # 1
    BY Popped DEF StackInv
  <2>2. m - 1 \in Nat \ {0} /\ Len(stack) = (m - 1) + 1
    BY <2>1
  <2>. QED
    BY <2>2
<1>. DEFINE s == Tail(stack)
<1>2. IsSeq(s) /\ Len(s) = n /\ \A i \in 1 .. n : s[i] = stack[i + 1]
  BY <1>1, Popped DEF StackInv
<1>. HIDE DEF s
<1>3. s # << >>
  BY <1>2
<1>4. /\ Len(stack') = n /\ stack'[1] = act
      /\ \A i \in 2 .. n : stack'[i] = stack[i + 1]
  <2>1. stack' = <<act>> \o Tail(s)
    BY DEF s
  <2>2. /\ Len(stack') = n /\ stack'[1] = act
        /\ \A i \in 2 .. n : stack'[i] = s[i]
    BY <1>2, <1>3, <2>1, Replaced
  <2>. QED
    BY <1>2, <2>2
<1>5. ASSUME NEW i \in 1 .. n
      PROVE  /\ Fits(prog, facts, stack'[i])
             /\ i < n => CalledFrom(prog, facts, stack'[i], stack'[i + 1])
  <2>1. /\ Fits(prog, facts, stack[i + 1])
        /\ i < n => CalledFrom(prog, facts, stack[i + 1], stack[(i + 1) + 1])
    <3>1. i + 1 \in 1 .. Len(stack) /\ (i < n => i + 1 < Len(stack))
      BY <1>1
    <3>. QED
      BY <3>1 DEF Chained
  <2>2. i < n => i + 1 \in 2 .. n
    OBVIOUS
  <2>3. i < n => stack'[i + 1] = stack[(i + 1) + 1]
    BY <1>4, <2>2
  <2>4. CASE i = 1
    <3>1. act.fn = stack[i + 1].fn
      BY <2>4
    <3>. QED
      BY <1>4, <2>1, <2>3, <2>4, <3>1 DEF CalledFrom
  <2>5. CASE i # 1
    <3>1. i \in 2 .. n
      BY <2>5
    <3>. QED
      BY <1>4, <2>1, <2>3, <3>1
  <2>. QED
    BY <2>4, <2>5
<1>. QED
  BY <1>1, <1>4, <1>5 DEF Chained

\* One step, for any set of facts that holds what it implies.
LEMMA FlowStep ==
  ASSUME StackInv, TypeInv, [Next]_vars, NEW facts, Solves(prog, facts),
         Chained(prog, facts, stack), lineFuncList \subseteq Calls(prog, facts)
  PROVE  /\ prog' = prog
         /\ Chained(prog, facts, stack') /\ lineFuncList' \subseteq Calls(prog, facts)
<1>. DEFINE Goal == /\ prog' = prog
                    /\ Chained(prog, facts, stack')
                    /\ lineFuncList' \subseteq Calls(prog, facts)
<1>. SUFFICES Goal
  OBVIOUS
<1>1. StackTyped /\ prog \in Modules
  BY DEF TypeInv
<1>2. stack # << >> => Shape(Top) /\ Fits(prog, facts, Top)
  BY <1>1, TopIsTyped, TopFits
<1>3. ASSUME stack # << >>, UNCHANGED <<prog, lineFuncList>>,
             NEW act, SetTop(act), Fits(prog, facts, act) /\ act.fn = Top.fn
      PROVE  Goal
  BY <1>3, SetTopChained
<1>4. ASSUME SkipIntrinsic PROVE Goal
  BY <1>4 DEF SkipIntrinsic
<1>5. ASSUME NextFunction PROVE Goal
  <2>1. PICK act : act = Activation(Head(todo), EmptyInfo) /\ Fits(prog, facts, act)
    BY NewFits, EmptyIn
  <2>2. stack' = <<act>> /\ UNCHANGED <<prog, lineFuncList>>
    BY <1>5, <2>1 DEF NextFunction
  <2>3. Len(stack') = 1 /\ stack'[1] = act
    BY <2>2
  <2>. QED
    BY <2>1, <2>2, <2>3 DEF Chained
<1>6. ASSUME TakeBlock PROVE Goal
  <2>1. PICK bb \in Top.worklist :
          SetTop([Top EXCEPT !.worklist = @ \ {bb}, !.at = "inst", !.bb = bb, !.pc = 1,
                             !.dfval = bbentryval(bb), !.entry[bb] = bbentryval(bb)])
    BY <1>6 DEF TakeBlock
  <2>2. stack # << >> /\ UNCHANGED <<prog, lineFuncList>>
    BY <1>6 DEF TakeBlock
  <2>3. PICK act : act = [Top EXCEPT !.worklist = @ \ {bb}, !.at = "inst", !.bb = bb, !.pc = 1,
                                     !.dfval = bbentryval(bb), !.entry[bb] = bbentryval(bb)]
    OBVIOUS
  <2>4. Fits(prog, facts, act) /\ act.fn = Top.fn
    BY <1>2, <2>2, <2>3, TakenFits
  <2>. QED
    BY <1>3, <2>1, <2>2, <2>3, <2>4
<1>7. ASSUME Transfer PROVE Goal
  <2>1. stack # << >> /\ UNCHANGED <<prog, lineFuncList>> /\ Top.at = "inst"
    BY <1>7 DEF Transfer, AtInst
  <2>2. inst \in Insts(prog)
    BY <1>1, <1>7, TopInst DEF Transfer
  <2>3. PICK info : info = Handled(prog, inst, Top.dfval) /\ InfoIn(facts, info)
    BY <1>1, <1>2, <2>1, <2>2, HandledIn DEF Fits, ActIn
  <2>4. PICK pc, act : act = [Top EXCEPT !.dfval = info, !.pc = pc] /\ SetTop(act)
    BY <1>7, <2>3 DEF Transfer
  <2>5. Fits(prog, facts, act) /\ act.fn = Top.fn
    BY <1>2, <2>1, <2>3, <2>4, TransferredFits
  <2>. QED
    BY <1>3, <2>1, <2>4, <2>5
<1>8. ASSUME Return PROVE Goal
  <2>1. stack # << >> /\ UNCHANGED <<prog, lineFuncList>> /\ Top.at = "inst"
    BY <1>8 DEF Return, AtInst
  <2>2. inst \in Returns(prog, Top.fn)
    BY <1>1, <1>8, TopInst DEF Return, Returns
  <2>3. CASE IsRoot
    <3>1. PICK act : act = [Top EXCEPT !.dfval = Top.dfval, !.pc = @ + 1] /\ SetTop(act)
      <4>1. PICK act : act = [Top EXCEPT !.pc = @ + 1] /\ SetTop(act)
        BY <1>8, <2>3 DEF Return
      <4>2. act = [Top EXCEPT !.dfval = Top.dfval, !.pc = @ + 1]
        BY <1>2, <2>1, <4>1 DEF Shape, Fields
      <4>. QED
        BY <4>1, <4>2
    <3>2. PICK info, pc : /\ info = Top.dfval /\ InfoIn(facts, info)
                          /\ act = [Top EXCEPT !.dfval = info, !.pc = pc]
      <4>1. InfoIn(facts, Top.dfval)
        BY <1>2, <2>1 DEF Fits, ActIn
      <4>. QED
        BY <3>1, <4>1
    <3>3. Fits(prog, facts, act) /\ act.fn = Top.fn
      <4>1. InfoIn(facts, info)
        BY <3>2
      <4>2. act = [Top EXCEPT !.dfval = info, !.pc = pc]
        BY <3>2
      <4>3. Shape(Top) /\ Fits(prog, facts, Top) /\ Top.at = "inst"
        BY <1>2, <2>1
      <4>. QED
        BY <4>1, <4>2, <4>3, TransferredFits
    <3>. QED
      BY <1>3, <2>1, <3>1, <3>3
  <2>4. CASE ~IsRoot
    <3>1. PICK i, info : i = inst /\ info = Asked(prog, Top.dfval, {i.val})
      OBVIOUS
    <3>2. PICK act :
            /\ act = [Top EXCEPT !.dfval = info, !.pc = @ + 1,
                        !.retSets.first = @ \cup pointTo(prog, info, i.val),
                        !.retSets.second = Plus(@, info.alias)]
            /\ SetTop(act)
      BY <1>8, <2>4, <3>1 DEF Return
    <3>3. Fits(prog, facts, act) /\ act.fn = Top.fn
      BY <1>2, <2>1, <2>2, <3>1, <3>2, ReturnedFits
    <3>. QED
      BY <1>3, <2>1, <3>2, <3>3
  <2>. QED
    BY <2>3, <2>4
<1>9. ASSUME Resolve PROVE Goal
  <2>1. stack # << >> /\ prog' = prog /\ inst.op = "call"
    BY <1>9 DEF Resolve, AtInst
  <2>2. inst \in Insts(prog)
    BY <1>1, <1>9, TopInst DEF Resolve
  <2>3. PICK callees, info1, info2, info3, act :
          /\ ResolvedTo(callees, info1, info2, info3, act)
          /\ SetTop(act)
          /\ lineFuncList' = lineFuncList \cup {<<inst.line, f>> : f \in callees}
    <3>. DEFINE callees == (pointTo(prog, Top.dfval, inst.callee) \cap Funcs(prog))
                             \ prog.intrinsic
                info1 == Asked(prog, Top.dfval, {inst.callee})
                info2 == IF callees \cap Declared(prog) = {} THEN info1
                         ELSE SetPointTo(info1, inst.id, {inst.id})
                info3 == Asked(prog, info2, Range(inst.args))
                act == [Top EXCEPT
                          !.at = "call", !.dfval = info3,
                          !.callees = callees \ Declared(prog),
                          !.argsVec = [i \in DOMAIN inst.args |-> info3.pts[inst.args[i]]],
                          !.alias = EmptyMap, !.flag = FALSE]
    <3>1. /\ SetTop(act)
          /\ lineFuncList' = lineFuncList \cup {<<inst.line, f>> : f \in callees}
      BY <1>9 DEF Resolve
    <3>2. ResolvedTo(callees, info1, info2, info3, act)
      BY Zenon DEF ResolvedTo
    <3>. HIDE DEF callees, info1, info2, info3, act
    <3>. QED
      BY <3>1, <3>2
  <2>4. /\ Fits(prog, facts, act) /\ act.fn = Top.fn
        /\ callees \subseteq Reached(prog, facts, inst)
    BY <1>1, <1>2, <2>1, <2>2, <2>3, ResolvedFits
  <2>5. {<<inst.line, f>> : f \in callees} \subseteq Calls(prog, facts)
    BY <2>1, <2>2, <2>4 DEF Calls
  <2>6. Chained(prog, facts, stack')
    BY <2>1, <2>3, <2>4, SetTopChained
  <2>. QED
    BY <2>1, <2>3, <2>5, <2>6
<1>10. ASSUME Enter PROVE Goal
  <2>1. stack # << >> /\ UNCHANGED <<prog, lineFuncList>> /\ Top.at = "call"
    BY <1>10 DEF Enter, AtCall
  <2>2. PICK f, args, caller, act :
          /\ f \in Top.callees
          /\ DOMAIN Top.argsVec \subseteq DOMAIN prog.args[f]
          /\ args = [a \in {prog.args[f][i] : i \in DOMAIN Top.argsVec} |->
                       UNION {Top.argsVec[i] :
                         i \in {j \in DOMAIN Top.argsVec : prog.args[f][j] = a}}]
          /\ caller = [Top EXCEPT !.callees = @ \ {f}]
          /\ act = Activation(f, [pts |-> args, alias |-> Top.dfval.alias])
          /\ stack' = <<act, caller>> \o Tail(stack)
    BY <1>10 DEF Enter
  <2>3. /\ InfoIn(facts, [pts |-> args, alias |-> Top.dfval.alias])
        /\ Fits(prog, facts, caller) /\ caller.fn = Top.fn
        /\ f \in Reached(prog, facts, CallOf(prog, caller))
    BY <1>2, <2>1, <2>2, EnteredFits
  <2>4. Fits(prog, facts, act)
    BY <2>2, <2>3, NewFits
  <2>5. act.fn = f
    BY <2>2 DEF Activation
  <2>6. CalledFrom(prog, facts, act, caller)
    BY <2>3, <2>5 DEF CalledFrom
  <2>. QED
    BY <2>1, <2>2, <2>3, <2>4, <2>6, EnterChained
<1>11. ASSUME Leave PROVE Goal
  <2>1. stack # << >> /\ UNCHANGED <<prog, lineFuncList>> /\ Len(stack) # 1
    BY <1>11 DEF Leave, IsRoot
  <2>2. PICK caller, ret, act :
          caller = stack[2] /\ Left(caller, ret, act) /\ stack' = <<act>> \o Tail(Tail(stack))
    <3>. DEFINE caller == stack[2]
                ret == [k \in {CallOf(prog, caller).id} |-> Top.retSets.first]
                act == [caller EXCEPT !.dfval.pts = Plus(@, ret),
                                      !.alias = Plus(@, Top.retSets.second), !.flag = TRUE]
    <3>1. stack' = <<act>> \o Tail(Tail(stack))
      BY <1>11 DEF Leave, CallOf
    <3>2. Left(caller, ret, act)
      BY Zenon DEF Left
    <3>. HIDE DEF ret, act
    <3>. QED
      BY <3>1, <3>2
  <2>3. 2 \in 1 .. Len(stack) /\ 1 < Len(stack)
    <3>1. PICK n \in Nat \ {0} : n = Len(stack) /\ n # 1
      BY <2>1, Popped DEF StackInv
    <3>2. 2 \in 1 .. n /\ 1 < n
      BY <3>1
    <3>. QED
      BY <3>1, <3>2
  <2>4. Shape(caller) /\ caller.at = "call"
    BY <1>1, <2>2, <2>3 DEF StackInv, ActOK, StackTyped, Placed
  <2>5. Fits(prog, facts, caller) /\ CalledFrom(prog, facts, Top, caller)
    <3>1. 1 \in 1 .. Len(stack) /\ 1 + 1 = 2
      BY <2>3
    <3>. QED
      BY <2>2, <2>3, <3>1 DEF Chained, Top
  <2>6. Fits(prog, facts, act) /\ act.fn = caller.fn
    BY <1>2, <2>1, <2>2, <2>4, <2>5, LeftFits
  <2>. QED
    BY <2>1, <2>2, <2>6, LeaveChained
<1>12. ASSUME CallDone PROVE Goal
  <2>1. stack # << >> /\ UNCHANGED <<prog, lineFuncList>>
    BY <1>12 DEF CallDone, AtCall
  <2>2. PICK pc, act :
          /\ act = [Top EXCEPT !.dfval.alias = IF Top.flag THEN Top.alias ELSE @,
                               !.at = "inst", !.pc = pc,
                               !.argsVec = << >>, !.alias = EmptyMap, !.flag = FALSE]
          /\ SetTop(act)
    BY <1>12 DEF CallDone
  <2>3. Fits(prog, facts, act) /\ act.fn = Top.fn
    BY <1>2, <2>1, <2>2, DoneFits
  <2>. QED
    BY <1>3, <2>1, <2>2, <2>3
<1>13. ASSUME EndBlock PROVE Goal
  <2>1. stack # << >> /\ UNCHANGED <<prog, lineFuncList>>
    BY <1>13 DEF EndBlock
  <2>2. PICK list, act :
          /\ act = [Top EXCEPT !.exit[Top.bb] = Top.dfval, !.worklist = list, !.at = "loop",
                               !.bb = nullptr, !.pc = 1, !.dfval = EmptyInfo]
          /\ SetTop(act)
    BY <1>13 DEF EndBlock
  <2>3. Fits(prog, facts, act) /\ act.fn = Top.fn
    BY <1>2, <2>1, <2>2, EndedFits
  <2>. QED
    BY <1>3, <2>1, <2>2, <2>3
<1>14. ASSUME FunctionDone PROVE Goal
  <2>1. Len(stack') = 0 /\ UNCHANGED <<prog, lineFuncList>>
    BY <1>14 DEF FunctionDone
  <2>. QED
    BY <2>1 DEF Chained
<1>15. ASSUME UNCHANGED vars PROVE Goal
  BY <1>15 DEF vars
<1>. QED
  BY <1>4, <1>5, <1>6, <1>7, <1>8, <1>9, <1>10, <1>11, <1>12, <1>13, <1>14, <1>15 DEF Next

LEMMA FlowNext == StackInv /\ TypeInv /\ FlowInv /\ [Next]_vars => FlowInv'
<1>. SUFFICES ASSUME StackInv, TypeInv, FlowInv, [Next]_vars PROVE FlowInv'
  OBVIOUS
<1>1. PICK facts : facts = Solution(prog) /\ Solves(prog, facts)
  BY ModulesFinite, SolutionHolds DEF TypeInv
<1>2. Chained(prog, facts, stack) /\ lineFuncList \subseteq Calls(prog, facts)
  BY <1>1 DEF FlowInv
<1>3. /\ prog' = prog
      /\ Chained(prog, facts, stack') /\ lineFuncList' \subseteq Calls(prog, facts)
  BY <1>1, <1>2, FlowStep
<1>. QED
  BY <1>1, <1>3 DEF FlowInv

\* The pass reports no call that is impossible when the order of instructions is
\* ignored, whatever the module, the order of its blocks and the depth of the calls:
\* arguments, results and the memory of a callee reach only the call they belong to.
THEOREM NoCallInvented == SoundSpec => []NothingInvented
<1>. DEFINE Inv == StackInv /\ TypeInv /\ FlowInv
<1>1. SoundInit => Inv
  <2>. SUFFICES ASSUME Init PROVE Inv
    BY DEF SoundInit
  <2>1. stack = << >> /\ Len(stack) = 0 /\ << >> \in Seq({})
    BY DEF Init
  <2>2. StackInv
    BY <2>1 DEF StackInv, IsSeq
  <2>3. todo \in Seq(Funcs(prog))
    BY ModulesAssumption DEF Init, Funcs
  <2>4. FlowInv
    BY <2>1 DEF Init, FlowInv, Chained
  <2>. QED
    BY <2>1, <2>2, <2>3, <2>4 DEF Init, TypeInv, StackTyped
<1>2. [Analyse \/ Run]_soundVars => [Next]_vars
  BY DEF Analyse, Run, soundVars
<1>3. Inv /\ [Next]_vars => Inv'
  BY StackNext, TypeNext, FlowNext
<1>4. Inv => NothingInvented
  BY DEF TypeInv, FlowInv, NothingInvented, Possible
<1>. QED
  BY <1>1, <1>2, <1>3, <1>4, PTL DEF SoundSpec
=============================================================================
