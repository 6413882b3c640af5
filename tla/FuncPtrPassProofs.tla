------------------------- MODULE FuncPtrPassProofs -------------------------
(***************************************************************************)
(* Proofs about FuncPtrPass, for every module: the call stack that the     *)
(* handlers pass by value is never empty when its top is read, the two     *)
(* sets that are global to the pass are what the handlers in progress have *)
(* put there, and no call is reported that flow-insensitive inclusion      *)
(* finds impossible.                                                       *)
(***************************************************************************)
EXTENDS FuncPtrPass, FlowInsensitiveProofs

-----------------------------------------------------------------------------
(***************************************************************************)
(* The inductive invariant.  Every value on the stack, and every value the *)
(* loop of a function has still to handle, comes with enough calls; and    *)
(* phi nodes in progress do not touch the incoming blocks of one another,  *)
(* which handlePHINode sees to by following a selected block.              *)
(***************************************************************************)

Enough(inner, calls) ==
  /\ inner \in BOOLEAN
  /\ IsSeq(calls)
  /\ Len(calls) >= IF inner THEN 2 ELSE 1

IsGoal(fr) == fr = Goal(fr.val, fr.inner, fr.calls) /\ Enough(fr.inner, fr.calls)

IsBody(fr) ==
  /\ fr = [at |-> "body", fn |-> fr.fn, left |-> fr.left]
  /\ IsSeq(fr.left)
  /\ \A i \in 1 .. Len(fr.left) : IsGoal(fr.left[i])

IsPhi(fr) ==
  /\ fr = [at |-> "phi", phi |-> fr.phi, picked |-> fr.picked, left |-> fr.left,
           inner |-> fr.inner, calls |-> fr.calls]
  /\ Enough(fr.inner, fr.calls)

Depth == 1 .. Len(stack)

FramesOK ==
  /\ prog \in Modules
  /\ IsSeq(stack)
  /\ \A i \in Depth : IsGoal(stack[i]) \/ IsBody(stack[i]) \/ IsPhi(stack[i])

UsersInProgress ==
  \A f \in DOMAIN funcUser : \E i \in Depth : IsBody(stack[i]) /\ stack[i].fn = f

SelectedInProgress ==
  \A b : b \in selectedBlock <=> \E i \in Depth : IsPhi(stack[i]) /\ b \in stack[i].picked

PhisApart ==
  \A i, j \in Depth :
    i < j /\ IsPhi(stack[i]) /\ IsPhi(stack[j]) =>
      \A b \in stack[j].picked : b \notin stack[i].picked /\ b \notin stack[i].left

IInv == FramesOK /\ UsersInProgress /\ SelectedInProgress /\ PhisApart

-----------------------------------------------------------------------------

LEMMA CalledIsGoal ==
  ASSUME NEW callinst, NEW calls, IsSeq(calls)
  PROVE  /\ IsGoal(Called(callinst, FALSE, calls))
         /\ Len(calls) >= 1 => IsGoal(Called(callinst, TRUE, calls))
BY Pushed DEF IsGoal, Enough, Called, Goal

\* The three kinds of frames are different.
LEMMA OneKind ==
  ASSUME NEW fr
  PROVE  /\ IsGoal(fr) => fr.at = "value"
         /\ IsBody(fr) => fr.at = "body"
         /\ IsPhi(fr) => fr.at = "phi"
BY DEF IsGoal, IsBody, IsPhi, Goal

\* A function remains in progress while a loop over its instructions does.
LEMMA UsersStay ==
  ASSUME IInv, UNCHANGED funcUser,
         \A i \in Depth : IsBody(stack[i]) =>
           \E k \in Depth' : IsBody(stack'[k]) /\ stack'[k].fn = stack[i].fn
  PROVE  UsersInProgress'
BY DEF IInv, UsersInProgress

\* A handler without a loop goes on as another one.
LEMMA GoOn ==
  ASSUME IInv, AtValue, NEW fr, IsGoal(fr), stack' = <<fr>> \o Tail(stack),
         UNCHANGED <<prog, funcUser, selectedBlock>>
  PROVE  IInv'
<1>. USE DEF Depth
<1>1. /\ IsSeq(stack) /\ stack # << >> /\ stack[1].at = "value"
  BY DEF IInv, FramesOK, AtValue, Top
<1>2. /\ IsSeq(stack') /\ Len(stack') = Len(stack) /\ Len(stack) \in Nat \ {0}
      /\ stack'[1] = fr
      /\ \A i \in 2 .. Len(stack) : stack'[i] = stack[i]
  BY <1>1, Replaced
<1>3. /\ ~IsBody(stack[1]) /\ ~IsPhi(stack[1]) /\ ~IsBody(fr) /\ ~IsPhi(fr)
  BY <1>1, OneKind
<1>4. FramesOK'
  BY <1>2 DEF IInv, FramesOK
<1>5. UsersInProgress'
  BY <1>2, <1>3 DEF IInv, UsersInProgress
<1>6. SelectedInProgress'
  BY <1>2, <1>3 DEF IInv, SelectedInProgress
<1>7. PhisApart'
  BY <1>2, <1>3 DEF IInv, PhisApart
<1>. QED
  BY <1>4, <1>5, <1>6, <1>7 DEF IInv

\* A handler enters the loop over the instructions of a function.
LEMMA EnterFunction ==
  ASSUME IInv, AtValue, NEW fr, IsBody(fr), stack' = <<fr>> \o Tail(stack),
         NEW user, funcUser' = Remember(fr.fn, user),
         UNCHANGED <<prog, selectedBlock>>
  PROVE  IInv'
<1>. USE DEF Depth
<1>1. /\ IsSeq(stack) /\ stack # << >> /\ stack[1].at = "value"
  BY DEF IInv, FramesOK, AtValue, Top
<1>2. /\ IsSeq(stack') /\ Len(stack') = Len(stack) /\ Len(stack) \in Nat \ {0}
      /\ stack'[1] = fr
      /\ \A i \in 2 .. Len(stack) : stack'[i] = stack[i]
  BY <1>1, Replaced
<1>3. ~IsBody(stack[1]) /\ ~IsPhi(stack[1]) /\ ~IsPhi(fr)
  BY <1>1, OneKind
<1>4. FramesOK'
  BY <1>2 DEF IInv, FramesOK
<1>5. DOMAIN funcUser' = {fr.fn} \cup DOMAIN funcUser
  BY DEF Remember
<1>6. UsersInProgress'
  <2>. SUFFICES ASSUME NEW f \in DOMAIN funcUser'
                PROVE  \E i \in Depth' : IsBody(stack'[i]) /\ stack'[i].fn = f
    BY DEF UsersInProgress
  <2>1. CASE f = fr.fn
    BY <1>2, <2>1
  <2>2. CASE f \in DOMAIN funcUser
    <3>1. PICK i \in Depth : IsBody(stack[i]) /\ stack[i].fn = f
      BY <2>2 DEF IInv, UsersInProgress
    <3>2. i \in 2 .. Len(stack)
      BY <1>2, <1>3, <3>1
    <3>. QED
      BY <1>2, <3>1, <3>2
  <2>. QED
    BY <1>5, <2>1, <2>2
<1>7. SelectedInProgress'
  BY <1>2, <1>3 DEF IInv, SelectedInProgress
<1>8. PhisApart'
  BY <1>2, <1>3 DEF IInv, PhisApart
<1>. QED
  BY <1>4, <1>6, <1>7, <1>8 DEF IInv

\* The calls of handleValue that the loop of a function will make.
LEMMA LoopIsBody ==
  ASSUME NEW fn, NEW made, IsSeq(made), NEW left, left = [i \in DOMAIN made |-> left[i]],
         \A i \in DOMAIN made : IsGoal(left[i])
  PROVE  IsBody([at |-> "body", fn |-> fn, left |-> left])
<1>. DEFINE R == {left[i] : i \in 1 .. Len(made)}
<1>1. Len(made) \in Nat /\ DOMAIN made = 1 .. Len(made)
  BY DEF IsSeq
<1>2. left \in [1 .. Len(made) -> R]
  BY <1>1
<1>3. left \in Seq(R) /\ Len(left) = Len(made)
  BY <1>1, <1>2
<1>. QED
  BY <1>1, <1>3 DEF IsBody, IsSeq

\* What a frame is can be told from its at.
LEMMA KindOfTop ==
  ASSUME IInv, stack # << >>
  PROVE  /\ IsSeq(stack) /\ Len(stack) \in Nat \ {0} /\ prog \in Modules
         /\ Top.at = "value" => IsGoal(Top)
         /\ Top.at = "body" => IsBody(Top)
         /\ Top.at = "phi" => IsPhi(Top)
<1>1. IsSeq(stack) /\ prog \in Modules
  BY DEF IInv, FramesOK
<1>2. Len(stack) \in Nat \ {0}
  BY <1>1, Popped
<1>. QED
  BY <1>1, <1>2, OneKind DEF IInv, FramesOK, Depth, Top

\* A handler returns, and takes what it has put in the two sets with it.
LEMMA Return ==
  ASSUME IInv, stack # << >>, stack' = Tail(stack), UNCHANGED prog,
         \/ /\ Top.at = "value"
            /\ UNCHANGED <<funcUser, selectedBlock>>
         \/ /\ Top.at = "body"
            /\ DOMAIN funcUser' = DOMAIN funcUser \ {Top.fn}
            /\ UNCHANGED selectedBlock
         \/ /\ Top.at = "phi"
            /\ selectedBlock' = selectedBlock \ Top.picked
            /\ UNCHANGED funcUser
  PROVE  IInv'
<1>. USE DEF Depth
<1>1. /\ IsSeq(stack') /\ Len(stack') = Len(stack) - 1 /\ Len(stack) \in Nat \ {0}
      /\ \A i \in 1 .. Len(stack) - 1 : stack'[i] = stack[i + 1]
  BY KindOfTop, Popped
<1>2. \A i \in Depth : i # 1 => i - 1 \in Depth' /\ stack'[i - 1] = stack[i]
  BY <1>1
<1>3. FramesOK'
  BY <1>1 DEF IInv, FramesOK
<1>4. UsersInProgress'
  <2>. SUFFICES ASSUME NEW f \in DOMAIN funcUser'
                PROVE  \E i \in Depth' : IsBody(stack'[i]) /\ stack'[i].fn = f
    BY DEF UsersInProgress
  <2>1. f \in DOMAIN funcUser /\ (Top.at = "body" => f # Top.fn)
    OBVIOUS
  <2>2. PICK i \in Depth : IsBody(stack[i]) /\ stack[i].fn = f
    BY <2>1 DEF IInv, UsersInProgress
  <2>3. i # 1
    BY <2>1, <2>2, OneKind DEF Top
  <2>. QED
    BY <1>2, <2>2, <2>3
<1>5. PhisApart'
  BY <1>1 DEF IInv, PhisApart
<1>6. SelectedInProgress'
  <2>. SUFFICES ASSUME NEW b
                PROVE  b \in selectedBlock' <=>
                         \E i \in Depth' : IsPhi(stack'[i]) /\ b \in stack'[i].picked
    BY DEF SelectedInProgress
  <2>1. ASSUME b \in selectedBlock'
        PROVE  \E i \in Depth' : IsPhi(stack'[i]) /\ b \in stack'[i].picked
    <3>1. b \in selectedBlock /\ (Top.at = "phi" => b \notin Top.picked)
      BY <2>1
    <3>2. PICK i \in Depth : IsPhi(stack[i]) /\ b \in stack[i].picked
      BY <3>1 DEF IInv, SelectedInProgress
    <3>3. i # 1
      BY <3>1, <3>2, OneKind DEF Top
    <3>. QED
      BY <1>2, <3>2, <3>3
  <2>2. ASSUME NEW i \in Depth', IsPhi(stack'[i]), b \in stack'[i].picked
        PROVE  b \in selectedBlock'
    <3>1. i + 1 \in Depth /\ 1 \in Depth /\ 1 < i + 1 /\ stack'[i] = stack[i + 1]
      BY <1>1
    <3>2. IsPhi(stack[i + 1]) /\ b \in stack[i + 1].picked
      BY <2>2, <3>1
    <3>3. b \in selectedBlock
      BY <3>1, <3>2 DEF IInv, SelectedInProgress
    <3>4. IsPhi(stack[1]) => b \notin stack[1].picked
      BY <3>1, <3>2 DEF IInv, PhisApart
    <3>. QED
      BY <3>3, <3>4, KindOfTop DEF Top
  <2>. QED
    BY <2>1, <2>2
<1>. QED
  BY <1>3, <1>4, <1>5, <1>6 DEF IInv

\* handlePHINode begins its loop: no incoming block of the node is selected.
LEMMA EnterPHINode ==
  ASSUME IInv, AtValue, NEW fr, IsPhi(fr), fr.picked = {},
         \A b \in fr.left : b \notin selectedBlock, stack' = <<fr>> \o Tail(stack),
         UNCHANGED <<prog, funcUser, selectedBlock>>
  PROVE  IInv'
<1>. USE DEF Depth
<1>1. /\ IsSeq(stack) /\ stack # << >> /\ stack[1].at = "value"
  BY DEF IInv, FramesOK, AtValue, Top
<1>2. /\ IsSeq(stack') /\ Len(stack') = Len(stack) /\ Len(stack) \in Nat \ {0}
      /\ stack'[1] = fr
      /\ \A i \in 2 .. Len(stack) : stack'[i] = stack[i]
  BY <1>1, Replaced
<1>3. ~IsBody(stack[1]) /\ ~IsPhi(stack[1]) /\ ~IsBody(fr)
  BY <1>1, OneKind
<1>4. FramesOK'
  BY <1>2 DEF IInv, FramesOK
<1>5. UsersInProgress'
  <2>1. \A i \in Depth : IsBody(stack[i]) => i \in Depth' /\ stack'[i] = stack[i]
    BY <1>2, <1>3
  <2>. QED
    BY <2>1, UsersStay
<1>6. SelectedInProgress'
  BY <1>2, <1>3 DEF IInv, SelectedInProgress
<1>7. PhisApart'
  <2>. SUFFICES ASSUME NEW i \in Depth', NEW j \in Depth', i < j,
                       IsPhi(stack'[i]), IsPhi(stack'[j]), NEW b \in stack'[j].picked
                PROVE  b \notin stack'[i].picked /\ b \notin stack'[i].left
    BY DEF PhisApart
  <2>1. i \in Depth /\ j \in 2 .. Len(stack) /\ stack'[j] = stack[j]
    BY <1>2
  <2>2. CASE i = 1
    <3>1. b \in selectedBlock
      BY <2>1 DEF IInv, SelectedInProgress
    <3>. QED
      BY <1>2, <2>2, <3>1
  <2>3. CASE i # 1
    BY <1>2, <2>1, <2>3 DEF IInv, PhisApart
  <2>. QED
    BY <2>2, <2>3
<1>. QED
  BY <1>4, <1>5, <1>6, <1>7 DEF IInv

\* A loop over the instructions of a function handles the next one.
LEMMA NextOfFunction ==
  ASSUME IInv, stack # << >>, Top.at = "body", NEW fr, IsGoal(fr),
         NEW loop, IsBody(loop), loop.fn = Top.fn,
         stack' = <<fr, loop>> \o Tail(stack),
         UNCHANGED <<prog, funcUser, selectedBlock>>
  PROVE  IInv'
<1>. USE DEF Depth
<1>1. /\ IsSeq(stack') /\ Len(stack') = Len(stack) + 1 /\ Len(stack) \in Nat \ {0}
      /\ stack'[1] = fr /\ stack'[2] = loop
      /\ \A i \in 3 .. Len(stack) + 1 : stack'[i] = stack[i - 1]
  BY KindOfTop, Nested
<1>2. \A i \in Depth : i # 1 => i + 1 \in Depth' /\ stack'[i + 1] = stack[i]
  BY <1>1
<1>3. /\ ~IsBody(fr) /\ ~IsPhi(fr) /\ ~IsPhi(loop)
      /\ IsBody(stack[1]) /\ ~IsPhi(stack[1])
  BY OneKind, KindOfTop DEF Top
<1>4. FramesOK'
  BY <1>1 DEF IInv, FramesOK
<1>5. UsersInProgress'
  <2>. SUFFICES ASSUME NEW f \in DOMAIN funcUser
                PROVE  \E i \in Depth' : IsBody(stack'[i]) /\ stack'[i].fn = f
    BY DEF UsersInProgress
  <2>1. PICK i \in Depth : IsBody(stack[i]) /\ stack[i].fn = f
    BY DEF IInv, UsersInProgress
  <2>2. CASE i = 1
    BY <1>1, <2>1, <2>2 DEF Top
  <2>. QED
    BY <1>2, <2>1, <2>2
<1>6. \A i \in Depth' :
        IsPhi(stack'[i]) => i - 1 \in Depth /\ stack'[i] = stack[i - 1] /\ IsPhi(stack[i - 1])
  BY <1>1, <1>3
<1>7. SelectedInProgress'
  <2>. SUFFICES ASSUME NEW b
                PROVE  b \in selectedBlock <=>
                         \E i \in Depth' : IsPhi(stack'[i]) /\ b \in stack'[i].picked
    BY DEF SelectedInProgress
  <2>1. b \in selectedBlock <=> \E i \in Depth : IsPhi(stack[i]) /\ b \in stack[i].picked
    BY DEF IInv, SelectedInProgress
  <2>2. ASSUME NEW i \in Depth, IsPhi(stack[i]), b \in stack[i].picked
        PROVE  \E k \in Depth' : IsPhi(stack'[k]) /\ b \in stack'[k].picked
    BY <1>2, <1>3, <2>2
  <2>. QED
    BY <1>6, <2>1, <2>2
<1>8. PhisApart'
  <2>. SUFFICES ASSUME NEW i \in Depth', NEW j \in Depth', i < j,
                       IsPhi(stack'[i]), IsPhi(stack'[j]), NEW b \in stack'[j].picked
                PROVE  b \notin stack'[i].picked /\ b \notin stack'[i].left
    BY DEF PhisApart
  <2>1. i - 1 \in Depth /\ j - 1 \in Depth /\ i - 1 < j - 1
    BY <1>6
  <2>2. /\ stack'[i] = stack[i - 1] /\ IsPhi(stack[i - 1])
        /\ stack'[j] = stack[j - 1] /\ IsPhi(stack[j - 1])
    BY <1>6
  <2>. QED
    BY <2>1, <2>2 DEF IInv, PhisApart
<1>. QED
  BY <1>4, <1>5, <1>7, <1>8 DEF IInv

\* A phi loop deselects its last block and selects the next one.
LEMMA NextOfPHINode ==
  ASSUME IInv, stack # << >>, Top.at = "phi", NEW fr, IsGoal(fr),
         NEW bb \in Top.left, NEW loop, IsPhi(loop),
         loop.picked = {bb}, loop.left = Top.left \ {bb},
         selectedBlock' = (selectedBlock \ Top.picked) \cup {bb},
         stack' = <<fr, loop>> \o Tail(stack), UNCHANGED <<prog, funcUser>>
  PROVE  IInv'
<1>. USE DEF Depth
<1>1. /\ IsSeq(stack') /\ Len(stack') = Len(stack) + 1 /\ Len(stack) \in Nat \ {0}
      /\ stack'[1] = fr /\ stack'[2] = loop
      /\ \A i \in 3 .. Len(stack) + 1 : stack'[i] = stack[i - 1]
  BY KindOfTop, Nested
<1>2. \A i \in Depth : i # 1 => i + 1 \in Depth' /\ stack'[i + 1] = stack[i]
  BY <1>1
<1>3. /\ ~IsBody(fr) /\ ~IsPhi(fr) /\ IsPhi(stack[1]) /\ ~IsBody(stack[1])
  BY OneKind, KindOfTop DEF Top
<1>4. FramesOK'
  BY <1>1 DEF IInv, FramesOK
<1>5. UsersInProgress'
  <2>1. \A i \in Depth : IsBody(stack[i]) => i + 1 \in Depth' /\ stack'[i + 1] = stack[i]
    BY <1>2, <1>3
  <2>. QED
    BY <2>1, UsersStay
<1>6. \A i \in Depth' :
        IsPhi(stack'[i]) /\ i # 2 =>
          i - 1 \in Depth /\ 1 < i - 1 /\ stack'[i] = stack[i - 1] /\ IsPhi(stack[i - 1])
  BY <1>1, <1>3
<1>7. \A i \in Depth : 1 < i /\ IsPhi(stack[i]) =>
        \A b \in stack[i].picked : b \notin Top.picked /\ b \notin Top.left
  BY <1>1, <1>3 DEF IInv, PhisApart, Top
<1>8. SelectedInProgress'
  <2>. SUFFICES ASSUME NEW b
                PROVE  b \in selectedBlock' <=>
                         \E i \in Depth' : IsPhi(stack'[i]) /\ b \in stack'[i].picked
    BY DEF SelectedInProgress
  <2>1. b \in selectedBlock <=> \E i \in Depth : IsPhi(stack[i]) /\ b \in stack[i].picked
    BY DEF IInv, SelectedInProgress
  <2>2. ASSUME b \in selectedBlock'
        PROVE  \E i \in Depth' : IsPhi(stack'[i]) /\ b \in stack'[i].picked
    <3>1. CASE b = bb
      BY <1>1, <3>1
    <3>2. CASE b # bb
      <4>1. PICK i \in Depth : IsPhi(stack[i]) /\ b \in stack[i].picked
        BY <2>1, <2>2, <3>2
      <4>2. i # 1
        BY <2>2, <3>2, <4>1 DEF Top
      <4>. QED
        BY <1>2, <4>1, <4>2
    <3>. QED
      BY <3>1, <3>2
  <2>3. ASSUME NEW i \in Depth', IsPhi(stack'[i]), b \in stack'[i].picked
        PROVE  b \in selectedBlock'
    <3>1. CASE i = 2
      BY <1>1, <2>3, <3>1
    <3>2. CASE i # 2
      BY <1>6, <1>7, <2>1, <2>3, <3>2
    <3>. QED
      BY <3>1, <3>2
  <2>. QED
    BY <2>2, <2>3
<1>9. PhisApart'
  <2>. SUFFICES ASSUME NEW i \in Depth', NEW j \in Depth', i < j,
                       IsPhi(stack'[i]), IsPhi(stack'[j]), NEW b \in stack'[j].picked
                PROVE  b \notin stack'[i].picked /\ b \notin stack'[i].left
    BY DEF PhisApart
  <2>1. i # 1 /\ j # 2
    BY <1>1, <1>3
  <2>2. /\ j - 1 \in Depth /\ 1 < j - 1 /\ IsPhi(stack[j - 1]) /\ b \in stack[j - 1].picked
    BY <1>6, <2>1
  <2>3. CASE i = 2
    BY <1>1, <1>7, <2>2, <2>3
  <2>4. CASE i # 2
    <3>1. i - 1 \in Depth /\ i - 1 < j - 1 /\ stack'[i] = stack[i - 1] /\ IsPhi(stack[i - 1])
      BY <1>1, <1>6, <2>2, <2>4
    <3>2. b \notin stack[i - 1].picked /\ b \notin stack[i - 1].left
      BY <2>2, <3>1 DEF IInv, PhisApart
    <3>. QED
      BY <3>1, <3>2
  <2>. QED
    BY <2>3, <2>4
<1>. QED
  BY <1>4, <1>5, <1>8, <1>9 DEF IInv

\* What a turn of a loop changes in its frame.
LEMMA BodyAdvances ==
  ASSUME NEW fr, IsBody(fr), NEW rest
  PROVE  [fr EXCEPT !.left = rest] = [at |-> "body", fn |-> fr.fn, left |-> rest]
<1>1. fr \in [at : {"body"}, fn : {fr.fn}, left : {fr.left}]
  BY DEF IsBody
<1>. QED
  BY <1>1

LEMMA PhiAdvances ==
  ASSUME NEW fr, IsPhi(fr), NEW rest, NEW now
  PROVE  [fr EXCEPT !.left = rest, !.picked = now] =
           [at |-> "phi", phi |-> fr.phi, picked |-> now, left |-> rest,
            inner |-> fr.inner, calls |-> fr.calls]
<1>. DEFINE half == [at |-> "phi", phi |-> fr.phi, picked |-> fr.picked, left |-> rest,
                     inner |-> fr.inner, calls |-> fr.calls]
<1>1. fr \in [at : {"phi"}, phi : {fr.phi}, picked : {fr.picked}, left : {fr.left},
              inner : {fr.inner}, calls : {fr.calls}]
  BY DEF IsPhi
<1>2. [fr EXCEPT !.left = rest] = half
  BY <1>1
<1>3. [half EXCEPT !.picked = now] =
        [at |-> "phi", phi |-> fr.phi, picked |-> now, left |-> rest,
         inner |-> fr.inner, calls |-> fr.calls]
  OBVIOUS
<1>4. [fr EXCEPT !.left = rest, !.picked = now] = [[fr EXCEPT !.left = rest] EXCEPT !.picked = now]
  BY <1>1
<1>. HIDE DEF half
<1>. QED
  BY <1>2, <1>3, <1>4

-----------------------------------------------------------------------------
(***************************************************************************)
(* The initial states and the steps.                                       *)
(***************************************************************************)

LEMMA NoCalls == IsSeq(<< >>) /\ Len(<< >>) = 0
<1>1. << >> \in Seq({})
  OBVIOUS
<1>. QED
  BY <1>1 DEF IsSeq

LEMMA InitInvariant == Init => IInv
<1>. SUFFICES ASSUME Init PROVE IInv
  OBVIOUS
<1>1. /\ stack = << >> /\ Depth = {} /\ prog \in Modules
      /\ DOMAIN funcUser = {} /\ selectedBlock = {}
  BY DEF Init, Depth
<1>. QED
  BY <1>1, NoCalls DEF IInv, FramesOK, UsersInProgress, SelectedInProgress, PhisApart

LEMMA NextInvariant == IInv /\ [Next]_vars => IInv'
<1>. SUFFICES ASSUME IInv, [Next]_vars PROVE IInv'
  OBVIOUS
<1>1. CASE NextCall
  <2>. DEFINE fr == Called(Head(todo), FALSE, << >>)
  <2>1. stack = << >> /\ stack' = <<fr>> /\ UNCHANGED <<prog, funcUser, selectedBlock>>
    BY <1>1 DEF NextCall
  <2>2. IsGoal(fr)
    BY NoCalls, CalledIsGoal
  <2>. HIDE DEF fr
  <2>3. stack' \in Seq({fr}) /\ Len(stack') = 1 /\ stack'[1] = fr /\ Len(stack) = 0
    BY <2>1
  <2>4. FramesOK'
    <3>1. IsSeq(stack')
      BY <2>3 DEF IsSeq
    <3>. QED
      BY <2>1, <2>2, <2>3, <3>1 DEF IInv, FramesOK, Depth
  <2>5. ~IsBody(fr) /\ ~IsPhi(fr)
    BY <2>2, OneKind
  <2>6. UsersInProgress' /\ SelectedInProgress' /\ PhisApart'
    BY <2>1, <2>3, <2>5
       DEF IInv, UsersInProgress, SelectedInProgress, PhisApart, Depth
  <2>. QED
    BY <2>4, <2>6 DEF IInv
<1>2. CASE handleCallInst
  <2>. DEFINE fr == Called(Def("call", Top.val), TRUE, Top.calls)
  <2>1. IsGoal(fr)
    <3>1. IsSeq(Top.calls) /\ Len(Top.calls) >= 1
      BY <1>2, KindOfTop, NoCalls, Popped DEF handleCallInst, AtValue, IsGoal, Enough
    <3>. QED
      BY <3>1, CalledIsGoal
  <2>. QED
    BY <1>2, <2>1, GoOn DEF handleCallInst, Replace
<1>3. CASE FollowSelected
  <2>1. PICK bb : Replace(Goal(Def("phi", Top.val).in[bb], Top.inner, Top.calls))
    BY <1>3 DEF FollowSelected
  <2>. DEFINE fr == Goal(Def("phi", Top.val).in[bb], Top.inner, Top.calls)
  <2>2. IsGoal(fr)
    BY <1>3, KindOfTop DEF FollowSelected, AtValue, IsGoal, Goal
  <2>. QED
    BY <1>3, <2>1, <2>2, GoOn DEF FollowSelected, Replace
<1>4. CASE handlePHINode
  <2>. DEFINE phi == Def("phi", Top.val)
              fr == [at |-> "phi", phi |-> phi, picked |-> {}, left |-> DOMAIN phi.in,
                     inner |-> Top.inner, calls |-> Top.calls]
  <2>1. AtValue /\ stack' = <<fr>> \o Tail(stack) /\ UNCHANGED <<prog, funcUser, selectedBlock>>
    BY <1>4 DEF handlePHINode, Replace
  <2>2. \A b \in fr.left : b \notin selectedBlock
    BY <1>4 DEF handlePHINode, Selected
  <2>3. IsPhi(fr) /\ fr.picked = {}
    BY <2>1, KindOfTop DEF AtValue, IsGoal, IsPhi
  <2>. HIDE DEF fr
  <2>. QED
    BY <2>1, <2>2, <2>3, EnterPHINode
<1>5. CASE NextIncoming
  <2>1. stack # << >> /\ Top.at = "phi" /\ UNCHANGED <<prog, funcUser>>
    BY <1>5 DEF NextIncoming
  <2>2. PICK bb \in Top.left :
          /\ selectedBlock' = (selectedBlock \ Top.picked) \cup {bb}
          /\ stack' = <<Goal(Top.phi.in[bb], Top.inner, Top.calls),
                        [Top EXCEPT !.left = @ \ {bb}, !.picked = {bb}]>> \o Tail(stack)
    BY <1>5 DEF NextIncoming
  <2>. DEFINE fr == Goal(Top.phi.in[bb], Top.inner, Top.calls)
              loop == [Top EXCEPT !.left = @ \ {bb}, !.picked = {bb}]
  <2>3. IsPhi(Top)
    BY <2>1, KindOfTop
  <2>4. IsGoal(fr)
    BY <2>3 DEF IsPhi, IsGoal, Goal
  <2>5. loop = [at |-> "phi", phi |-> Top.phi, picked |-> {bb}, left |-> Top.left \ {bb},
                inner |-> Top.inner, calls |-> Top.calls]
    BY <2>3, PhiAdvances
  <2>6. IsPhi(loop) /\ loop.picked = {bb} /\ loop.left = Top.left \ {bb}
    BY <2>3, <2>5 DEF IsPhi
  <2>7. stack' = <<fr, loop>> \o Tail(stack)
    BY <2>2
  <2>. HIDE DEF fr, loop
  <2>. QED
    BY <2>1, <2>2, <2>4, <2>6, <2>7, NextOfPHINode
<1>6. CASE EndPHINode
  BY <1>6, Return DEF EndPHINode, Pop
<1>7. CASE handleFunction
  <2>. DEFINE made == InstList(prog, Top.val, "call")
              left == [i \in DOMAIN made |-> Called(made[i], FALSE, Tail(Top.calls))]
              fr == [at |-> "body", fn |-> Top.val, left |-> left]
  <2>1. /\ AtValue /\ Top.val \in Funcs(prog) /\ ~Top.inner
        /\ stack' = <<fr>> \o Tail(stack)
        /\ funcUser' = Remember(Top.val, Head(Top.calls))
        /\ UNCHANGED <<prog, selectedBlock>>
    BY <1>7 DEF handleFunction, Replace
  <2>2. prog \in Modules /\ IsGoal(Top)
    BY <2>1, KindOfTop DEF AtValue
  <2>3. IsSeq(made)
    BY <2>1, <2>2, InstsAssumption DEF IsSeq
  <2>4. IsSeq(Tail(Top.calls)) /\ Len(Tail(Top.calls)) \in Nat
    BY <2>1, <2>2, NoCalls, Popped DEF IsGoal, Enough
  <2>5. \A i \in DOMAIN made : IsGoal(Called(made[i], FALSE, Tail(Top.calls)))
    BY <2>4, CalledIsGoal
  <2>. HIDE DEF made
  <2>6. left = [i \in DOMAIN made |-> left[i]] /\ \A i \in DOMAIN made : IsGoal(left[i])
    BY <2>5
  <2>. HIDE DEF left
  <2>7. IsBody(fr) /\ fr.fn = Top.val
    BY <2>3, <2>6, LoopIsBody
  <2>. HIDE DEF fr
  <2>. QED
    BY <2>1, <2>7, EnterFunction
<1>8. CASE handleFunctionReturn
  <2>. DEFINE rets == InstList(prog, Top.val, "ret")
              left == [i \in DOMAIN rets |-> Goal(rets[i].val, FALSE, Tail(Top.calls))]
              fr == [at |-> "body", fn |-> Top.val, left |-> left]
  <2>1. /\ AtValue /\ Top.val \in Funcs(prog) /\ Top.inner
        /\ stack' = <<fr>> \o Tail(stack)
        /\ funcUser' = Remember(Top.val, Head(Top.calls))
        /\ UNCHANGED <<prog, selectedBlock>>
    BY <1>8 DEF handleFunctionReturn, Replace
  <2>2. prog \in Modules /\ IsGoal(Top)
    BY <2>1, KindOfTop DEF AtValue
  <2>3. IsSeq(rets)
    BY <2>1, <2>2, InstsAssumption DEF IsSeq
  <2>4. IsSeq(Tail(Top.calls)) /\ Len(Tail(Top.calls)) >= 1
    BY <2>1, <2>2, NoCalls, Popped DEF IsGoal, Enough
  <2>5. \A i \in DOMAIN rets : IsGoal(Goal(rets[i].val, FALSE, Tail(Top.calls)))
    BY <2>4 DEF IsGoal, Goal, Enough
  <2>. HIDE DEF rets
  <2>6. left = [i \in DOMAIN rets |-> left[i]] /\ \A i \in DOMAIN rets : IsGoal(left[i])
    BY <2>5
  <2>. HIDE DEF left
  <2>7. IsBody(fr) /\ fr.fn = Top.val
    BY <2>3, <2>6, LoopIsBody
  <2>. HIDE DEF fr
  <2>. QED
    BY <2>1, <2>7, EnterFunction
<1>9. CASE NextInst
  <2>. DEFINE fr == Head(Top.left)
              loop == [Top EXCEPT !.left = Tail(@)]
  <2>1. /\ stack # << >> /\ Top.at = "body" /\ Top.left # << >>
        /\ stack' = <<fr, loop>> \o Tail(stack)
        /\ UNCHANGED <<prog, funcUser, selectedBlock>>
    BY <1>9 DEF NextInst
  <2>2. IsBody(Top)
    BY <2>1, KindOfTop
  <2>3. /\ IsSeq(Tail(Top.left)) /\ Len(Top.left) \in Nat \ {0}
        /\ Len(Tail(Top.left)) = Len(Top.left) - 1
        /\ \A i \in 1 .. Len(Top.left) - 1 : Tail(Top.left)[i] = Top.left[i + 1]
    BY <2>1, <2>2, Popped DEF IsBody
  <2>4. IsGoal(fr)
    BY <2>2, <2>3 DEF IsBody, IsSeq
  <2>5. loop = [at |-> "body", fn |-> Top.fn, left |-> Tail(Top.left)]
    BY <2>2, BodyAdvances
  <2>6. \A i \in 1 .. Len(Tail(Top.left)) : IsGoal(Tail(Top.left)[i])
    BY <2>2, <2>3 DEF IsBody
  <2>7. IsBody(loop) /\ loop.fn = Top.fn
    BY <2>3, <2>5, <2>6 DEF IsBody
  <2>. HIDE DEF fr, loop
  <2>. QED
    BY <2>1, <2>4, <2>7, NextOfFunction
<1>10. CASE EndFunction
  <2>1. DOMAIN funcUser' = DOMAIN funcUser \ {Top.fn}
    BY <1>10 DEF EndFunction, Restrict
  <2>. QED
    BY <1>10, <2>1, Return DEF EndFunction, Pop
<1>11. CASE handleArgument
  <2>1. PICK func, argindex :
          Replace(Goal(funcUser[func].args[argindex], Top.inner, Top.calls))
    BY <1>11 DEF handleArgument
  <2>. DEFINE fr == Goal(funcUser[func].args[argindex], Top.inner, Top.calls)
  <2>2. IsGoal(fr)
    BY <1>11, KindOfTop DEF handleArgument, AtValue, IsGoal, Goal
  <2>. QED
    BY <1>11, <2>1, <2>2, GoOn DEF handleArgument, Replace
<1>12. CASE Skip
  BY <1>12, Return DEF Skip, Pop, AtValue
<1>13. CASE UNCHANGED vars
  BY <1>13 DEF vars, IInv, FramesOK, UsersInProgress, SelectedInProgress, PhisApart, Depth
<1>. QED
  BY <1>1, <1>2, <1>3, <1>4, <1>5, <1>6, <1>7, <1>8, <1>9, <1>10, <1>11, <1>12, <1>13
     DEF Next

LEMMA Invariant == Spec => []IInv
BY InitInvariant, NextInvariant, PTL DEF Spec

-----------------------------------------------------------------------------
(***************************************************************************)
(* What is reported.  In a solution of the flow-insensitive reference,     *)
(* every value that a handler is at, or has still to come to, flows to the *)
(* called operand of the call on top of its stack of calls; that of an     *)
(* inner call, its result, to the call below; and a function is remembered *)
(* with a call that may reach it.                                          *)
(***************************************************************************)

CallInsts(p) == {inst \in Insts(p) : inst.op = "call"}

FlowsTo(facts, v, call) == Held(facts, Pts(v)) \subseteq Held(facts, Pts(call.callee))

CallsIn(p, facts, inner, calls) ==
  /\ \A i \in 1 .. Len(calls) : calls[i] \in CallInsts(p)
  /\ inner => FlowsTo(facts, calls[1].id, calls[2])

GoalIn(p, facts, fr) ==
  CallsIn(p, facts, fr.inner, fr.calls) /\ FlowsTo(facts, fr.val, fr.calls[1])

FrameIn(p, facts, fr) ==
  /\ fr.at = "value" => GoalIn(p, facts, fr)
  /\ fr.at = "body" => \A i \in 1 .. Len(fr.left) : GoalIn(p, facts, fr.left[i])
  /\ fr.at = "phi" => /\ CallsIn(p, facts, fr.inner, fr.calls)
                      /\ \A bb \in fr.left : FlowsTo(facts, fr.phi.in[bb], fr.calls[1])

FramesIn(p, facts, frames) == \A i \in 1 .. Len(frames) : FrameIn(p, facts, frames[i])

UsersIn(p, facts, users) ==
  \A f \in DOMAIN users : users[f] \in CallInsts(p) /\ f \in Reached(p, facts, users[f])

FlowInv ==
  LET facts == Solution(prog)
  IN  /\ todo \in Seq(CallInsts(prog))
      /\ FramesIn(prog, facts, stack)
      /\ UsersIn(prog, facts, funcUser)
      /\ lineFuncList \subseteq Calls(prog, facts)

\* The reference has a solution for every module.
LEMMA ModulesFinite ==
  ASSUME NEW p \in Modules
  PROVE  FiniteModule(p)
<1>1. \A f \in Funcs(p) : IsFiniteSet(InstsOf(p, f)) /\ IsFiniteSet(Range(p.args[f]))
  BY FiniteRange, InstsAssumption
<1>2. IsFiniteSet(Funcs(p))
  <2>1. p.order \in Seq(Range(p.order))
    BY InstsAssumption DEF Funcs
  <2>. QED
    BY <2>1, FiniteRange DEF Funcs
<1>3. \A i \in Insts(p) : i.op = "call" => IsFiniteSet(Range(i.args))
  BY FiniteRange, InstsAssumption
<1>4. \A i \in Insts(p) : i.op = "phi" => IsFiniteSet(Range(i.in))
  BY InstsAssumption
<1>. QED
  BY <1>1, <1>2, <1>3, <1>4 DEF FiniteModule

LEMMA ReplacedIn ==
  ASSUME IInv, stack # << >>, NEW facts, FramesIn(prog, facts, stack),
         NEW fr, FrameIn(prog, facts, fr)
  PROVE  FramesIn(prog, facts, <<fr>> \o Tail(stack))
<1>1. IsSeq(stack)
  BY KindOfTop
<1>2. PICK new : new = <<fr>> \o Tail(stack)
  OBVIOUS
<1>3. /\ Len(new) = Len(stack) /\ Len(stack) \in Nat \ {0} /\ new[1] = fr
      /\ \A i \in 2 .. Len(stack) : new[i] = stack[i]
  BY <1>1, <1>2, Replaced
<1>4. FramesIn(prog, facts, new)
  BY <1>3 DEF FramesIn
<1>. QED
  BY <1>2, <1>4

LEMMA PoppedIn ==
  ASSUME IInv, stack # << >>, NEW facts, FramesIn(prog, facts, stack)
  PROVE  FramesIn(prog, facts, Tail(stack))
<1>1. IsSeq(stack)
  BY KindOfTop
<1>2. /\ Len(Tail(stack)) = Len(stack) - 1 /\ Len(stack) \in Nat \ {0}
      /\ \A i \in 1 .. Len(stack) - 1 : Tail(stack)[i] = stack[i + 1]
  BY <1>1, Popped
<1>. QED
  BY <1>2 DEF FramesIn

LEMMA NestedIn ==
  ASSUME IInv, stack # << >>, NEW facts, FramesIn(prog, facts, stack),
         NEW fr, FrameIn(prog, facts, fr), NEW loop, FrameIn(prog, facts, loop)
  PROVE  FramesIn(prog, facts, <<fr, loop>> \o Tail(stack))
<1>1. IsSeq(stack)
  BY KindOfTop
<1>2. PICK new : new = <<fr, loop>> \o Tail(stack)
  OBVIOUS
<1>3. /\ Len(new) = Len(stack) + 1 /\ Len(stack) \in Nat \ {0}
      /\ new[1] = fr /\ new[2] = loop
      /\ \A i \in 3 .. Len(stack) + 1 : new[i] = stack[i - 1]
  BY <1>1, <1>2, Nested
<1>4. \A i \in 1 .. Len(new) : FrameIn(prog, facts, new[i])
  BY <1>3 DEF FramesIn
<1>. QED
  BY <1>2, <1>4 DEF FramesIn

\* A call is pushed.
LEMMA CalledIn ==
  ASSUME NEW p, NEW facts, NEW call \in CallInsts(p), NEW inner \in BOOLEAN,
         NEW calls, IsSeq(calls), \A i \in 1 .. Len(calls) : calls[i] \in CallInsts(p),
         inner => FlowsTo(facts, call.id, calls[1]) /\ Len(calls) >= 1
  PROVE  GoalIn(p, facts, Called(call, inner, calls))
<1>1. PICK new : new = <<call>> \o calls
  OBVIOUS
<1>2. /\ Len(new) = Len(calls) + 1 /\ Len(calls) \in Nat /\ new[1] = call
      /\ \A i \in 2 .. Len(calls) + 1 : new[i] = calls[i - 1]
  BY <1>1, Pushed
<1>3. \A i \in 1 .. Len(new) : new[i] \in CallInsts(p)
  BY <1>2
<1>4. inner => new[2] = calls[1]
  BY <1>2
<1>5. CallsIn(p, facts, inner, new)
  BY <1>2, <1>3, <1>4 DEF CallsIn
<1>6. FlowsTo(facts, call.callee, call)
  BY DEF FlowsTo
<1>. QED
  BY <1>1, <1>2, <1>5, <1>6 DEF GoalIn, Called, Goal

\* What a handler about to be dispatched may use.
LEMMA TopIn ==
  ASSUME IInv, AtValue, NEW facts, FramesIn(prog, facts, stack)
  PROVE  /\ prog \in Modules /\ IsGoal(Top) /\ GoalIn(prog, facts, Top)
         /\ Top.calls # << >> /\ Top.calls[1] \in CallInsts(prog)
         /\ Len(Top.calls) \in Nat \ {0}
         /\ Head(Top.calls) = Top.calls[1]
         /\ IsSeq(Tail(Top.calls)) /\ Len(Tail(Top.calls)) = Len(Top.calls) - 1
         /\ \A i \in 1 .. Len(Tail(Top.calls)) :
              Tail(Top.calls)[i] \in CallInsts(prog) /\ Tail(Top.calls)[i] = Top.calls[i + 1]
<1>1. prog \in Modules /\ IsGoal(Top) /\ stack # << >> /\ Len(stack) \in Nat \ {0}
  BY KindOfTop DEF AtValue
<1>2. GoalIn(prog, facts, Top)
  BY <1>1 DEF FramesIn, FrameIn, AtValue, Top
<1>3. Top.calls # << >> /\ IsSeq(Top.calls)
  BY <1>1, NoCalls DEF IsGoal, Enough
<1>4. /\ IsSeq(Tail(Top.calls)) /\ Len(Tail(Top.calls)) = Len(Top.calls) - 1
      /\ Len(Top.calls) \in Nat \ {0}
      /\ \A i \in 1 .. Len(Top.calls) - 1 : Tail(Top.calls)[i] = Top.calls[i + 1]
  BY <1>3, Popped
<1>5. \A i \in 1 .. Len(Top.calls) : Top.calls[i] \in CallInsts(prog)
  BY <1>2 DEF GoalIn, CallsIn
<1>6. Head(Top.calls) = Top.calls[1]
  BY <1>3 DEF IsSeq
<1>. QED
  BY <1>1, <1>2, <1>3, <1>4, <1>5, <1>6

\* A value is replaced by one that flows to it.
LEMMA GoOnIn ==
  ASSUME NEW p, NEW facts, NEW fr, GoalIn(p, facts, fr), NEW val,
         Held(facts, Pts(val)) \subseteq Held(facts, Pts(fr.val))
  PROVE  FrameIn(p, facts, Goal(val, fr.inner, fr.calls))
BY DEF GoalIn, FrameIn, Goal, FlowsTo

\* A function in the place of a called operand is one that the call may reach.
LEMMA FunctionReached ==
  ASSUME IInv, AtValue, NEW facts, Solves(prog, facts), FramesIn(prog, facts, stack),
         Top.val \in Funcs(prog)
  PROVE  Top.val \in Reached(prog, facts, Top.calls[1])
<1>1. Top.val \in Held(facts, Pts(Top.val))
  BY ObjectHeld DEF Objects
<1>2. Top.val \in Held(facts, Pts(Top.calls[1].callee))
  BY <1>1, TopIn DEF GoalIn, FlowsTo
<1>. QED
  BY <1>2 DEF Reached

\* What a call that reaches a function makes flow.
LEMMA ThroughHeld ==
  ASSUME NEW p, NEW facts, Solves(p, facts), NEW call \in CallInsts(p),
         NEW f \in Reached(p, facts, call), NEW from, NEW to,
         <<from, to>> \in Through(p, call, f)
  PROVE  Held(facts, from) \subseteq Held(facts, to)
<1>1. call \in Insts(p) /\ call.op = "call"
  BY DEF CallInsts
<1>2. <<from, to>> \in Flow(p, facts, call)
  BY <1>1 DEF Flow
<1>. QED
  BY <1>1, <1>2, FlowHeld

\* The value of a phi node contains each incoming one.
LEMMA IncomingHeld ==
  ASSUME NEW p, NEW facts, Solves(p, facts), NEW phi \in Insts(p), phi.op = "phi",
         NEW bb \in DOMAIN phi.in
  PROVE  Held(facts, Pts(phi.in[bb])) \subseteq Held(facts, Pts(phi.id))
<1>1. phi.in[bb] \in Range(phi.in)
  BY DEF Range
<1>2. <<Pts(phi.in[bb]), Pts(phi.id)>> \in Flow(p, facts, phi)
  BY <1>1 DEF Flow
<1>. QED
  BY <1>2, FlowHeld

\* Def finds an instruction if there is one.
LEMMA DefFound ==
  ASSUME NEW op, NEW v, Defs(op, v) # {}
  PROVE  Def(op, v) \in Insts(prog) /\ Def(op, v).op = op /\ Def(op, v).id = v
BY DEF Def, Defs

\* A call is remembered for a function.
LEMMA RememberIn ==
  ASSUME NEW p, NEW facts, UsersIn(p, facts, funcUser), NEW call \in CallInsts(p),
         NEW f \in Reached(p, facts, call)
  PROVE  UsersIn(p, facts, Remember(f, call))
BY DEF UsersIn, Remember

\* The loop over instructions of a function begins.
LEMMA LoopIn ==
  ASSUME NEW p, NEW facts, NEW fn, NEW made, IsSeq(made), NEW left,
         left = [i \in DOMAIN made |-> left[i]],
         \A i \in DOMAIN made : GoalIn(p, facts, left[i])
  PROVE  FrameIn(p, facts, [at |-> "body", fn |-> fn, left |-> left])
<1>1. PICK n \in Nat : n = Len(made) /\ DOMAIN made = 1 .. n
  BY DEF IsSeq
<1>. DEFINE R == {left[i] : i \in 1 .. n}
<1>2. left \in [1 .. n -> R]
  BY <1>1
<1>3. Len(left) = n
  BY <1>2
<1>. QED
  BY <1>1, <1>3 DEF FrameIn

LEMMA InitFlows == Init => FlowInv
<1>. SUFFICES ASSUME Init PROVE FlowInv
  OBVIOUS
<1>1. /\ todo = CallList(prog) /\ prog \in Modules /\ stack = << >>
      /\ DOMAIN funcUser = {} /\ lineFuncList = {}
  BY DEF Init
<1>2. todo \in Seq(CallInsts(prog))
  BY <1>1, InstsAssumption DEF CallInsts
<1>3. \A facts : FramesIn(prog, facts, stack) /\ UsersIn(prog, facts, funcUser)
  BY <1>1, NoCalls DEF FramesIn, UsersIn
<1>. QED
  BY <1>1, <1>2, <1>3 DEF FlowInv

LEMMA NextFlows == IInv /\ FlowInv /\ [Next]_vars => FlowInv'
<1>. SUFFICES ASSUME IInv, FlowInv, [Next]_vars PROVE FlowInv'
  OBVIOUS
<1>1. PICK facts : facts = Solution(prog) /\ Solves(prog, facts)
  BY ModulesFinite, SolutionHolds DEF IInv, FramesOK
<1>2. /\ todo \in Seq(CallInsts(prog)) /\ FramesIn(prog, facts, stack)
      /\ UsersIn(prog, facts, funcUser) /\ lineFuncList \subseteq Calls(prog, facts)
  BY <1>1 DEF FlowInv
<1>. DEFINE Still == /\ todo' \in Seq(CallInsts(prog)) /\ FramesIn(prog, facts, stack')
                     /\ UsersIn(prog, facts, funcUser')
                     /\ lineFuncList' \subseteq Calls(prog, facts)
<1>3. prog' = prog
  BY DEF Next, vars, NextCall, handleCallInst, FollowSelected, handlePHINode, NextIncoming,
         EndPHINode, handleFunction, handleFunctionReturn, NextInst, EndFunction,
         handleArgument, Skip
<1>4. Still => FlowInv'
  BY <1>1, <1>3 DEF FlowInv
<1>5. CASE NextCall
  <2>. DEFINE call == Head(todo)
  <2>1. /\ todo # << >> /\ stack' = <<Called(call, FALSE, << >>)>> /\ todo' = Tail(todo)
        /\ UNCHANGED <<funcUser, lineFuncList>>
    BY <1>5 DEF NextCall
  <2>2. call \in CallInsts(prog) /\ todo' \in Seq(CallInsts(prog))
    BY <1>2, <2>1
  <2>. HIDE DEF call
  <2>3. GoalIn(prog, facts, Called(call, FALSE, << >>))
    <3>1. \A i \in 1 .. Len(<< >>) : << >>[i] \in CallInsts(prog)
      BY NoCalls
    <3>. QED
      BY <2>2, <3>1, NoCalls, CalledIn
  <2>4. PICK fr : fr = Called(call, FALSE, << >>) /\ FrameIn(prog, facts, fr)
    BY <2>3 DEF FrameIn, Called, Goal
  <2>5. FramesIn(prog, facts, stack')
    <3>1. stack' = <<fr>>
      BY <2>1, <2>4
    <3>2. Len(stack') = 1 /\ stack'[1] = fr
      BY <3>1
    <3>3. \A i \in 1 .. 1 : i = 1
      OBVIOUS
    <3>4. \A i \in 1 .. Len(stack') : FrameIn(prog, facts, stack'[i])
      BY <2>4, <3>2, <3>3, Zenon
    <3>. QED
      BY <3>4 DEF FramesIn
  <2>. QED
    BY <1>2, <1>4, <2>1, <2>2, <2>5
<1>6. CASE handleCallInst
  <2>. DEFINE call == Def("call", Top.val)
  <2>1. /\ AtValue /\ stack # << >> /\ Defs("call", Top.val) # {}
        /\ stack' = <<Called(call, TRUE, Top.calls)>> \o Tail(stack)
        /\ UNCHANGED <<todo, funcUser, lineFuncList>>
    BY <1>6 DEF handleCallInst, Replace, AtValue
  <2>2. call \in CallInsts(prog) /\ call.id = Top.val
    BY <2>1, DefFound DEF CallInsts
  <2>. HIDE DEF call
  <2>3. GoalIn(prog, facts, Called(call, TRUE, Top.calls))
    <3>1. /\ IsSeq(Top.calls) /\ Len(Top.calls) >= 1
          /\ FlowsTo(facts, Top.val, Top.calls[1])
          /\ \A i \in 1 .. Len(Top.calls) : Top.calls[i] \in CallInsts(prog)
      BY <1>2, <2>1, TopIn DEF IsGoal, Enough, GoalIn, CallsIn
    <3>. QED
      BY <2>2, <3>1, CalledIn
  <2>4. PICK fr : fr = Called(call, TRUE, Top.calls) /\ FrameIn(prog, facts, fr)
    BY <2>3 DEF FrameIn, Called, Goal
  <2>5. FramesIn(prog, facts, stack')
    BY <1>2, <2>1, <2>4, ReplacedIn
  <2>. QED
    BY <1>2, <1>4, <2>1, <2>5
<1>7. CASE FollowSelected
  <2>. DEFINE phi == Def("phi", Top.val)
  <2>1. /\ AtValue /\ stack # << >> /\ Defs("phi", Top.val) # {}
        /\ UNCHANGED <<todo, funcUser, lineFuncList>>
    BY <1>7 DEF FollowSelected, AtValue
  <2>2. PICK bb \in DOMAIN phi.in :
          stack' = <<Goal(phi.in[bb], Top.inner, Top.calls)>> \o Tail(stack)
    BY <1>7 DEF FollowSelected, Selected, Replace
  <2>3. phi \in Insts(prog) /\ phi.op = "phi" /\ phi.id = Top.val
    BY <2>1, DefFound
  <2>. HIDE DEF phi
  <2>4. Held(facts, Pts(phi.in[bb])) \subseteq Held(facts, Pts(Top.val))
    BY <1>1, <2>3, IncomingHeld
  <2>5. GoalIn(prog, facts, Top)
    BY <1>2, <2>1, TopIn
  <2>6. PICK fr : fr = Goal(phi.in[bb], Top.inner, Top.calls) /\ FrameIn(prog, facts, fr)
    BY <2>4, <2>5, GoOnIn
  <2>7. FramesIn(prog, facts, stack')
    BY <1>2, <2>1, <2>2, <2>6, ReplacedIn
  <2>. QED
    BY <1>2, <1>4, <2>1, <2>7
<1>8. CASE handlePHINode
  <2>. DEFINE phi == Def("phi", Top.val)
              fr == [at |-> "phi", phi |-> phi, picked |-> {}, left |-> DOMAIN phi.in,
                     inner |-> Top.inner, calls |-> Top.calls]
  <2>1. /\ AtValue /\ stack # << >> /\ Defs("phi", Top.val) # {}
        /\ stack' = <<fr>> \o Tail(stack)
        /\ UNCHANGED <<todo, funcUser, lineFuncList>>
    BY <1>8 DEF handlePHINode, AtValue, Replace
  <2>2. phi \in Insts(prog) /\ phi.op = "phi" /\ phi.id = Top.val
    BY <2>1, DefFound
  <2>. HIDE DEF phi
  <2>3. \A bb \in DOMAIN phi.in : Held(facts, Pts(phi.in[bb])) \subseteq Held(facts, Pts(Top.val))
    BY <1>1, <2>2, IncomingHeld
  <2>4. GoalIn(prog, facts, Top)
    BY <1>2, <2>1, TopIn
  <2>5. FrameIn(prog, facts, fr)
    BY <2>3, <2>4 DEF FrameIn, GoalIn, FlowsTo
  <2>. HIDE DEF fr
  <2>6. FramesIn(prog, facts, stack')
    BY <1>2, <2>1, <2>5, ReplacedIn
  <2>. QED
    BY <1>2, <1>4, <2>1, <2>6
<1>9. CASE NextIncoming
  <2>1. stack # << >> /\ Top.at = "phi" /\ UNCHANGED <<todo, funcUser, lineFuncList>>
    BY <1>9 DEF NextIncoming
  <2>2. PICK bb \in Top.left :
          stack' = <<Goal(Top.phi.in[bb], Top.inner, Top.calls),
                     [Top EXCEPT !.left = @ \ {bb}, !.picked = {bb}]>> \o Tail(stack)
    BY <1>9 DEF NextIncoming
  <2>. DEFINE fr == Goal(Top.phi.in[bb], Top.inner, Top.calls)
              loop == [Top EXCEPT !.left = @ \ {bb}, !.picked = {bb}]
  <2>3. FrameIn(prog, facts, Top) /\ IsPhi(Top)
    BY <1>2, <2>1, KindOfTop DEF FramesIn, Top
  <2>4. FrameIn(prog, facts, fr)
    BY <2>1, <2>3 DEF FrameIn, GoalIn, Goal
  <2>5. loop = [at |-> "phi", phi |-> Top.phi, picked |-> {bb}, left |-> Top.left \ {bb},
                inner |-> Top.inner, calls |-> Top.calls]
    BY <2>3, PhiAdvances
  <2>6. FrameIn(prog, facts, loop)
    BY <2>1, <2>3, <2>5 DEF FrameIn
  <2>. HIDE DEF fr, loop
  <2>7. stack' = <<fr, loop>> \o Tail(stack)
    BY <2>2 DEF fr, loop
  <2>8. FramesIn(prog, facts, stack')
    BY <1>2, <2>1, <2>4, <2>6, <2>7, NestedIn
  <2>. QED
    BY <1>2, <1>4, <2>1, <2>8
<1>10. CASE EndPHINode
  BY <1>2, <1>4, <1>10, PoppedIn DEF EndPHINode, Pop
<1>11. CASE handleFunction
  <2>. DEFINE made == InstList(prog, Top.val, "call")
              left == [i \in DOMAIN made |-> Called(made[i], FALSE, Tail(Top.calls))]
              fr == [at |-> "body", fn |-> Top.val, left |-> left]
  <2>1. /\ AtValue /\ stack # << >> /\ Top.val \in Funcs(prog)
        /\ stack' = <<fr>> \o Tail(stack)
        /\ funcUser' = Remember(Top.val, Head(Top.calls))
        /\ lineFuncList' = lineFuncList \cup {<<Head(Top.calls).line, Top.val>>}
        /\ UNCHANGED todo
    BY <1>11 DEF handleFunction, Replace, AtValue
  <2>2. /\ prog \in Modules /\ Top.calls[1] \in CallInsts(prog)
        /\ Head(Top.calls) = Top.calls[1] /\ IsSeq(Tail(Top.calls))
        /\ \A i \in 1 .. Len(Tail(Top.calls)) : Tail(Top.calls)[i] \in CallInsts(prog)
    BY <1>2, <2>1, TopIn
  <2>3. Top.val \in Reached(prog, facts, Top.calls[1])
    BY <1>1, <1>2, <2>1, FunctionReached
  <2>4. UsersIn(prog, facts, funcUser')
    BY <1>2, <2>1, <2>2, <2>3, RememberIn
  <2>5. lineFuncList' \subseteq Calls(prog, facts)
    <3>1. <<Top.calls[1].line, Top.val>> \in Calls(prog, facts)
      BY <2>2, <2>3 DEF Calls, CallInsts
    <3>. QED
      BY <1>2, <2>1, <2>2, <3>1
  <2>6. made \in Seq(CallInsts(prog))
    <3>1. made \in Seq({inst \in InstsOf(prog, Top.val) : inst.op = "call"})
      BY <2>1, <2>2, InstsAssumption
    <3>2. {inst \in InstsOf(prog, Top.val) : inst.op = "call"} \subseteq CallInsts(prog)
      BY <2>1 DEF CallInsts, Insts
    <3>. HIDE DEF made
    <3>. QED
      BY <3>1, <3>2
  <2>. HIDE DEF made
  <2>7. IsSeq(made) /\ \A i \in DOMAIN made : made[i] \in CallInsts(prog)
    BY <2>6 DEF IsSeq
  <2>8. \A i \in DOMAIN made : GoalIn(prog, facts, Called(made[i], FALSE, Tail(Top.calls)))
    BY <2>2, <2>7, CalledIn
  <2>9. left = [i \in DOMAIN made |-> left[i]] /\ \A i \in DOMAIN made : GoalIn(prog, facts, left[i])
    BY <2>8
  <2>. HIDE DEF left
  <2>10. FrameIn(prog, facts, fr)
    BY <2>7, <2>9, LoopIn
  <2>. HIDE DEF fr
  <2>11. FramesIn(prog, facts, stack')
    BY <1>2, <2>1, <2>10, ReplacedIn
  <2>. QED
    BY <1>2, <1>4, <2>1, <2>4, <2>5, <2>11
<1>12. CASE handleFunctionReturn
  <2>. DEFINE rets == InstList(prog, Top.val, "ret")
              left == [i \in DOMAIN rets |-> Goal(rets[i].val, FALSE, Tail(Top.calls))]
              fr == [at |-> "body", fn |-> Top.val, left |-> left]
  <2>1. /\ AtValue /\ stack # << >> /\ Top.val \in Funcs(prog) /\ Top.inner
        /\ stack' = <<fr>> \o Tail(stack)
        /\ funcUser' = Remember(Top.val, Head(Top.calls))
        /\ UNCHANGED <<todo, lineFuncList>>
    BY <1>12 DEF handleFunctionReturn, Replace, AtValue
  <2>2. /\ prog \in Modules /\ Top.calls[1] \in CallInsts(prog)
        /\ Head(Top.calls) = Top.calls[1]
        /\ \A i \in 1 .. Len(Tail(Top.calls)) : Tail(Top.calls)[i] \in CallInsts(prog)
    BY <1>2, <2>1, TopIn
  <2>3. Top.val \in Reached(prog, facts, Top.calls[1])
    BY <1>1, <1>2, <2>1, FunctionReached
  <2>4. UsersIn(prog, facts, funcUser')
    BY <1>2, <2>1, <2>2, <2>3, RememberIn
  <2>5. FlowsTo(facts, Top.calls[1].id, Tail(Top.calls)[1])
    <3>1. FlowsTo(facts, Top.calls[1].id, Top.calls[2])
      BY <1>2, <2>1, TopIn DEF GoalIn, CallsIn
    <3>2. Len(Top.calls) >= 2 /\ Len(Top.calls) \in Nat
      BY <1>2, <2>1, TopIn DEF IsGoal, Enough
    <3>3. 1 \in 1 .. Len(Top.calls) - 1 /\ Len(Tail(Top.calls)) = Len(Top.calls) - 1
      BY <1>2, <2>1, <3>2, TopIn
    <3>4. Tail(Top.calls)[1] = Top.calls[1 + 1]
      BY <1>2, <2>1, <3>3, TopIn
    <3>5. 1 + 1 = 2
      OBVIOUS
    <3>6. Tail(Top.calls)[1] = Top.calls[2]
      BY <3>4, <3>5
    <3>. QED
      BY <3>1, <3>6
  <2>6. IsSeq(rets) /\ \A i \in DOMAIN rets : rets[i] \in Returns(prog, Top.val)
    <3>1. rets \in Seq(Returns(prog, Top.val))
      BY <2>1, <2>2, InstsAssumption DEF Returns
    <3>. HIDE DEF rets
    <3>. QED
      BY <3>1 DEF IsSeq
  <2>. HIDE DEF rets
  <2>7. ASSUME NEW i \in DOMAIN rets
        PROVE  GoalIn(prog, facts, Goal(rets[i].val, FALSE, Tail(Top.calls)))
    <3>1. <<Pts(rets[i].val), Pts(Top.calls[1].id)>> \in Through(prog, Top.calls[1], Top.val)
      BY <2>6 DEF Through
    <3>2. Held(facts, Pts(rets[i].val)) \subseteq Held(facts, Pts(Top.calls[1].id))
      BY <1>1, <2>2, <2>3, <3>1, ThroughHeld
    <3>3. FlowsTo(facts, rets[i].val, Tail(Top.calls)[1])
      BY <2>5, <3>2 DEF FlowsTo
    <3>. QED
      BY <2>2, <3>3 DEF GoalIn, CallsIn, Goal
  <2>8. left = [i \in DOMAIN rets |-> left[i]] /\ \A i \in DOMAIN rets : GoalIn(prog, facts, left[i])
    BY <2>7
  <2>. HIDE DEF left
  <2>9. FrameIn(prog, facts, fr)
    BY <2>6, <2>8, LoopIn
  <2>. HIDE DEF fr
  <2>10. FramesIn(prog, facts, stack')
    BY <1>2, <2>1, <2>9, ReplacedIn
  <2>. QED
    BY <1>2, <1>4, <2>1, <2>4, <2>10
<1>13. CASE NextInst
  <2>. DEFINE fr == Head(Top.left)
              loop == [Top EXCEPT !.left = Tail(@)]
  <2>1. /\ stack # << >> /\ Top.at = "body" /\ Top.left # << >>
        /\ stack' = <<fr, loop>> \o Tail(stack)
        /\ UNCHANGED <<todo, funcUser, lineFuncList>>
    BY <1>13 DEF NextInst
  <2>2. IsBody(Top) /\ FrameIn(prog, facts, Top)
    BY <1>2, <2>1, KindOfTop DEF FramesIn, Top
  <2>3. /\ Len(Top.left) \in Nat \ {0} /\ Len(Tail(Top.left)) = Len(Top.left) - 1
        /\ \A i \in 1 .. Len(Top.left) - 1 : Tail(Top.left)[i] = Top.left[i + 1]
    BY <2>1, <2>2, Popped DEF IsBody
  <2>4. fr = Top.left[1]
    BY <2>2 DEF IsBody, IsSeq
  <2>5. IsGoal(fr) /\ GoalIn(prog, facts, fr)
    BY <2>1, <2>2, <2>3, <2>4 DEF IsBody, FrameIn
  <2>6. FrameIn(prog, facts, fr)
    BY <2>5, OneKind DEF FrameIn
  <2>7. loop = [at |-> "body", fn |-> Top.fn, left |-> Tail(Top.left)]
    BY <2>2, BodyAdvances
  <2>8. ASSUME NEW i \in 1 .. Len(Tail(Top.left))
        PROVE  GoalIn(prog, facts, Tail(Top.left)[i])
    <3>1. i + 1 \in 1 .. Len(Top.left) /\ Tail(Top.left)[i] = Top.left[i + 1]
      BY <2>3
    <3>2. \A k \in 1 .. Len(Top.left) : GoalIn(prog, facts, Top.left[k])
      BY <2>1, <2>2 DEF FrameIn
    <3>. QED
      BY <3>1, <3>2
  <2>9. FrameIn(prog, facts, loop)
    BY <2>7, <2>8 DEF FrameIn
  <2>. HIDE DEF fr, loop
  <2>10. FramesIn(prog, facts, stack')
    BY <1>2, <2>1, <2>6, <2>9, NestedIn
  <2>. QED
    BY <1>2, <1>4, <2>1, <2>10
<1>14. CASE EndFunction
  <2>1. \A f \in DOMAIN funcUser' : f \in DOMAIN funcUser /\ funcUser'[f] = funcUser[f]
    BY <1>14 DEF EndFunction, Restrict
  <2>2. UsersIn(prog, facts, funcUser')
    BY <1>2, <2>1 DEF UsersIn
  <2>. QED
    BY <1>2, <1>4, <1>14, <2>2, PoppedIn DEF EndFunction, Pop
<1>15. CASE handleArgument
  <2>1. AtValue /\ stack # << >> /\ UNCHANGED <<todo, funcUser, lineFuncList>>
    BY <1>15 DEF handleArgument, AtValue
  <2>2. PICK func, argindex :
          /\ func \in DOMAIN funcUser
          /\ argindex \in DOMAIN prog.args[func]
          /\ prog.args[func][argindex] = Top.val
          /\ argindex \in DOMAIN funcUser[func].args
          /\ stack' = <<Goal(funcUser[func].args[argindex], Top.inner, Top.calls)>> \o Tail(stack)
    BY <1>15 DEF handleArgument, Replace
  <2>3. PICK call : /\ call = funcUser[func] /\ call \in CallInsts(prog)
                    /\ func \in Reached(prog, facts, call)
    BY <1>2, <2>2 DEF UsersIn
  <2>4. PICK val : val = call.args[argindex]
    OBVIOUS
  <2>5. <<Pts(val), Pts(Top.val)>> \in Through(prog, call, func)
    BY <2>2, <2>3, <2>4 DEF Through
  <2>6. Held(facts, Pts(val)) \subseteq Held(facts, Pts(Top.val))
    BY <1>1, <2>3, <2>5, ThroughHeld
  <2>7. GoalIn(prog, facts, Top)
    BY <1>2, <2>1, TopIn
  <2>8. PICK fr : fr = Goal(val, Top.inner, Top.calls) /\ FrameIn(prog, facts, fr)
    BY <2>6, <2>7, GoOnIn
  <2>9. FramesIn(prog, facts, stack')
    BY <1>2, <2>1, <2>2, <2>3, <2>4, <2>8, ReplacedIn
  <2>. QED
    BY <1>2, <1>4, <2>1, <2>9
<1>16. CASE Skip
  BY <1>2, <1>4, <1>16, PoppedIn DEF Skip, Pop, AtValue
<1>17. CASE UNCHANGED vars
  BY <1>2, <1>4, <1>17 DEF vars
<1>. QED
  BY <1>5, <1>6, <1>7, <1>8, <1>9, <1>10, <1>11, <1>12, <1>13, <1>14, <1>15, <1>16, <1>17
     DEF Next

\* Whatever the module, and however its functions call one another: the pass
\* reports no call that flow- and context-insensitive inclusion finds impossible.
THEOREM OnlyPossibleCalls == Spec => []NothingInvented
<1>1. IInv /\ FlowInv => NothingInvented
  BY DEF IInv, FramesOK, FlowInv, NothingInvented, Possible
<1>. QED
  BY <1>1, InitInvariant, NextInvariant, InitFlows, NextFlows, PTL DEF Spec

-----------------------------------------------------------------------------

\* Whatever the module, callinstStack.top() is never called on an empty stack.
THEOREM CallsAlwaysPushed == Spec => []CallStackNeverEmpty
<1>1. IInv => CallStackNeverEmpty
  BY KindOfTop DEF CallStackNeverEmpty, AtValue, IsGoal, Enough
<1>. QED
  BY <1>1, Invariant, PTL

\* Whatever the module, funcUser and selectedBlock hold what the handlers in
\* progress have put there and nothing else.
THEOREM ContextIsCurrent == Spec => []NoStaleContext
<1>1. IInv => NoStaleContext
  <2>. SUFFICES ASSUME IInv PROVE NoStaleContext
    OBVIOUS
  <2>1. /\ DOMAIN stack = Depth
        /\ \A i \in Depth : /\ stack[i].at = "body" <=> IsBody(stack[i])
                            /\ stack[i].at = "phi" <=> IsPhi(stack[i])
    BY OneKind DEF IInv, FramesOK, IsSeq, Depth
  <2>2. DOMAIN funcUser \subseteq
          {stack[i].fn : i \in {j \in DOMAIN stack : stack[j].at = "body"}}
    BY <2>1 DEF IInv, UsersInProgress
  <2>3. selectedBlock =
          UNION {stack[i].picked : i \in {j \in DOMAIN stack : stack[j].at = "phi"}}
    <3>1. \A b : b \in selectedBlock <=>
            \E i \in DOMAIN stack : stack[i].at = "phi" /\ b \in stack[i].picked
      BY <2>1 DEF IInv, SelectedInProgress
    <3>. QED
      BY <3>1
  <2>. QED
    BY <2>2, <2>3 DEF NoStaleContext
<1>. QED
  BY <1>1, Invariant, PTL
=============================================================================
