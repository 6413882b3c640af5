--------------------------- MODULE LivenessProofs --------------------------
(***************************************************************************)
(* The liveness pass for every function that LLVM's verifier accepts: the  *)
(* sets it prints are the live values.                                     *)
(***************************************************************************)
EXTENDS Liveness, ProofLemmas

SolverProofs == INSTANCE BackwardDataflowProofs
                  WITH Fact <- Value,
                       CFGs <- SUBSET (Block \X Block),
                       Visitors <- [Block -> [SUBSET Value -> SUBSET Value]],
                       cfg <- prog.cfg, initval <- {}

-----------------------------------------------------------------------------
(***************************************************************************)
(* What the visitor does to a block.                                       *)
(***************************************************************************)

Size(p, bb) == Len(p.code[bb])

LEMMA CodeShape ==
  ASSUME NEW p \in Programs, NEW bb \in Block
  PROVE  /\ Size(p, bb) \in Nat
         /\ DOMAIN p.code[bb] = 1 .. Size(p, bb)
         /\ \A i \in 1 .. Size(p, bb) :
              p.code[bb][i] \notin p.dbg => p.op[p.code[bb][i]] \subseteq Value
  BY FunctionsAssumption DEF Size

LEMMA TransferType ==
  ASSUME NEW p \in Programs, NEW bb \in Block, NEW i \in 1 .. Size(p, bb),
         NEW live \in SUBSET Value
  PROVE  compDFVal(p, p.code[bb][i], live) \in SUBSET Value
  BY CodeShape DEF compDFVal

\* The sets a walk goes through: at[i] is what is live before instruction i.
IsWalk(p, bb, live, at) ==
  /\ at \in [1 .. Size(p, bb) + 1 -> SUBSET Value]
  /\ at[Size(p, bb) + 1] = live
  /\ \A i \in 1 .. Size(p, bb) : at[i] = compDFVal(p, p.code[bb][i], at[i + 1])

LEMMA BlockWalk ==
  ASSUME NEW p \in Programs, NEW bb \in Block, NEW live \in SUBSET Value
  PROVE  \E at : IsWalk(p, bb, live, at) /\ at[1] = compBlock(p, bb, live)
<1>. DEFINE n == Size(p, bb)
            S == DOMAIN p.code[bb]
            done == {{}}
            base == [T \in done |-> live]
            First(T) == CHOOSE x \in T : \A y \in T : x <= y
            rest == [T \in SUBSET S |-> T \ {First(T)}]
            step == [T \in SUBSET S |-> [live1 \in SUBSET Value |->
                       compDFVal(p, p.code[bb][First(T)], live1)]]
            Iter(g) == g = [T \in SUBSET S |->
                              IF T = {} THEN live
                              ELSE compDFVal(p, p.code[bb][First(T)], g[T \ {First(T)}])]
            iter == CHOOSE g : Iter(g)
            at == [i \in 1 .. n + 1 |-> iter[i .. n]]
<1>1. n \in Nat /\ S = 1 .. n /\ IsFiniteSet(S)
  BY CodeShape, FS_Interval
<1>2. ASSUME NEW T \in SUBSET S, T # {}
      PROVE  First(T) \in T /\ \A y \in T : First(T) <= y
  <2>1. \E x \in T : \A y \in T : x <= y
    BY <1>1, <1>2, LeastNatural
  <2>. QED
    BY <2>1
<1>3. compBlock(p, bb, live) = iter[S]
  BY Zenon DEF compBlock, FoldRight, MapThenFoldSet, Min
<1>4. Iter(iter)
  <2>1. \A T \in SUBSET S : T \notin done => rest[T] \in SUBSET T /\ rest[T] # T
    BY <1>2
  <2>2. \A T \in SUBSET S : T \notin done => step[T] \in [SUBSET Value -> SUBSET Value]
    <3>. SUFFICES ASSUME NEW T \in SUBSET S, T # {}
                  PROVE  step[T] \in [SUBSET Value -> SUBSET Value]
      OBVIOUS
    <3>1. First(T) \in 1 .. n
      BY <1>1, <1>2
    <3>. HIDE DEF First
    <3>. QED
      BY <3>1, TransferType
  <2>3. PICK f \in [SUBSET S -> SUBSET Value] :
          \A T \in SUBSET S : f[T] = IF T \in done THEN base[T] ELSE step[T][f[rest[T]]]
    <3>1. Recursion(S, done, base, rest, step, SUBSET Value)
      <4>. HIDE DEF step, rest
      <4>. QED
        BY <1>1, <2>1, <2>2 DEF Recursion
    <3>. HIDE DEF step, rest, base, done, S
    <3>2. \E f : SolvesRecursion(f, S, done, base, rest, step, SUBSET Value)
      BY <3>1, SubsetRecursion
    <3>. QED
      BY <3>2 DEF SolvesRecursion
  <2>4. Iter(f)
    <3>1. ASSUME NEW T \in SUBSET S
          PROVE  f[T] = IF T = {} THEN live
                        ELSE compDFVal(p, p.code[bb][First(T)], f[T \ {First(T)}])
      <4>1. CASE T = {}
        BY <2>3, <4>1
      <4>2. CASE T # {}
        <5>1. f[T] = step[T][f[rest[T]]]
          BY <2>3, <4>2
        <5>2. rest[T] = T \ {First(T)} /\ rest[T] \in SUBSET S
          BY DEF rest
        <5>3. f[rest[T]] \in SUBSET Value
          BY <2>3, <5>2
        <5>. HIDE DEF rest, First
        <5>. QED
          BY <4>2, <5>1, <5>2, <5>3
      <4>. QED
        BY <4>1, <4>2
    <3>. QED
      BY <3>1
  <2>. HIDE DEF Iter
  <2>. QED
    BY <2>4
<1>. HIDE DEF iter
<1>5. ASSUME NEW i \in 1 .. n
      PROVE  at[i] = compDFVal(p, p.code[bb][i], at[i + 1])
  <2>1. i .. n \in SUBSET S /\ i .. n # {}
    BY <1>1
  <2>2. First(i .. n) = i
    <3>1. i \in i .. n /\ \A y \in i .. n : i <= y
      BY <1>1
    <3>2. First(i .. n) \in i .. n /\ First(i .. n) <= i
      BY <1>2, <2>1, <3>1
    <3>. HIDE DEF First
    <3>. QED
      BY <1>1, <3>2
  <2>3. (i .. n) \ {i} = (i + 1) .. n
    BY <1>1
  <2>4. iter[i .. n] = compDFVal(p, p.code[bb][i], iter[(i + 1) .. n])
    <3>. HIDE DEF First
    <3>. QED
      BY <1>4, <2>1, <2>2, <2>3
  <2>. QED
    BY <1>1, <2>4
<1>6. at[n + 1] = live
  <2>1. (n + 1) .. n = {} /\ n + 1 \in 1 .. n + 1
    BY <1>1
  <2>. QED
    BY <1>4, <2>1
<1>7. at \in [1 .. n + 1 -> SUBSET Value]
  <2>. DEFINE H == {i \in 1 .. n + 1 : at[i] \in SUBSET Value}
  <2>1. n + 1 \in H
    BY <1>1, <1>6
  <2>2. \A i \in 1 .. n : i + 1 \in H => i \in H
    <3>. SUFFICES ASSUME NEW i \in 1 .. n, at[i + 1] \in SUBSET Value
                  PROVE  at[i] \in SUBSET Value
      BY <1>1
    <3>. HIDE DEF at, H
    <3>1. compDFVal(p, p.code[bb][i], at[i + 1]) \in SUBSET Value
      BY TransferType
    <3>2. at[i] = compDFVal(p, p.code[bb][i], at[i + 1])
      BY <1>5
    <3>. QED
      BY <3>1, <3>2
  <2>3. 1 .. n + 1 \subseteq H
    <3>. HIDE DEF H
    <3>. QED
      BY <1>1, <2>1, <2>2, DownwardInduction
  <2>. QED
    BY <2>3
<1>8. at[1] = compBlock(p, bb, live)
  BY <1>1, <1>3
<1>. QED
  <2>. HIDE DEF at
  <2>. QED
    BY <1>5, <1>6, <1>7, <1>8 DEF IsWalk

LEMMA VisitorType ==
  ASSUME NEW p \in Programs
  PROVE  Visitor(p) \in [Block -> [SUBSET Value -> SUBSET Value]]
<1>1. ASSUME NEW bb \in Block, NEW live \in SUBSET Value
      PROVE  compBlock(p, bb, live) \in SUBSET Value
  <2>1. PICK at : IsWalk(p, bb, live, at) /\ at[1] = compBlock(p, bb, live)
    BY BlockWalk
  <2>2. 1 \in 1 .. Size(p, bb) + 1
    BY CodeShape
  <2>. QED
    BY <2>1, <2>2 DEF IsWalk
<1>. QED
  BY <1>1 DEF Visitor

\* Two walks that start with ordered sets stay ordered.
LEMMA WalkMonotone ==
  ASSUME NEW p \in Programs, NEW bb \in Block,
         NEW X, NEW Y, X \subseteq Y,
         NEW at1, IsWalk(p, bb, X, at1), NEW at2, IsWalk(p, bb, Y, at2)
  PROVE  at1[1] \subseteq at2[1]
<1>. DEFINE n == Size(p, bb)
            H == {i \in 1 .. n + 1 : at1[i] \subseteq at2[i]}
<1>1. n \in Nat
  BY CodeShape
<1>2. n + 1 \in H
  BY <1>1 DEF IsWalk
<1>3. ASSUME NEW i \in 1 .. n, i + 1 \in H PROVE i \in H
  <2>1. at1[i] \subseteq at2[i]
    BY <1>3 DEF IsWalk, compDFVal
  <2>. QED
    BY <1>1, <2>1
<1>4. 1 .. n + 1 \subseteq H
  <2>. HIDE DEF H, n
  <2>. QED
    BY <1>1, <1>2, <1>3, DownwardInduction
<1>. QED
  BY <1>1, <1>4

\* The visitor is monotone: nothing it does to a set undoes what a larger set
\* would have kept.
LEMMA VisitorMonotone ==
  ASSUME NEW p \in Programs, NEW bb \in Block,
         NEW X \in SUBSET Value, NEW Y \in SUBSET Value, X \subseteq Y
  PROVE  compBlock(p, bb, X) \subseteq compBlock(p, bb, Y)
<1>1. PICK at1 : IsWalk(p, bb, X, at1) /\ at1[1] = compBlock(p, bb, X)
  BY BlockWalk
<1>2. PICK at2 : IsWalk(p, bb, Y, at2) /\ at2[1] = compBlock(p, bb, Y)
  BY BlockWalk
<1>. QED
  BY <1>1, <1>2, WalkMonotone

-----------------------------------------------------------------------------
(***************************************************************************)
(* Reaching is the least set of points that contains the targets and is    *)
(* closed under steps backwards.                                           *)
(***************************************************************************)

LEMMA PointsFinite ==
  ASSUME NEW p \in Programs
  PROVE  IsFiniteSet(Points(p))
<1>. DEFINE f == [bb \in Block |-> {bb} \X (1 .. Len(p.code[bb]) + 1)]
            T == {{bb} \X (1 .. Len(p.code[bb]) + 1) : bb \in Block}
<1>1. f \in Surjection(Block, T)
  BY DEF Surjection
<1>2. IsFiniteSet(T)
  <2>. HIDE DEF f, T
  <2>. QED
    BY <1>1, FS_Surjection, FunctionsAssumption
<1>3. ASSUME NEW bb \in Block
      PROVE  IsFiniteSet({bb} \X (1 .. Len(p.code[bb]) + 1))
  <2>1. Len(p.code[bb]) + 1 \in Int /\ 1 \in Int
    BY FunctionsAssumption
  <2>2. IsFiniteSet(1 .. Len(p.code[bb]) + 1) /\ IsFiniteSet({bb})
    BY <2>1, FS_Interval, FS_Singleton
  <2>. QED
    BY <2>2, FS_Product
<1>4. IsFiniteSet(UNION T)
  <2>1. \A U \in T : IsFiniteSet(U)
    BY <1>3
  <2>. HIDE DEF T
  <2>. QED
    BY <1>2, <2>1, FS_UNION
<1>. QED
  BY <1>4 DEF Points

LEMMA PointsShape ==
  ASSUME NEW p \in Programs, NEW q
  PROVE  q \in Points(p) <=>
           \E bb \in Block : \E i \in 1 .. Size(p, bb) + 1 : q = <<bb, i>>
  BY DEF Points, Size

LEMMA StepsToType ==
  ASSUME NEW p \in Programs, NEW v, NEW r \in Points(p)
  PROVE  StepsTo(p, v, r) \subseteq Points(p)
<1>. PICK bb \in Block : \E i \in 1 .. Size(p, bb) + 1 : r = <<bb, i>>
  BY PointsShape
<1>1. PICK i \in 1 .. Size(p, bb) + 1 : r = <<bb, i>>
  OBVIOUS
<1>2. CASE i = 1
  <2>1. ASSUME NEW e \in p.cfg
        PROVE  <<e[1], Len(p.code[e[1]]) + 1>> \in Points(p)
    <3>1. e[1] \in Block
      BY FunctionsAssumption
    <3>2. Size(p, e[1]) + 1 \in 1 .. Size(p, e[1]) + 1
      BY <3>1, CodeShape
    <3>. QED
      BY <3>1, <3>2, PointsShape DEF Size
  <2>. QED
    BY <1>1, <1>2, <2>1 DEF StepsTo
<1>3. CASE i # 1
  <2>1. i - 1 \in 1 .. Size(p, bb) + 1
    BY <1>3, CodeShape
  <2>2. <<bb, i - 1>> \in Points(p)
    BY <2>1, PointsShape
  <2>. QED
    BY <1>1, <1>3, <2>2 DEF StepsTo
<1>. QED
  BY <1>2, <1>3

\* A set of points that a step backwards does not leave.
Closed(p, v, X) == \A r \in X : StepsTo(p, v, r) \subseteq X

LEMMA ReachingLeast ==
  ASSUME NEW p \in Programs, NEW v, NEW targets \in SUBSET Points(p)
  PROVE  /\ Reaching(p, v, targets) \in SUBSET Points(p)
         /\ targets \subseteq Reaching(p, v, targets)
         /\ Closed(p, v, Reaching(p, v, targets))
         /\ \A X : targets \subseteq X /\ Closed(p, v, X)
                  => Reaching(p, v, targets) \subseteq X
<1>. DEFINE P == Points(p)
            Near(S) == UNION {StepsTo(p, v, r) : r \in S}
            more == [S \in SUBSET P |-> Near(S)]
            Eq(g) == g = [S \in SUBSET P |-> IF Near(S) \subseteq S THEN S
                                             ELSE g[S \cup Near(S)]]
            Closure == CHOOSE g : Eq(g)
<1>1. Reaching(p, v, targets) = Closure[targets]
  BY Zenon DEF Reaching
<1>2. more \in [SUBSET P -> SUBSET P]
  <2>1. ASSUME NEW S \in SUBSET P PROVE Near(S) \in SUBSET P
    BY StepsToType
  <2>. HIDE DEF P, Near
  <2>. QED
    BY <2>1
<1>3. IsFiniteSet(P)
  BY PointsFinite
<1>4. ASSUME NEW S \in SUBSET P, more[S] \subseteq S PROVE Closed(p, v, S)
  <2>1. Near(S) \subseteq S
    BY <1>4
  <2>. QED
    BY <2>1 DEF Closed
<1>5. ASSUME NEW X, Closed(p, v, X), NEW U \in SUBSET P, U \subseteq X
      PROVE  more[U] \subseteq X
  <2>1. more[U] = Near(U)
    OBVIOUS
  <2>. QED
    BY <1>5, <2>1 DEF Closed
<1>6. \A g : Grows(g, P, more) => Eq(g)
  <2>1. \A S \in SUBSET P : more[S] = Near(S)
    OBVIOUS
  <2>. HIDE DEF P, Near, more
  <2>. QED
    BY <2>1 DEF Grows
<1>7. \A g : Eq(g) => Grows(g, P, more)
  <2>1. \A S \in SUBSET P : more[S] = Near(S)
    OBVIOUS
  <2>. HIDE DEF P, Near, more
  <2>. QED
    BY <2>1 DEF Grows
<1>. HIDE DEF P, more, Eq
<1>8. Grows(Closure, P, more)
  <2>1. \E g : Eq(g)
    BY <1>2, <1>3, <1>6, GrowthDefined
  <2>2. Eq(Closure)
    BY <2>1
  <2>. QED
    BY <1>7, <2>2
<1>. HIDE DEF Closure
<1>9. targets \in SUBSET P
  BY DEF P
<1>10. LeastClosed(Closure[targets], targets, P, more)
  BY ONLY <1>2, <1>3, <1>8, <1>9, GrowthLeast
<1>11. Closed(p, v, Closure[targets])
  BY <1>4, <1>10 DEF LeastClosed
<1>12. ASSUME NEW X, targets \subseteq X, Closed(p, v, X)
       PROVE  Closure[targets] \subseteq X
  BY <1>5, <1>10, <1>12 DEF LeastClosed
<1>. QED
  BY <1>1, <1>10, <1>11, <1>12 DEF P, LeastClosed

-----------------------------------------------------------------------------
(***************************************************************************)
(* The pass is a run of compBackwardDataflow.                              *)
(***************************************************************************)

ThePass == prog \in Programs /\ visitor = Visitor(prog)

LEMMA PassConstant == Spec => []ThePass
<1>1. Init => ThePass
  BY DEF Init, ThePass
<1>2. ThePass /\ [Next]_vars => ThePass'
  BY DEF ThePass, Next, vars, Turn, Solver!Settle, Solver!Propagate, Visitor
<1>. QED
  BY <1>1, <1>2, PTL DEF Spec

LEMMA PassIsSolver == Spec => SolverProofs!Loop
<1>1. Init => SolverProofs!Init
  <2>. SUFFICES ASSUME Init PROVE SolverProofs!Init
    OBVIOUS
  <2>1. prog.cfg \in SUBSET (Block \X Block)
    BY FunctionsAssumption DEF Init
  <2>2. visitor \in [Block -> [SUBSET Value -> SUBSET Value]]
    BY VisitorType DEF Init
  <2>. QED
    BY <2>1, <2>2 DEF Init, Solver!Init, SolverProofs!Init
<1>2. [Next]_vars => [SolverProofs!Next]_(SolverProofs!vars)
  BY DEF Next, vars, Turn, SolverProofs!Next, SolverProofs!vars,
         Solver!Settle, SolverProofs!Settle, Solver!Propagate, SolverProofs!Propagate,
         Solver!bbentryval, SolverProofs!bbentryval,
         Solver!bbexitval, SolverProofs!bbexitval,
         Solver!pred, SolverProofs!pred, Solver!succ, SolverProofs!succ
<1>. QED
  BY <1>1, <1>2, PTL DEF Spec, SolverProofs!Loop

LEMMA SolverAssumption ==
  /\ SUBSET (Block \X Block) \subseteq SUBSET (Block \X Block)
  /\ [Block -> [SUBSET Value -> SUBSET Value]]
       \subseteq [Block -> [SUBSET Value -> SUBSET Value]]
  /\ Block # {}
  BY FunctionsAssumption

\* The result of LivenessVisitor keeps its type.
THEOREM LivenessTypeCorrect == Spec => []TypeOK
<1>1. SolverProofs!Loop => []SolverProofs!TypeOK
  BY SolverAssumption, SolverProofs!BackwardTypeCorrect
<1>2. SolverProofs!TypeOK => TypeOK
  BY DEF SolverProofs!TypeOK, TypeOK
<1>. QED
  BY <1>1, <1>2, PassIsSolver, PTL

LEMMA PassInvariants ==
  Spec => [](SolverProofs!BlocksUpToDate /\ SolverProofs!NeverTooMuch)
<1>1. SolverProofs!Loop => [](SolverProofs!BlocksUpToDate /\ SolverProofs!NeverTooMuch)
  BY SolverAssumption, SolverProofs!BackwardInvariants
<1>. QED
  BY <1>1, PassIsSolver, PTL

-----------------------------------------------------------------------------
(***************************************************************************)
(* The sets of the result are the live values.                             *)
(***************************************************************************)

LEMMA UsePointsType ==
  ASSUME NEW p \in Programs, NEW v
  PROVE  UsePoints(p, v) \in SUBSET Points(p)
  BY DEF UsePoints

LEMMA TransferAtUse ==
  ASSUME NEW p \in Programs, NEW v, NEW bb \in Block, NEW i \in 1 .. Size(p, bb),
         NEW live
  PROVE  /\ Before(p, <<bb, i>>) /\ <<bb, i>> \in Points(p)
         /\ Uses(p, <<bb, i>>, v) <=> /\ p.code[bb][i] \notin p.dbg
                                      /\ v \in p.op[p.code[bb][i]]
<1>1. i <= Len(p.code[bb]) /\ i \in 1 .. Size(p, bb) + 1
  BY CodeShape DEF Size
<1>2. <<bb, i>> \in Points(p)
  BY <1>1, PointsShape
<1>. QED
  BY <1>1, <1>2 DEF Before, Uses

\* When the worklist is empty, a live value is in the sets.
LEMMA LiveIsFound ==
  ASSUME ThePass, TypeOK, SolverProofs!BlocksUpToDate, worklist = {},
         NEW v \in Value, NEW bb \in Block
  PROVE  /\ <<bb, 1>> \in LivePoints(prog, v) => v \in entry[bb]
         /\ <<bb, Size(prog, bb) + 1>> \in LivePoints(prog, v) => v \in exit[bb]
<1>. DEFINE p == prog
            at == [b \in Block |-> CHOOSE w : /\ IsWalk(p, b, exit[b], w)
                                             /\ w[1] = compBlock(p, b, exit[b])]
            X == {q \in Points(p) : v \in at[q[1]][q[2]]}
<1>1. p \in Programs
  BY DEF ThePass
<1>2. ASSUME NEW b \in Block
      PROVE  IsWalk(p, b, exit[b], at[b]) /\ at[b][1] = entry[b]
  <2>1. exit[b] \in SUBSET Value
    BY DEF TypeOK
  <2>2. \E w : IsWalk(p, b, exit[b], w) /\ w[1] = compBlock(p, b, exit[b])
    <3>. HIDE DEF p
    <3>. QED
      BY <1>1, <2>1, BlockWalk
  <2>3. IsWalk(p, b, exit[b], at[b]) /\ at[b][1] = compBlock(p, b, exit[b])
    <3>. HIDE DEF p
    <3>. QED
      BY <2>2
  <2>4. compBlock(p, b, exit[b]) = entry[b]
    BY <2>1 DEF ThePass, Visitor, SolverProofs!BlocksUpToDate
  <2>. QED
    BY <2>3, <2>4
<1>3. ASSUME NEW e \in p.cfg
      PROVE  e[1] \in Block /\ e[2] \in Block /\ entry[e[2]] \subseteq exit[e[1]]
  <2>1. e \in Block \X Block
    BY <1>1, FunctionsAssumption
  <2>2. e[2] \in SolverProofs!succ(e[1])
    BY <2>1 DEF SolverProofs!succ
  <2>. QED
    BY <2>1, <2>2 DEF SolverProofs!BlocksUpToDate
<1>. HIDE DEF at, p
<1>4. UsePoints(p, v) \subseteq X
  <2>. SUFFICES ASSUME NEW q \in UsePoints(p, v) PROVE v \in at[q[1]][q[2]]
    BY DEF UsePoints
  <2>. PICK b \in Block : \E i \in 1 .. Size(p, b) + 1 : q = <<b, i>>
    BY <1>1, PointsShape DEF UsePoints
  <2>1. PICK i \in 1 .. Size(p, b) + 1 : q = <<b, i>>
    OBVIOUS
  <2>2. Before(p, q) /\ p.code[b][i] \notin p.dbg /\ v \in p.op[p.code[b][i]]
    BY <2>1 DEF UsePoints, Uses
  <2>3. i \in 1 .. Size(p, b)
    BY <1>1, <2>1, <2>2, CodeShape DEF Before, Size
  <2>. HIDE DEF X
  <2>4. at[b][i] = compDFVal(p, p.code[b][i], at[b][i + 1])
    BY <1>2, <2>3 DEF IsWalk
  <2>5. v \in at[b][i]
    BY <2>2, <2>4 DEF compDFVal
  <2>. QED
    BY <2>1, <2>5
<1>5. Closed(p, v, X)
  <2>. SUFFICES ASSUME NEW r \in X, NEW q \in StepsTo(p, v, r)
                PROVE  v \in at[q[1]][q[2]]
    BY <1>1, StepsToType DEF Closed
  <2>. PICK b \in Block : \E i \in 1 .. Size(p, b) + 1 : r = <<b, i>>
    BY <1>1, PointsShape
  <2>1. PICK i \in 1 .. Size(p, b) + 1 : r = <<b, i>>
    OBVIOUS
  <2>2. v \in at[b][i]
    BY <2>1
  <2>3. CASE i = 1
    <3>1. PICK e \in p.cfg : e[2] = b /\ q = <<e[1], Len(p.code[e[1]]) + 1>>
      BY <2>1, <2>3 DEF StepsTo
    <3>2. v \in exit[e[1]] /\ e[1] \in Block
      BY <1>2, <1>3, <2>2, <2>3, <3>1
    <3>. QED
      BY <1>2, <3>1, <3>2 DEF IsWalk, Size
  <2>4. CASE i # 1
    <3>1. q = <<b, i - 1>> /\ p.code[b][i - 1] # v
      BY <2>1, <2>4 DEF StepsTo
    <3>2. i - 1 \in 1 .. Size(p, b) /\ i - 1 + 1 = i
      BY <1>1, <2>4, CodeShape
    <3>3. at[b][i - 1] = compDFVal(p, p.code[b][i - 1], at[b][i])
      BY <1>2, <3>2 DEF IsWalk
    <3>. QED
      BY <2>2, <3>1, <3>3 DEF compDFVal
  <2>. QED
    BY <2>3, <2>4
<1>6. LivePoints(p, v) \subseteq X
  <2>. HIDE DEF X
  <2>. QED
    BY <1>1, <1>4, <1>5, UsePointsType, ReachingLeast DEF LivePoints
<1>. QED
  BY <1>2, <1>6 DEF IsWalk, p

\* The values live at point i of block bb.
LiveAt(p, bb, i) == {v \in Value : <<bb, i>> \in LivePoints(p, v)}

\* A walk that starts with values that are live at the end of the block meets
\* live values only.
LEMMA WalkStaysLive ==
  ASSUME NEW p \in Programs, NEW bb \in Block,
         NEW at, IsWalk(p, bb, LiveAt(p, bb, Size(p, bb) + 1), at)
  PROVE  at[1] \subseteq LiveAt(p, bb, 1)
<1>. DEFINE n == Size(p, bb)
            H == {i \in 1 .. n + 1 : at[i] \subseteq LiveAt(p, bb, i)}
<1>1. n \in Nat
  BY CodeShape
<1>2. n + 1 \in H
  BY <1>1 DEF IsWalk
<1>3. ASSUME NEW i \in 1 .. n, i + 1 \in H PROVE i \in H
  <2>. SUFFICES ASSUME NEW v \in at[i] PROVE v \in LiveAt(p, bb, i)
    BY <1>1
  <2>1. v \in Value /\ at[i] = compDFVal(p, p.code[bb][i], at[i + 1])
    BY <1>1 DEF IsWalk
  <2>2. /\ UsePoints(p, v) \subseteq LivePoints(p, v)
        /\ Closed(p, v, LivePoints(p, v))
    BY UsePointsType, ReachingLeast DEF LivePoints
  <2>3. CASE p.code[bb][i] \notin p.dbg /\ v \in p.op[p.code[bb][i]]
    <3>1. <<bb, i>> \in UsePoints(p, v)
      BY <2>3, TransferAtUse DEF UsePoints
    <3>. QED
      BY <2>1, <2>2, <3>1 DEF LiveAt
  <2>4. CASE v \in at[i + 1] /\ p.code[bb][i] # v
    <3>1. <<bb, i + 1>> \in LivePoints(p, v)
      BY <1>3, <2>4 DEF LiveAt
    <3>2. <<bb, i>> \in StepsTo(p, v, <<bb, i + 1>>)
      <4>1. i + 1 # 1 /\ i + 1 - 1 = i
        BY <1>1
      <4>. QED
        BY <2>4, <4>1 DEF StepsTo
    <3>. QED
      BY <2>1, <2>2, <3>1, <3>2 DEF Closed, LiveAt
  <2>5. \/ p.code[bb][i] \notin p.dbg /\ v \in p.op[p.code[bb][i]]
        \/ v \in at[i + 1] /\ p.code[bb][i] # v
    <3>1. p.code[bb][i] \in p.dbg => p.code[bb][i] # v
      BY <2>1, FunctionsAssumption
    <3>. QED
      BY <2>1, <3>1 DEF compDFVal
  <2>. QED
    BY <2>3, <2>4, <2>5
<1>4. 1 .. n + 1 \subseteq H
  <2>. HIDE DEF H, n
  <2>. QED
    BY <1>1, <1>2, <1>3, DownwardInduction
<1>. QED
  BY <1>1, <1>4

\* At any time, a value in the sets is live.
LEMMA FoundIsLive ==
  ASSUME ThePass, TypeOK, SolverProofs!NeverTooMuch, NEW bb \in Block
  PROVE  /\ entry[bb] \subseteq LiveAt(prog, bb, 1)
         /\ exit[bb] \subseteq LiveAt(prog, bb, Size(prog, bb) + 1)
<1>. DEFINE out == [b \in Block |-> LiveAt(prog, b, Size(prog, b) + 1)]
<1>1. prog \in Programs /\ visitor = Visitor(prog)
  BY DEF ThePass
<1>2. ASSUME NEW b \in Block
      PROVE  out[b] \in SUBSET Value /\ visitor[b][out[b]] \subseteq LiveAt(prog, b, 1)
  <2>1. out[b] \in SUBSET Value
    BY DEF LiveAt
  <2>2. PICK at : IsWalk(prog, b, out[b], at) /\ at[1] = compBlock(prog, b, out[b])
    <3>. HIDE DEF out
    <3>. QED
      BY <1>1, <2>1, BlockWalk
  <2>3. at[1] \subseteq LiveAt(prog, b, 1)
    BY <1>1, <2>2, WalkStaysLive
  <2>. QED
    BY <1>1, <2>1, <2>2, <2>3 DEF Visitor
<1>3. SolverProofs!IsMonotone
  BY <1>1, VisitorMonotone DEF SolverProofs!IsMonotone, Visitor
<1>4. SolverProofs!Solves(out)
  <2>. SUFFICES ASSUME NEW b \in Block, NEW s \in SolverProofs!succ(b),
                       NEW v \in LiveAt(prog, s, 1)
                PROVE  v \in LiveAt(prog, b, Size(prog, b) + 1)
    <3>1. \A b \in Block : \A s \in SolverProofs!succ(b) : s \in Block
      BY DEF SolverProofs!succ
    <3>. QED
      BY <1>2, <3>1 DEF SolverProofs!Solves
  <2>1. s \in Block /\ <<b, s>> \in prog.cfg
    BY DEF SolverProofs!succ
  <2>2. <<b, Size(prog, b) + 1>> \in StepsTo(prog, v, <<s, 1>>)
    BY <2>1 DEF StepsTo, Size
  <2>3. Closed(prog, v, LivePoints(prog, v))
    BY <1>1, UsePointsType, ReachingLeast DEF LivePoints
  <2>. QED
    BY <2>2, <2>3 DEF Closed, LiveAt
<1>5. out \in [Block -> SUBSET Value]
  BY DEF LiveAt
<1>6. /\ exit[bb] \subseteq out[bb]
      /\ entry[bb] \subseteq visitor[bb][out[bb]] \cup {}
  <2>. HIDE DEF out
  <2>. QED
    BY <1>3, <1>4, <1>5 DEF SolverProofs!NeverTooMuch
<1>. QED
  BY <1>2, <1>6

\* LivenessExact holds of every function: the printed sets are the live values.
THEOREM LivenessIsExact == Spec => []LivenessExact
<1>1. ASSUME ThePass, TypeOK, SolverProofs!BlocksUpToDate, SolverProofs!NeverTooMuch
      PROVE  LivenessExact
  <2>. SUFFICES ASSUME worklist = {}, NEW v \in Value, NEW bb \in Block
                PROVE  /\ v \in entry[bb] <=> <<bb, 1>> \in LivePoints(prog, v)
                       /\ v \in exit[bb] <=> <<bb, Size(prog, bb) + 1>> \in LivePoints(prog, v)
    BY DEF LivenessExact, Size
  <2>. QED
    BY <1>1, LiveIsFound, FoundIsLive DEF LiveAt
<1>. QED
  BY <1>1, PassConstant, LivenessTypeCorrect, PassInvariants, PTL

\* In a function in SSA form, a value is live at the start only by a phi node.
THEOREM LiveAtStartByPhi == Spec => []LiveAtStartOnlyByPhi
<1>1. ASSUME ThePass, TypeOK, LivenessExact
      PROVE  LiveAtStartOnlyByPhi
  <2>. SUFFICES ASSUME worklist = {}, NEW v \in entry[prog.entry],
                       \A inst \in prog.phi : v \notin prog.op[inst]
                PROVE  FALSE
    BY DEF LiveAtStartOnlyByPhi
  <2>1. prog \in Programs /\ prog.entry \in Block
    BY <1>1, FunctionsAssumption DEF ThePass
  <2>2. v \in Value
    BY <1>1, <2>1 DEF TypeOK
  <2>3. <<prog.entry, 1>> \in LivePoints(prog, v)
    BY <1>1, <2>1, <2>2 DEF LivenessExact
  <2>4. UsePoints(prog, v) = {q \in UsePoints(prog, v) : prog.code[q[1]][q[2]] \notin prog.phi}
    BY DEF UsePoints, Uses
  <2>. QED
    BY <2>1, <2>2, <2>3, <2>4, SSAAssumption DEF LivePoints
<1>. QED
  BY <1>1, PassConstant, LivenessTypeCorrect, LivenessIsExact, PTL
=============================================================================
