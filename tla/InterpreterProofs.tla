------------------------- MODULE InterpreterProofs -------------------------
(***************************************************************************)
(* Proofs about the interpreter, for all programs that Clang accepts: the  *)
(* heap owns the memory, and the frames match the calls in progress        *)
(* whichever way statements are left.                                      *)
(***************************************************************************)
EXTENDS Interpreter, ProofLemmas

-----------------------------------------------------------------------------
(***************************************************************************)
(* The heap.  Free takes away the bytes of one block, so the blocks must   *)
(* not overlap.                                                            *)
(***************************************************************************)

BlocksApart ==
  \A b, c \in DOMAIN mSpace :
    b # c => Bytes(b, mSpace[b]) \cap Bytes(c, mSpace[c]) = {}

HeapInv == HeapOwnsMemory /\ BlocksApart /\ DOMAIN mSpace \subseteq Addresses

LEMMA MallocKeepsHeap ==
  ASSUME HeapInv, NEW base \in Addresses, NEW size, NEW fill, Malloc(base, size, fill)
  PROVE  HeapInv'
<1>1. /\ DOMAIN memory' = DOMAIN memory \cup Bytes(base, size)
      /\ base \notin DOMAIN mSpace
      /\ Bytes(base, size) \cap DOMAIN memory = {}
  BY DEF Malloc
<1>2. /\ DOMAIN mSpace' = DOMAIN mSpace \cup {base}
      /\ mSpace'[base] = size
      /\ \A b \in DOMAIN mSpace : mSpace'[b] = mSpace[b]
  BY <1>1 DEF Malloc, Bind
<1>. DEFINE B(b) == Bytes(b, mSpace[b])
            C(b) == Bytes(b, mSpace'[b])
<1>3. /\ C(base) = Bytes(base, size)
      /\ \A b \in DOMAIN mSpace : C(b) = B(b)
  BY <1>2
<1>4. DOMAIN memory = UNION {B(b) : b \in DOMAIN mSpace}
  BY DEF HeapInv, HeapOwnsMemory
<1>5. \A b, c \in DOMAIN mSpace : b # c => B(b) \cap B(c) = {}
  BY DEF HeapInv, BlocksApart
<1>. HIDE DEF B, C
<1>6. DOMAIN memory' = UNION {C(b) : b \in DOMAIN mSpace'}
  BY <1>1, <1>2, <1>3, <1>4
<1>7. \A b \in DOMAIN mSpace : C(b) \cap C(base) = {}
  BY <1>1, <1>3, <1>4
<1>8. \A b, c \in DOMAIN mSpace' : b # c => C(b) \cap C(c) = {}
  BY <1>2, <1>3, <1>5, <1>7
<1>. QED
  BY <1>2, <1>6, <1>8 DEF C, HeapInv, HeapOwnsMemory, BlocksApart

LEMMA FreeKeepsHeap ==
  ASSUME HeapInv, NEW base, Free(base)
  PROVE  HeapInv'
<1>. DEFINE B(b) == Bytes(b, mSpace[b])
            C(b) == Bytes(b, mSpace'[b])
<1>1. /\ base \in DOMAIN mSpace
      /\ DOMAIN memory' = DOMAIN memory \ B(base)
      /\ DOMAIN mSpace' = DOMAIN mSpace \ {base}
      /\ \A b \in DOMAIN mSpace' : C(b) = B(b)
  BY DEF Free, Release, Restrict
<1>2. DOMAIN memory = UNION {B(b) : b \in DOMAIN mSpace}
  BY DEF HeapInv, HeapOwnsMemory
<1>3. \A b, c \in DOMAIN mSpace : b # c => B(b) \cap B(c) = {}
  BY DEF HeapInv, BlocksApart
<1>. HIDE DEF B, C
<1>4. DOMAIN memory' = UNION {C(b) : b \in DOMAIN mSpace'}
  BY <1>1, <1>2, <1>3
<1>5. \A b, c \in DOMAIN mSpace' : b # c => C(b) \cap C(c) = {}
  BY <1>1, <1>3
<1>. QED
  BY <1>1, <1>4, <1>5 DEF C, HeapInv, HeapOwnsMemory, BlocksApart

LEMMA DestroyKeepsHeap ==
  ASSUME HeapInv, DestroyHeap
  PROVE  HeapInv'
<1>1. DOMAIN memory' = {} /\ DOMAIN mSpace' = {}
  BY DEF HeapInv, HeapOwnsMemory, DestroyHeap, Restrict
<1>. QED
  BY <1>1 DEF HeapInv, HeapOwnsMemory, BlocksApart

\* What is stored in a block changes no block.
LEMMA StoreKeepsHeap ==
  ASSUME HeapInv, DOMAIN memory' = DOMAIN memory, UNCHANGED mSpace
  PROVE  HeapInv'
BY DEF HeapInv, HeapOwnsMemory, BlocksApart

LEMMA HeapInvariant == Spec => []HeapInv
<1>1. Init => HeapInv
  BY DEF Init, EnvInit, HeapInv, HeapOwnsMemory, BlocksApart
<1>2. HeapInv /\ [Next]_vars => HeapInv'
  <2>. SUFFICES ASSUME HeapInv, [Next]_vars PROVE HeapInv'
    OBVIOUS
  <2>1. ASSUME NEW e, NEW val, NEW parent, NEW result, bindDecl(e, val, parent, result)
        PROVE  HeapInv'
    BY <2>1, StoreKeepsHeap DEF bindDecl
  <2>2. CASE VisitExpr
    <3>1. CASE UNCHANGED <<mSpace, memory>>
      BY <3>1, StoreKeepsHeap
    <3>2. CASE assignop(top.id)
      BY <2>1, <3>2 DEF assignop
    <3>3. CASE incdecop(top.id)
      BY <2>1, <3>3 DEF incdecop
    <3>. QED
      BY <2>2, <3>1, <3>2, <3>3
         DEF VisitExpr, literal, paren, declref, binop, unaryop, derefop, arraysub,
             Access, bindStmt
  <2>3. CASE VisitDecl
    BY <2>3, MallocKeepsHeap, StoreKeepsHeap DEF VisitDecl, vardecl, arraydecl
  <2>4. CASE VisitBuiltin
    BY <2>4, MallocKeepsHeap, FreeKeepsHeap, StoreKeepsHeap
       DEF VisitBuiltin, builtinGET, builtinPRINT, builtinMALLOC, builtinFREE
  <2>5. CASE End
    BY <2>5, DestroyKeepsHeap DEF End
  <2>6. CASE UNCHANGED <<mSpace, memory>>
    BY <2>6, StoreKeepsHeap
  <2>. QED
    BY <2>2, <2>3, <2>4, <2>5, <2>6
       DEF Next, vars, envVars, VisitChild, VisitStmt, StartMain, VisitCallExpr, EndCallExpr,
           VisitReturnStmt, VisitBreakStmt, VisitContinueStmt, Unwind, CatchReturn,
           CatchBreak, CatchContinue, VisitIfStmt, EndIfStmt, VisitConditionalOperator,
           EndConditionalOperator, VisitWhileStmt, VisitForStmt, call, exit, returnstmt,
           init, condop, bindStmt
<1>. QED
  BY <1>1, <1>2, PTL DEF Spec

\* The heap owns exactly the memory that malloc has given out, so that ~Heap frees
\* everything and nothing twice, for every program and every placement of blocks.
THEOREM HeapIsConsistent == Spec => []HeapOwnsMemory
<1>1. HeapInv => HeapOwnsMemory
  BY DEF HeapInv
<1>. QED
  BY <1>1, HeapInvariant, PTL

-----------------------------------------------------------------------------
(***************************************************************************)
(* The calls of Visit in progress.  A jump finds its loop because the      *)
(* calls on control follow the syntax: a node inside a loop has the call   *)
(* that visits the body of that loop below it, and no call of a function   *)
(* in between.                                                             *)
(***************************************************************************)

IsAct(act) ==
  /\ act = [id |-> act.id, phase |-> act.phase, left |-> act.left]
  /\ act.id \in Nodes(prog)
  /\ IsSeq(act.left)
  /\ \A m \in 1 .. Len(act.left) :
       /\ act.left[m] \in DOMAIN Node(act.id).kids
       /\ IsLoopBody(prog, act.id, act.left[m]) => act.phase = "body"
  /\ IsCall(act) => act.left = << >>

InLoopBody(act) == act.phase = "body" /\ IsLoop(Node(act.id))

\* Below the first i calls of c there is a loop of the same function.
LoopBelow(c, i) ==
  \E j \in i + 1 .. Len(c) :
    InLoopBody(c[j]) /\ \A l \in i + 1 .. j : ~IsCall(c[l])

ControlOK(c) ==
  /\ IsSeq(c)
  /\ \A i \in 1 .. Len(c) :
       IsAct(c[i]) /\ (InLoop(prog, c[i].id) => LoopBelow(c, i))

Calls(c) == Cardinality({i \in DOMAIN c : IsCall(c[i])})

\* A child is in a loop if its parent is, or if it is the body of one.
LEMMA InLoopKid ==
  ASSUME NEW p \in Programs, NEW e \in Nodes(p), NEW i, InLoop(p, Kid(e, i))
  PROVE  InLoop(p, e) \/ IsLoopBody(p, e, i)
<1>1. /\ Len(e) \in Nat \ {0} /\ IsSeq(e)
  <2>1. IsSequence(e) /\ e # << >>
    BY ProgramsAssumption
  <2>2. IsSeq(e)
    BY <2>1, Tuple DEF IsSequence
  <2>. QED
    BY <2>1, <2>2, FrontTaken
<1>. DEFINE f == Kid(e, i)
<1>2. /\ IsSeq(f) /\ Len(f) = Len(e) + 1 /\ f[Len(e) + 1] = i
      /\ \A n \in 1 .. Len(e) : f[n] = e[n]
  BY <1>1, Appended DEF Kid
<1>. HIDE DEF f
<1>3. PICK n \in 1 .. Len(f) - 1 : IsLoopBody(p, SubSeq(f, 1, n), f[n + 1])
  BY DEF InLoop, f
<1>4. n \in 1 .. Len(e)
  BY <1>1, <1>2, <1>3
<1>5. SubSeq(f, 1, n) = SubSeq(e, 1, n)
  <2>1. PICK S : e \in Seq(S) /\ f \in Seq(S)
    <3>1. PICK S : e \in Seq(S)
      BY <1>1 DEF IsSeq
    <3>2. e \in Seq(S \cup {i}) /\ i \in S \cup {i}
      BY <3>1
    <3>3. f \in Seq(S \cup {i})
      BY <3>2, AppendProperties DEF f, Kid
    <3>. QED
      BY <3>2, <3>3
  <2>2. \A m \in 1 .. n : e[m] \in S /\ f[m] \in S
    BY <1>1, <1>2, <1>4, <2>1, ElementOfSeq
  <2>. DEFINE t == SubSeq(f, 1, n)
              u == SubSeq(e, 1, n)
  <2>3. /\ t \in Seq(S) /\ Len(t) = n /\ \A m \in 1 .. n : t[m] = f[m]
    <3>1. /\ t \in Seq(S)
          /\ Len(t) = IF 1 <= n THEN n - 1 + 1 ELSE 0
          /\ \A m \in 1 .. n - 1 + 1 : t[m] = f[1 + m - 1]
      BY <1>4, <2>2, SubSeqProperties
    <3>. QED
      BY <1>4, <3>1
  <2>4. /\ u \in Seq(S) /\ Len(u) = n /\ \A m \in 1 .. n : u[m] = e[m]
    <3>1. /\ u \in Seq(S)
          /\ Len(u) = IF 1 <= n THEN n - 1 + 1 ELSE 0
          /\ \A m \in 1 .. n - 1 + 1 : u[m] = e[1 + m - 1]
      BY <1>4, <2>2, SubSeqProperties
    <3>. QED
      BY <1>4, <3>1
  <2>. HIDE DEF t, u
  <2>5. \A m \in 1 .. n : t[m] = u[m]
    BY <1>2, <1>4, <1>1, <2>3, <2>4
  <2>6. t = u
    BY <2>3, <2>4, <2>5, SeqEqual
  <2>. QED
    BY <2>6 DEF t, u
<1>6. CASE n = Len(e)
  <2>1. SubSeq(e, 1, n) = e
    BY <1>1, <1>6, SubSeqFull DEF IsSeq
  <2>. QED
    BY <1>2, <1>3, <1>5, <1>6, <2>1
<1>7. CASE n # Len(e)
  <2>1. n \in 1 .. Len(e) - 1 /\ f[n + 1] = e[n + 1]
    BY <1>1, <1>2, <1>4, <1>7
  <2>. QED
    BY <1>3, <1>5, <2>1 DEF InLoop
<1>. QED
  BY <1>6, <1>7

\* The root of a function is in no loop.
LEMMA RootNotInLoop ==
  ASSUME NEW p, NEW f
  PROVE  ~InLoop(p, <<f>>)
BY DEF InLoop

LEMMA One ==
  ASSUME NEW x
  PROVE  IsSeq(<<x>>) /\ Len(<<x>>) = 1 /\ <<x>>[1] = x
<1>1. <<x>> \in Seq({x})
  OBVIOUS
<1>. QED
  BY <1>1 DEF IsSeq

\* The children that a statement with parts has.
LEMMA HasKids ==
  ASSUME NEW n, IsSequence(n.kids), HasArity(n)
  PROVE  /\ IsSeq(n.kids) /\ Len(n.kids) \in Nat
         /\ DOMAIN n.kids = 1 .. Len(n.kids)
         /\ n.kind \in {"if", "cond", "while", "for"} => {1, 2} \subseteq DOMAIN n.kids
         /\ n.kind = "if" /\ Len(n.kids) = 3 => 3 \in DOMAIN n.kids
         /\ n.kind \in {"cond", "for"} => 3 \in DOMAIN n.kids
         /\ n.kind = "for" => 4 \in DOMAIN n.kids
<1>1. PICK kids, len : kids = n.kids /\ len = Len(kids)
  OBVIOUS
<1>2. len \in Nat /\ kids = [i \in 1 .. len |-> kids[i]]
  BY <1>1 DEF IsSequence
<1>3. IsSeq(kids) /\ DOMAIN kids = 1 .. len
  BY <1>1, <1>2, Tuple
<1>4. /\ n.kind = "if" => len \in {2, 3}
      /\ n.kind = "cond" => len = 3
      /\ n.kind = "while" => len = 2
      /\ n.kind = "for" => len = 4
  BY <1>1 DEF HasArity
<1>5. /\ len >= 2 => {1, 2} \subseteq 1 .. len
      /\ len >= 3 => 3 \in 1 .. len
      /\ len >= 4 => 4 \in 1 .. len
  BY <1>2
<1>6. /\ n.kind \in {"if", "cond", "while", "for"} => len >= 2
      /\ n.kind = "if" /\ len = 3 => len >= 3
      /\ n.kind \in {"cond", "for"} => len >= 3
      /\ n.kind = "for" => len >= 4
  BY <1>2, <1>4
<1>7. /\ n.kind \in {"if", "cond", "while", "for"} => {1, 2} \subseteq 1 .. len
      /\ n.kind = "if" /\ len = 3 => 3 \in 1 .. len
      /\ n.kind \in {"cond", "for"} => 3 \in 1 .. len
      /\ n.kind = "for" => 4 \in 1 .. len
  BY <1>5, <1>6
<1>. QED
  BY <1>1, <1>2, <1>3, <1>7, Zenon

LEMMA VisitIsAct ==
  ASSUME prog \in Programs, NEW e \in Nodes(prog)
  PROVE  IsAct(Visit(e)) /\ Visit(e).id = e /\ ~IsCall(Visit(e))
<1>1. PICK n : n = Node(e)
  OBVIOUS
<1>2. IsSequence(n.kids) /\ HasArity(n)
  BY <1>1, ProgramsAssumption DEF Node
<1>3. /\ IsSeq(<<1>>) /\ Len(<<1>>) = 1 /\ <<1>>[1] = 1
  BY One
<1>4. CASE n.kind \in {"if", "cond", "while"}
  <2>1. Visit(e) = [id |-> e, phase |-> "cond", left |-> <<1>>]
    BY <1>1, <1>4, Zenon DEF Visit
  <2>2. 1 \in DOMAIN n.kids
    BY <1>2, <1>4, HasKids
  <2>. QED
    BY <1>1, <1>3, <1>4, <2>1, <2>2 DEF IsAct, IsCall, IsLoopBody, Node
<1>5. CASE n.kind = "for"
  <2>1. Visit(e) = [id |-> e, phase |-> "init", left |-> <<1>>]
    BY <1>1, <1>5 DEF Visit
  <2>2. 1 \in DOMAIN n.kids
    BY <1>2, <1>5, HasKids
  <2>. QED
    BY <1>1, <1>3, <1>5, <2>1, <2>2 DEF IsAct, IsCall, IsLoopBody, Node
<1>6. CASE n.kind \notin {"if", "cond", "while", "for"}
  <2>1. PICK all : all = [i \in DOMAIN n.kids |-> i]
    OBVIOUS
  <2>2. Visit(e) = [id |-> e, phase |-> "kids", left |-> all]
    BY <1>1, <1>6, <2>1 DEF Visit
  <2>3. PICK len \in Nat : DOMAIN n.kids = 1 .. len
    BY <1>2, HasKids
  <2>4. IsSeq(all) /\ Len(all) = len /\ \A i \in 1 .. len : all[i] = i
    <3>1. all \in [1 .. len -> Nat]
      BY <2>1, <2>3
    <3>2. all \in Seq(Nat)
      BY <3>1, SeqDef
    <3>3. DOMAIN all = 1 .. Len(all) /\ Len(all) \in Nat
      BY <3>2
    <3>. QED
      BY <2>1, <2>3, <3>1, <3>2, <3>3 DEF IsSeq
  <2>5. \A i \in 1 .. Len(all) : all[i] \in DOMAIN n.kids
    BY <2>3, <2>4
  <2>. QED
    BY <1>1, <1>6, <2>2, <2>4, <2>5 DEF IsAct, IsCall, IsLoopBody, Node
<1>. QED
  BY <1>1, <1>4, <1>5, <1>6

-----------------------------------------------------------------------------
(***************************************************************************)
(* What entering and leaving calls of Visit does to control.               *)
(***************************************************************************)

\* A loop is found k places further when the calls above it are k more.
LEMMA LoopKept ==
  ASSUME NEW c, NEW d, Len(c) \in Nat, Len(d) \in Nat, NEW k \in Int, NEW i \in Nat,
         Len(d) = Len(c) + k, i + k \in Nat,
         \A j \in i + 1 .. Len(c) : d[j + k] = c[j],
         LoopBelow(c, i)
  PROVE  LoopBelow(d, i + k)
<1>1. PICK m \in Nat, n \in Nat : m = Len(c) /\ n = Len(d) /\ n = m + k
  OBVIOUS
<1>2. PICK j \in i + 1 .. m : InLoopBody(c[j]) /\ \A l \in i + 1 .. j : ~IsCall(c[l])
  BY <1>1 DEF LoopBelow
<1>3. j + k \in i + k + 1 .. n /\ d[j + k] = c[j]
  BY <1>1, <1>2
<1>4. \A l \in i + k + 1 .. j + k :
        l - k \in i + 1 .. j /\ l - k \in i + 1 .. m /\ d[(l - k) + k] = c[l - k] /\ (l - k) + k = l
  BY <1>1, <1>2
<1>5. \A l \in i + k + 1 .. j + k : ~IsCall(d[l])
  BY <1>2, <1>4
<1>. QED
  BY <1>1, <1>2, <1>3, <1>5 DEF LoopBelow

\* One more call of Visit, of a function or not.
LEMMA CountCalls ==
  ASSUME NEW c, NEW d, IsSeq(c), IsSeq(d), Len(d) = Len(c) + 1,
         \A i \in 2 .. Len(d) : d[i] = c[i - 1]
  PROVE  /\ Calls(c) \in Nat
         /\ Calls(d) = Calls(c) + (IF IsCall(d[1]) THEN 1 ELSE 0)
<1>1. /\ Len(c) \in Nat /\ Len(d) \in Nat
      /\ DOMAIN c = 1 .. Len(c) /\ DOMAIN d = 1 .. Len(d)
  BY DEF IsSeq
<1>2. PICK n \in Nat : n = Len(c) /\ Len(d) = n + 1
  BY <1>1
<1>. DEFINE I == {i \in DOMAIN c : IsCall(c[i])}
            J == {i \in DOMAIN d : IsCall(d[i])}
<1>3. I \in SUBSET (1 .. n) /\ J \in SUBSET (1 .. n + 1)
  BY <1>1, <1>2
<1>4. \A j \in 2 .. n + 1 : j \in J <=> j - 1 \in I
  BY <1>1, <1>2
<1>5. 1 \in J <=> IsCall(d[1])
  BY <1>1, <1>2
<1>. HIDE DEF I, J
<1>6. /\ Cardinality(I) \in Nat
      /\ Cardinality(J) = Cardinality(I) + (IF 1 \in J THEN 1 ELSE 0)
  BY <1>3, <1>4, Shifted
<1>. QED
  BY <1>5, <1>6 DEF Calls, I, J

LEMMA CallsAreCounted ==
  ASSUME NEW c, IsSeq(c)
  PROVE  Calls(c) \in Nat /\ (Len(c) = 1 /\ ~IsCall(c[1]) => Calls(c) = 0)
<1>1. PICK n \in Nat : n = Len(c) /\ DOMAIN c = 1 .. n
  BY DEF IsSeq
<1>. DEFINE I == {i \in DOMAIN c : IsCall(c[i])}
<1>2. I \in SUBSET (1 .. n) /\ (n = 1 /\ ~IsCall(c[1]) => I = {})
  BY <1>1
<1>. HIDE DEF I
<1>3. Cardinality(I) \in Nat /\ (I = {} => Cardinality(I) = 0)
  BY <1>1, <1>2, Positions
<1>. QED
  BY <1>1, <1>2, <1>3 DEF Calls, I

LEMMA Pop ==
  ASSUME NEW c, ControlOK(c), c # << >>
  PROVE  /\ ControlOK(Tail(c))
         /\ Calls(Tail(c)) \in Nat
         /\ Calls(c) = Calls(Tail(c)) + (IF IsCall(Head(c)) THEN 1 ELSE 0)
         /\ LoopBelow(c, 1) => LoopBelow(Tail(c), 0)
         /\ LoopBelow(c, 0) /\ ~InLoopBody(Head(c)) =>
              ~IsCall(Head(c)) /\ LoopBelow(Tail(c), 0)
<1>. DEFINE d == Tail(c)
<1>1. /\ IsSeq(c) /\ IsSeq(d) /\ Len(c) \in Nat \ {0} /\ Len(d) \in Nat
      /\ Len(d) = Len(c) - 1 /\ Head(c) = c[1]
      /\ \A i \in 1 .. Len(c) - 1 : d[i] = c[i + 1]
  BY Popped, LenProperties DEF ControlOK, IsSeq
<1>. HIDE DEF d
<1>2. PICK n \in Nat : n = Len(d) /\ Len(c) = n + 1
  BY <1>1
<1>3. ASSUME NEW i \in 0 .. n, LoopBelow(c, i + 1)
      PROVE  LoopBelow(d, i)
    <2>1. PICK k \in Int, m \in Nat : k = -1 /\ m = i + 1 /\ m + k = i
      BY <1>2
    <2>2. Len(d) = Len(c) + k /\ m + k \in Nat
      BY <1>1, <1>2, <2>1
    <2>3. \A j \in m + 1 .. Len(c) : d[j + k] = c[j]
      BY <1>1, <1>2, <2>1
    <2>4. LoopBelow(c, m)
      BY <1>3, <2>1
    <2>5. Len(c) \in Nat /\ Len(d) \in Nat
      BY <1>1
    <2>6. LoopBelow(d, m + k)
      BY <2>2, <2>3, <2>4, <2>5, LoopKept
    <2>. QED
      BY <2>1, <2>6
<1>4. ControlOK(d)
  <2>1. ASSUME NEW i \in 1 .. n
        PROVE  IsAct(d[i]) /\ (InLoop(prog, d[i].id) => LoopBelow(d, i))
    <3>1. i + 1 \in 1 .. Len(c) /\ d[i] = c[i + 1] /\ i \in 0 .. n
      BY <1>1, <1>2
    <3>. QED
      BY <1>3, <3>1 DEF ControlOK
  <2>. QED
    BY <1>1, <1>2, <2>1 DEF ControlOK
<1>5. Calls(d) \in Nat /\ Calls(c) = Calls(d) + (IF IsCall(Head(c)) THEN 1 ELSE 0)
  <2>1. /\ Len(c) = Len(d) + 1
        /\ \A i \in 2 .. Len(c) : c[i] = d[i - 1]
    BY <1>1, <1>2
  <2>. QED
    BY <1>1, <2>1, CountCalls
<1>6. LoopBelow(c, 1) => LoopBelow(d, 0)
  <2>1. 0 \in 0 .. n /\ 0 + 1 = 1
    OBVIOUS
  <2>. QED
    BY <1>3, <2>1
<1>7. LoopBelow(c, 0) /\ ~InLoopBody(Head(c)) => ~IsCall(Head(c)) /\ LoopBelow(c, 1)
  <2>1. SUFFICES ASSUME LoopBelow(c, 0), ~InLoopBody(Head(c))
                 PROVE  ~IsCall(Head(c)) /\ LoopBelow(c, 1)
    OBVIOUS
  <2>2. PICK j \in 1 .. n + 1 : InLoopBody(c[j]) /\ \A l \in 1 .. j : ~IsCall(c[l])
    BY <1>2, <2>1 DEF LoopBelow
  <2>3. j \in 1 + 1 .. n + 1 /\ 1 \in 1 .. j
    BY <1>1, <2>1, <2>2
  <2>4. \A l \in 1 + 1 .. j : l \in 1 .. j
    OBVIOUS
  <2>. QED
    BY <1>1, <1>2, <2>2, <2>3, <2>4 DEF LoopBelow
<1>. QED
  BY <1>4, <1>5, <1>6, <1>7 DEF d

\* The innermost call goes on with another part of its node.
LEMMA Retop ==
  ASSUME NEW c, ControlOK(c), c # << >>, NEW a, IsAct(a), a.id = Head(c).id
  PROVE  /\ ControlOK(<<a>> \o Tail(c))
         /\ Calls(Tail(c)) \in Nat
         /\ Calls(<<a>> \o Tail(c)) = Calls(Tail(c)) + (IF IsCall(a) THEN 1 ELSE 0)
<1>. DEFINE d == <<a>> \o Tail(c)
            t == Tail(c)
<1>1. /\ IsSeq(c) /\ IsSeq(d) /\ Len(c) \in Nat \ {0} /\ Len(d) = Len(c)
      /\ d[1] = a /\ Head(c) = c[1]
      /\ \A i \in 2 .. Len(c) : d[i] = c[i]
  BY Replaced DEF ControlOK
<1>2. IsSeq(t) /\ Len(t) = Len(c) - 1 /\ \A i \in 1 .. Len(c) - 1 : t[i] = c[i + 1]
  BY <1>1, Popped
<1>. HIDE DEF d, t
<1>3. PICK n \in Nat \ {0} : n = Len(c) /\ n = Len(d)
  BY <1>1
<1>4. ASSUME NEW i \in 1 .. n, LoopBelow(c, i)
      PROVE  LoopBelow(d, i)
  <2>1. /\ Len(d) = Len(c) + 0 /\ i + 0 \in Nat /\ i \in Nat /\ i + 0 = i /\ 0 \in Int
        /\ \A j \in i + 1 .. Len(c) : d[j + 0] = c[j]
    BY <1>1, <1>3
  <2>2. LoopBelow(d, i + 0)
    BY <1>1, <1>4, <2>1, LoopKept
  <2>. QED
    BY <2>1, <2>2
<1>5. ASSUME NEW i \in 1 .. n
      PROVE  IsAct(d[i]) /\ (InLoop(prog, d[i].id) => LoopBelow(d, i))
  <2>1. d[i].id = c[i].id /\ IsAct(d[i])
    BY <1>1, <1>3 DEF ControlOK
  <2>. QED
    BY <1>3, <1>4, <2>1 DEF ControlOK
<1>6. ControlOK(d)
  BY <1>1, <1>3, <1>5 DEF ControlOK
<1>7. Len(d) = Len(t) + 1 /\ \A i \in 2 .. Len(d) : d[i] = t[i - 1]
  BY <1>1, <1>2, <1>3
<1>8. Calls(t) \in Nat /\ Calls(d) = Calls(t) + (IF IsCall(a) THEN 1 ELSE 0)
  BY <1>1, <1>2, <1>7, CountCalls
<1>. QED
  BY <1>6, <1>8 DEF d, t

\* The innermost call waits for a call of Visit on another node.
LEMMA Push ==
  ASSUME NEW c, ControlOK(c), c # << >>,
         NEW a, IsAct(a), a.id = Head(c).id,
         NEW b, IsAct(b), ~IsCall(b),
         InLoop(prog, b.id) => InLoopBody(a) \/ (InLoop(prog, a.id) /\ ~IsCall(a))
  PROVE  /\ ControlOK(<<b, a>> \o Tail(c))
         /\ Calls(Tail(c)) \in Nat
         /\ Calls(<<b, a>> \o Tail(c)) = Calls(Tail(c)) + (IF IsCall(a) THEN 1 ELSE 0)
<1>. DEFINE d == <<a>> \o Tail(c)
            e == <<b, a>> \o Tail(c)
            t == Tail(c)
<1>1. /\ ControlOK(d) /\ Calls(t) \in Nat
      /\ Calls(d) = Calls(t) + (IF IsCall(a) THEN 1 ELSE 0)
  BY Retop
<1>2. /\ IsSeq(c) /\ IsSeq(d) /\ Len(c) \in Nat \ {0} /\ Len(d) = Len(c)
      /\ d[1] = a
      /\ \A i \in 2 .. Len(c) : d[i] = c[i]
  BY Replaced DEF ControlOK
<1>3. /\ IsSeq(e) /\ Len(e) = Len(c) + 1 /\ e[1] = b /\ e[2] = a
      /\ \A i \in 3 .. Len(c) + 1 : e[i] = c[i - 1]
  BY <1>2, Nested
<1>. HIDE DEF d, e, t
<1>4. PICK n \in Nat \ {0} : n = Len(d) /\ n + 1 = Len(e)
  BY <1>2, <1>3
<1>5. \A i \in 2 .. n + 1 : e[i] = d[i - 1]
  BY <1>2, <1>3, <1>4
<1>6. ASSUME NEW i \in 1 .. n, LoopBelow(d, i)
      PROVE  LoopBelow(e, i + 1)
  <2>1. /\ Len(e) = Len(d) + 1 /\ Len(d) \in Nat /\ Len(e) \in Nat
        /\ i + 1 \in Nat /\ i \in Nat /\ 1 \in Int
        /\ \A j \in i + 1 .. Len(d) : j + 1 \in 2 .. n + 1 /\ (j + 1) - 1 = j
    BY <1>4
  <2>2. \A j \in i + 1 .. Len(d) : e[j + 1] = d[j]
    BY <1>5, <2>1
  <2>. QED
    BY <1>4, <1>6, <2>1, <2>2, LoopKept
<1>7. ASSUME InLoop(prog, b.id)
      PROVE  LoopBelow(e, 1)
  <2>1. CASE InLoopBody(a)
    <3>1. ~IsCall(a)
      BY <2>1 DEF InLoopBody, IsCall, IsLoop
    <3>2. 2 \in 1 + 1 .. Len(e) /\ \A l \in 1 + 1 .. 2 : l = 2
      BY <1>4
    <3>. QED
      BY <1>3, <2>1, <3>1, <3>2 DEF LoopBelow
  <2>2. CASE InLoop(prog, a.id) /\ ~IsCall(a)
    <3>1. LoopBelow(d, 1)
      BY <1>1, <1>2, <1>4, <2>2 DEF ControlOK
    <3>2. LoopBelow(e, 2)
      BY <1>4, <1>6, <3>1
    <3>3. PICK j \in 3 .. n + 1 : InLoopBody(e[j]) /\ \A l \in 3 .. j : ~IsCall(e[l])
      BY <1>4, <3>2 DEF LoopBelow
    <3>4. j \in 1 + 1 .. Len(e) /\ \A l \in 1 + 1 .. j : ~IsCall(e[l])
      BY <1>3, <1>4, <2>2, <3>3
    <3>. QED
      BY <3>3, <3>4 DEF LoopBelow
  <2>. QED
    BY <1>7, <2>1, <2>2
<1>8. ASSUME NEW i \in 1 .. n + 1
      PROVE  IsAct(e[i]) /\ (InLoop(prog, e[i].id) => LoopBelow(e, i))
  <2>1. CASE i = 1
    BY <1>3, <1>7, <2>1
  <2>2. CASE i # 1
    <3>1. i - 1 \in 1 .. n /\ e[i] = d[i - 1] /\ (i - 1) + 1 = i
      BY <1>5, <2>2
    <3>2. IsAct(d[i - 1]) /\ (InLoop(prog, d[i - 1].id) => LoopBelow(d, i - 1))
      BY <1>1, <1>4, <3>1 DEF ControlOK
    <3>. QED
      BY <1>6, <3>1, <3>2
  <2>. QED
    BY <2>1, <2>2
<1>9. ControlOK(e)
  BY <1>3, <1>4, <1>8 DEF ControlOK
<1>10. Calls(e) = Calls(d)
  <2>1. Calls(d) \in Nat /\ Calls(e) = Calls(d) + (IF IsCall(e[1]) THEN 1 ELSE 0)
    BY <1>2, <1>3, <1>4, <1>5, CountCalls
  <2>. QED
    BY <1>3, <2>1
<1>. QED
  BY <1>1, <1>9, <1>10 DEF d, e, t

-----------------------------------------------------------------------------
(***************************************************************************)
(* The stack of frames.                                                    *)
(***************************************************************************)

IsFrame(f) ==
  /\ f = [mVars |-> f.mVars, mExprs |-> f.mExprs, mPtrs |-> f.mPtrs,
          returnValue |-> f.returnValue]
  /\ DOMAIN f.mPtrs \subseteq DOMAIN f.mExprs

StackOK ==
  /\ IsSeq(mStack) /\ mStack # << >>
  /\ \A i \in 1 .. Len(mStack) : IsFrame(mStack[i])

\* The program stays, and so does the number of frames.
Kept == prog' = prog /\ StackOK' /\ Len(mStack') = Len(mStack)

LEMMA EmptyFrame ==
  IsFrame(StackFrame) /\ \A vals : IsFrame([StackFrame EXCEPT !.mVars = vals])
BY DEF IsFrame, StackFrame

LEMMA BackIsFrame ==
  ASSUME StackOK
  PROVE  IsFrame(back) /\ back = mStack[Len(mStack)]
<1>1. Len(mStack) \in Nat \ {0}
  BY FrontTaken DEF StackOK
<1>2. back = mStack[Len(mStack)]
  BY DEF back, Last
<1>. QED
  BY <1>1, <1>2 DEF StackOK

LEMMA WithKeepsFrame ==
  ASSUME NEW f, IsFrame(f), NEW key, NEW val
  PROVE  /\ IsFrame(WithDecl(f, key, val))
         /\ IsFrame(WithStmt(f, key, val))
         /\ IsFrame([f EXCEPT !.returnValue = val])
<1>1. PICK v, x, p, r : f = [mVars |-> v, mExprs |-> x, mPtrs |-> p, returnValue |-> r]
                        /\ DOMAIN p \subseteq DOMAIN x
  BY DEF IsFrame
<1>2. /\ WithDecl(f, key, val) =
           [mVars |-> Bind(v, key, val), mExprs |-> x, mPtrs |-> p, returnValue |-> r]
      /\ WithStmt(f, key, val) =
           [mVars |-> v, mExprs |-> Bind(x, key, val), mPtrs |-> p, returnValue |-> r]
      /\ [f EXCEPT !.returnValue = val] =
           [mVars |-> v, mExprs |-> x, mPtrs |-> p, returnValue |-> val]
  BY <1>1 DEF WithDecl, WithStmt
<1>3. DOMAIN Bind(x, key, val) = DOMAIN x \cup {key}
  BY DEF Bind
<1>. QED
  BY <1>1, <1>2, <1>3 DEF IsFrame

LEMMA SetBackKeeps ==
  ASSUME StackOK, NEW f, IsFrame(f), SetBack(f)
  PROVE  Kept
<1>1. mStack' = [mStack EXCEPT ![Len(mStack)] = f]
  BY DEF SetBack
<1>2. /\ IsSeq(mStack') /\ Len(mStack') = Len(mStack) /\ Len(mStack) \in Nat \ {0}
      /\ \A i \in 1 .. Len(mStack) :
           mStack'[i] = IF i = Len(mStack) THEN f ELSE mStack[i]
  BY <1>1, LastReplaced DEF StackOK
<1>3. mStack' # << >>
  BY <1>2
<1>4. \A i \in 1 .. Len(mStack') : IsFrame(mStack'[i])
  BY <1>2 DEF StackOK
<1>5. StackOK'
  BY <1>2, <1>3, <1>4 DEF StackOK, IsSeq, IsFrame
<1>. QED
  BY <1>2, <1>5 DEF Kept, SetBack

LEMMA BindKeeps ==
  ASSUME StackOK
  PROVE  /\ \A e, val : bindStmt(e, val) => Kept
         /\ \A e, val, parent, result : bindDecl(e, val, parent, result) => Kept
         /\ \A e, addr : Access(e, addr) => Kept
         /\ \A e : returnstmt(e) => Kept
         /\ \A e : vardecl(e) => Kept
         /\ \A e : arraydecl(e) => Kept
         /\ \A e : builtinGET(e) => Kept
         /\ \A e : builtinMALLOC(e) => Kept
<1>1. IsFrame(back)
  BY BackIsFrame
<1>2. /\ \A key, val : IsFrame(WithDecl(back, key, val))
      /\ \A key, val : IsFrame(WithStmt(back, key, val))
      /\ \A d, v, key, val : IsFrame(WithStmt(WithDecl(back, d, v), key, val))
      /\ \A val : IsFrame([back EXCEPT !.returnValue = val])
  BY <1>1, WithKeepsFrame
<1>3. ASSUME NEW e, NEW addr
      PROVE  IsFrame(WithPtr(WithStmt(back, e, memory[addr]), e, addr))
  <2>1. /\ IsFrame(WithStmt(back, e, memory[addr]))
        /\ DOMAIN WithStmt(back, e, memory[addr]).mExprs = DOMAIN back.mExprs \cup {e}
        /\ DOMAIN WithStmt(back, e, memory[addr]).mPtrs = DOMAIN back.mPtrs
    BY <1>1, <1>2 DEF WithStmt, IsFrame, Bind
  <2>2. PICK f : f = WithStmt(back, e, memory[addr])
    OBVIOUS
  <2>3. /\ IsFrame(f) /\ e \in DOMAIN f.mExprs
    BY <2>1, <2>2
  <2>4. PICK v, x, p, r : f = [mVars |-> v, mExprs |-> x, mPtrs |-> p, returnValue |-> r]
                          /\ DOMAIN p \subseteq DOMAIN x /\ e \in DOMAIN x
    BY <2>3 DEF IsFrame
  <2>5. WithPtr(f, e, addr) =
          [mVars |-> v, mExprs |-> x, mPtrs |-> Bind(p, e, addr), returnValue |-> r]
    BY <2>4 DEF WithPtr
  <2>6. DOMAIN Bind(p, e, addr) = DOMAIN p \cup {e}
    BY DEF Bind
  <2>7. IsFrame(WithPtr(f, e, addr))
    BY <2>4, <2>5, <2>6 DEF IsFrame
  <2>. QED
    BY <2>2, <2>7
<1>4. \A f : IsFrame(f) /\ SetBack(f) => Kept
  BY SetBackKeeps
<1>5. /\ \A e, val : bindStmt(e, val) => Kept
      /\ \A e, addr : Access(e, addr) => Kept
      /\ \A e : returnstmt(e) => Kept
      /\ \A e : vardecl(e) => Kept
      /\ \A e : arraydecl(e) => Kept
      /\ \A e : builtinGET(e) => Kept
      /\ \A e : builtinMALLOC(e) => Kept
  BY <1>2, <1>3, <1>4
     DEF bindStmt, Access, returnstmt, vardecl, arraydecl, builtinGET, builtinMALLOC
<1>6. \A e, val, parent, result : bindDecl(e, val, parent, result) => Kept
  BY <1>2, <1>4 DEF bindDecl
<1>. QED
  BY <1>5, <1>6

LEMMA SameStack ==
  ASSUME StackOK, UNCHANGED <<prog, mStack>>
  PROVE  Kept
BY DEF Kept, StackOK

LEMMA CallPushes ==
  ASSUME StackOK, NEW e, call(e)
  PROVE  prog' = prog /\ StackOK' /\ Len(mStack') = Len(mStack) + 1
<1>1. PICK f : IsFrame(f) /\ mStack' = Append(mStack, f)
  BY EmptyFrame DEF call
<1>2. /\ IsSeq(mStack') /\ Len(mStack') = Len(mStack) + 1 /\ Len(mStack) \in Nat
      /\ \A i \in 1 .. Len(mStack) : mStack'[i] = mStack[i]
      /\ mStack'[Len(mStack) + 1] = f
  BY <1>1, Appended DEF StackOK
<1>3. \A i \in 1 .. Len(mStack') : IsFrame(mStack'[i])
  BY <1>1, <1>2 DEF StackOK
<1>4. StackOK'
  BY <1>2, <1>3 DEF StackOK, IsSeq, IsFrame
<1>. QED
  BY <1>2, <1>4 DEF call

LEMMA ExitPops ==
  ASSUME StackOK, Len(mStack) # 1, NEW e, exit(e)
  PROVE  prog' = prog /\ StackOK' /\ Len(mStack') = Len(mStack) - 1
<1>. DEFINE rest == Front(mStack)
            below == Front(rest)
<1>1. /\ IsSeq(rest) /\ Len(rest) = Len(mStack) - 1 /\ Len(mStack) \in Nat \ {0}
      /\ \A i \in 1 .. Len(mStack) - 1 : rest[i] = mStack[i]
  BY FrontTaken DEF StackOK
<1>2. PICK n \in Nat \ {0} : n = Len(rest) /\ Len(mStack) = n + 1
  BY <1>1 DEF StackOK
<1>3. rest # << >>
  BY <1>2
<1>4. \A i \in 1 .. n : IsFrame(rest[i])
  BY <1>1, <1>2 DEF StackOK
<1>5. /\ IsSeq(below) /\ Len(below) = n - 1
      /\ \A i \in 1 .. n - 1 : below[i] = rest[i]
  <2>. HIDE DEF rest
  <2>. QED
    BY <1>1, <1>2, <1>3, FrontTaken
<1>6. IsFrame(Last(rest))
  <2>1. Last(rest) = rest[n]
    BY <1>2 DEF Last
  <2>. QED
    BY <1>2, <1>4, <2>1
<1>7. PICK f : IsFrame(f) /\ mStack' = Append(below, f)
  <2>1. IsFrame(WithStmt(Last(rest), e, back.returnValue))
    BY <1>6, WithKeepsFrame
  <2>. QED
    BY <1>6, <2>1 DEF exit
<1>. HIDE DEF below, rest
<1>8. /\ IsSeq(mStack') /\ Len(mStack') = n
      /\ \A i \in 1 .. n - 1 : mStack'[i] = below[i]
      /\ mStack'[n] = f
  BY <1>2, <1>5, <1>7, Appended
<1>9. \A i \in 1 .. n : IsFrame(mStack'[i])
  <2>1. ASSUME NEW i \in 1 .. n
        PROVE  IsFrame(mStack'[i])
    <3>1. CASE i = n
      BY <1>7, <1>8, <3>1
    <3>2. CASE i # n
      BY <1>4, <1>5, <1>8, <3>2
    <3>. QED
      BY <3>1, <3>2
  <2>. QED
    BY <2>1
<1>10. mStack' # << >>
  BY <1>8
<1>11. StackOK'
  BY <1>8, <1>9, <1>10 DEF StackOK, IsSeq, IsFrame
<1>. QED
  BY <1>2, <1>8, <1>11 DEF exit

-----------------------------------------------------------------------------
(***************************************************************************)
(* Every step keeps the shape of control, one frame for every call in      *)
(* progress, and a loop for every jump.                                    *)
(***************************************************************************)

Exceptions == {"none", "return", "break", "continue"}

ControlInv ==
  /\ prog \in Programs
  /\ ControlOK(control)
  /\ StackOK
  /\ Len(mStack) = 1 + Calls(control)
  /\ thrown \in Exceptions
  /\ thrown \in {"break", "continue"} => LoopBelow(control, 0)

\* While no break or continue is thrown.
Follows(c, n) == ControlOK(c) /\ Calls(c) \in Nat /\ n = 1 + Calls(c)

LEMMA NextInv ==
  ASSUME ControlInv, prog' = prog, StackOK', Follows(control', Len(mStack')),
         thrown' \in Exceptions,
         thrown' \in {"break", "continue"} => LoopBelow(control', 0)
  PROVE  ControlInv'
<1>1. ControlOK(control)'
  BY DEF Follows, ControlOK, IsSeq, IsAct, InLoopBody, LoopBelow, IsCall, IsLoop, Node
<1>2. Calls(control)' = Calls(control')
  BY DEF Calls, IsCall, Node
<1>3. LoopBelow(control, 0)' <=> LoopBelow(control', 0)
  BY DEF LoopBelow, InLoopBody, IsCall, IsLoop, Node
<1>. QED
  BY <1>1, <1>2, <1>3 DEF ControlInv, Follows, Exceptions

\* A call of Visit that is no call of a function ends.
LEMMA LeaveKeeps ==
  ASSUME ControlInv, control # << >>, thrown = "none", ~IsCall(top), Leave, Kept
  PROVE  ControlInv'
<1>1. /\ ControlOK(Tail(control)) /\ Calls(Tail(control)) \in Nat
      /\ Calls(control) = Calls(Tail(control))
  BY Pop DEF ControlInv, top
<1>2. control' = Tail(control) /\ thrown' = "none"
  BY DEF Leave
<1>3. Follows(control', Len(mStack'))
  BY <1>1, <1>2 DEF Follows, ControlInv, Kept
<1>. QED
  BY <1>2, <1>3, NextInv DEF Kept, Exceptions

LEMMA GotoKeeps ==
  ASSUME ControlInv, control # << >>, thrown = "none", this.kind # "call",
         NEW phase, NEW left, Goto(phase, left), UNCHANGED envVars,
         \/ left = << >>
         \/ \E i \in DOMAIN this.kids :
              left = <<i>> /\ (IsLoopBody(prog, top.id, i) => phase = "body")
  PROVE  ControlInv'
<1>1. IsAct(top)
  <2>1. 1 \in 1 .. Len(control) /\ top = control[1]
    BY Popped DEF ControlInv, ControlOK, top
  <2>. QED
    BY <2>1 DEF ControlInv, ControlOK
<1>. DEFINE a == [id |-> top.id, phase |-> phase, left |-> left]
<1>2. a = [id |-> top.id, phase |-> phase, left |-> left]
  OBVIOUS
<1>3. IsSeq(left) /\ \A m \in 1 .. Len(left) :
        left[m] \in DOMAIN this.kids /\ (IsLoopBody(prog, top.id, left[m]) => phase = "body")
  <2>1. CASE left = << >>
    <3>1. << >> \in Seq({})
      OBVIOUS
    <3>. QED
      BY <2>1, <3>1 DEF IsSeq
  <2>2. CASE left # << >>
    <3>1. PICK i \in DOMAIN this.kids :
            left = <<i>> /\ (IsLoopBody(prog, top.id, i) => phase = "body")
      BY <2>2
    <3>2. IsSeq(left) /\ Len(left) = 1 /\ left[1] = i
      BY <3>1, One
    <3>. QED
      BY <3>1, <3>2
  <2>. QED
    BY <2>1, <2>2
<1>. HIDE DEF a
<1>4. ~IsCall(a) /\ ~IsCall(top)
  BY <1>2 DEF IsCall, this
<1>5. IsAct(a) /\ a.id = Head(control).id
  BY <1>1, <1>2, <1>3, <1>4 DEF IsAct, this, top
<1>6. /\ ControlOK(<<a>> \o Tail(control))
      /\ Calls(Tail(control)) \in Nat
      /\ Calls(<<a>> \o Tail(control)) = Calls(Tail(control))
      /\ Calls(control) = Calls(Tail(control))
  BY <1>4, <1>5, Retop, Pop DEF ControlInv, top
<1>7. control' = <<a>> \o Tail(control) /\ thrown' = "none"
  BY DEF Goto, a
<1>8. Kept
  BY SameStack DEF ControlInv, envVars
<1>9. Follows(control', Len(mStack'))
  BY <1>6, <1>7, <1>8 DEF Follows, ControlInv, Kept
<1>. QED
  BY <1>7, <1>8, <1>9, NextInv DEF Kept, Exceptions

\* Visiting the next child, or the body of the function that is called.
LEMMA EnterKeeps ==
  ASSUME ControlInv, control # << >>, thrown = "none", ~IsCall(top),
         NEW a, IsAct(a), a.id = top.id,
         NEW e \in Nodes(prog),
         InLoop(prog, e) => InLoopBody(a) \/ (InLoop(prog, a.id) /\ ~IsCall(a)),
         control' = <<Visit(e), a>> \o Tail(control), thrown' = thrown,
         prog' = prog, StackOK',
         Len(mStack') = Len(mStack) + (IF IsCall(a) THEN 1 ELSE 0)
  PROVE  ControlInv'
<1>1. IsAct(Visit(e)) /\ Visit(e).id = e /\ ~IsCall(Visit(e))
  BY VisitIsAct DEF ControlInv
<1>2. PICK b : b = Visit(e)
  OBVIOUS
<1>3. /\ ControlOK(<<b, a>> \o Tail(control))
      /\ Calls(Tail(control)) \in Nat
      /\ Calls(<<b, a>> \o Tail(control)) =
           Calls(Tail(control)) + (IF IsCall(a) THEN 1 ELSE 0)
  BY <1>1, <1>2, Push DEF ControlInv, top
<1>4. Calls(control) = Calls(Tail(control))
  BY Pop DEF ControlInv, top
<1>5. Follows(control', Len(mStack'))
  BY <1>2, <1>3, <1>4 DEF Follows, ControlInv
<1>. QED
  BY <1>5, NextInv DEF Exceptions

LEMMA TopIsAct ==
  ASSUME ControlInv, control # << >>
  PROVE  /\ IsAct(top)
         /\ InLoop(prog, top.id) => LoopBelow(control, 1)
         /\ IsSequence(this.kids) /\ HasArity(this)
         /\ this.kind = "call" => <<this.fn>> \in Nodes(prog)
         /\ this.kind \in {"break", "continue"} => InLoop(prog, top.id)
<1>1. 1 \in 1 .. Len(control) /\ top = control[1]
  BY Popped DEF ControlInv, ControlOK, top
<1>2. IsAct(top) /\ (InLoop(prog, top.id) => LoopBelow(control, 1))
  BY <1>1 DEF ControlInv, ControlOK
<1>3. PICK e \in Nodes(prog) : e = top.id
  BY <1>2 DEF IsAct
<1>4. prog \in Programs
  BY DEF ControlInv
<1>. QED
  BY <1>2, <1>3, <1>4, ProgramsAssumption DEF this, Node

LEMMA ControlInit == Init => ControlInv
<1>. SUFFICES ASSUME Init PROVE ControlInv
  OBVIOUS
<1>1. prog \in Programs /\ <<"unit">> \in Nodes(prog)
  BY ProgramsAssumption DEF Init, EnvInit
<1>2. StackOK /\ Len(mStack) = 1
  BY EmptyFrame, One DEF Init, EnvInit, StackOK
<1>3. PICK a : a = Visit(<<"unit">>)
  OBVIOUS
<1>4. IsAct(a) /\ a.id = <<"unit">> /\ ~IsCall(a)
  BY <1>1, <1>3, VisitIsAct
<1>5. /\ IsSeq(control) /\ Len(control) = 1 /\ control[1] = a
  BY <1>3, One DEF Init
<1>6. ControlOK(control)
  BY <1>4, <1>5, RootNotInLoop DEF ControlOK
<1>7. Calls(control) = 0
  BY <1>4, <1>5, CallsAreCounted
<1>. QED
  BY <1>1, <1>2, <1>6, <1>7 DEF ControlInv, Init, Exceptions

LEMMA ControlNext == ControlInv /\ [Next]_vars => ControlInv'
<1>. SUFFICES ASSUME ControlInv, [Next]_vars PROVE ControlInv'
  OBVIOUS
<1>. USE DEF At
<1>0. StackOK
  BY DEF ControlInv
<1>1. ASSUME VisitChild PROVE ControlInv'
  <2>1. control # << >> /\ thrown = "none" /\ top.left # << >>
    BY <1>1 DEF VisitChild
  <2>. DEFINE a == [top EXCEPT !.left = Tail(@)]
              i == Head(top.left)
  <2>2. IsAct(top)
    BY <2>1, TopIsAct
  <2>3. a = [id |-> top.id, phase |-> top.phase, left |-> Tail(top.left)]
    <3>1. PICK id, ph, l : top = [id |-> id, phase |-> ph, left |-> l]
      BY <2>2 DEF IsAct
    <3>2. PICK t : t = Tail(top.left)
      OBVIOUS
    <3>3. [top EXCEPT !.left = t] = [id |-> top.id, phase |-> top.phase, left |-> t]
      BY <3>1
    <3>. QED
      BY <3>2, <3>3
  <2>4. /\ IsSeq(top.left) /\ 1 \in 1 .. Len(top.left) /\ i = top.left[1]
        /\ IsSeq(Tail(top.left))
        /\ \A m \in 1 .. Len(Tail(top.left)) :
             m + 1 \in 1 .. Len(top.left) /\ Tail(top.left)[m] = top.left[m + 1]
    BY <2>1, <2>2, Popped DEF IsAct
  <2>5. i \in DOMAIN this.kids /\ (IsLoopBody(prog, top.id, i) => top.phase = "body")
    BY <2>2, <2>4 DEF IsAct, this
  <2>6. ~IsCall(top) /\ ~IsCall(a)
    BY <2>1, <2>2, <2>3 DEF IsAct, IsCall
  <2>7. IsAct(a) /\ a.id = top.id
    <3>1. \A m \in 1 .. Len(Tail(top.left)) :
            /\ Tail(top.left)[m] \in DOMAIN Node(top.id).kids
            /\ IsLoopBody(prog, top.id, Tail(top.left)[m]) => top.phase = "body"
      BY <2>2, <2>4 DEF IsAct
    <3>. QED
      BY <2>2, <2>3, <2>4, <2>6, <3>1 DEF IsAct
  <2>8. /\ Kid(top.id, i) \in Nodes(prog)
        /\ InLoop(prog, Kid(top.id, i)) => InLoop(prog, top.id) \/ IsLoopBody(prog, top.id, i)
    <3>1. PICK e \in Nodes(prog) : e = top.id
      BY <2>2 DEF IsAct
    <3>2. prog \in Programs
      BY DEF ControlInv
    <3>. QED
      BY <2>5, <3>1, <3>2, InLoopKid, ProgramsAssumption DEF this, Node
  <2>9. InLoop(prog, Kid(top.id, i)) => InLoopBody(a) \/ (InLoop(prog, a.id) /\ ~IsCall(a))
    BY <2>3, <2>5, <2>6, <2>8 DEF InLoopBody, IsLoopBody, IsLoop, Node
  <2>10. /\ control' = <<Visit(Kid(top.id, i)), a>> \o Tail(control)
         /\ thrown' = thrown /\ Kept
    BY <1>0, <1>1, SameStack DEF VisitChild, envVars
  <2>. HIDE DEF a, i
  <2>11. /\ prog' = prog /\ StackOK'
         /\ Len(mStack') = Len(mStack) + (IF IsCall(a) THEN 1 ELSE 0)
    BY <2>6, <2>10, <1>0, FrontTaken DEF Kept, StackOK
  <2>. QED
    BY <2>1, <2>6, <2>7, <2>8, <2>9, <2>10, <2>11, EnterKeeps
\* The nodes that only call a method of Environment.
<1>2. ASSUME control # << >>, thrown = "none", top.phase = "kids", Leave, Kept
      PROVE  ControlInv'
  <2>1. ~IsCall(top)
    BY <1>2 DEF IsCall
  <2>. QED
    BY <1>2, <2>1, LeaveKeeps
<1>3. ASSUME VisitExpr PROVE ControlInv'
  <2>1. control # << >> /\ thrown = "none" /\ top.phase = "kids" /\ Leave
    BY <1>3 DEF VisitExpr
  <2>2. Kept
    BY <1>0, <1>3, BindKeeps
       DEF VisitExpr, literal, paren, declref, binop, unaryop, derefop, arraysub,
           assignop, incdecop
  <2>. QED
    BY <1>2, <2>1, <2>2
<1>4. ASSUME VisitDecl PROVE ControlInv'
  <2>1. control # << >> /\ thrown = "none" /\ top.phase = "kids" /\ Leave
    BY <1>4 DEF VisitDecl
  <2>2. Kept
    BY <1>0, <1>4, BindKeeps DEF VisitDecl
  <2>. QED
    BY <1>2, <2>1, <2>2
<1>5. ASSUME VisitBuiltin PROVE ControlInv'
  <2>1. control # << >> /\ thrown = "none" /\ top.phase = "kids" /\ Leave
    BY <1>5 DEF VisitBuiltin
  <2>2. Kept
    BY <1>0, <1>5, BindKeeps, SameStack DEF VisitBuiltin, builtinPRINT, builtinFREE, Free
  <2>. QED
    BY <1>2, <2>1, <2>2
<1>6. ASSUME VisitStmt PROVE ControlInv'
  BY <1>0, <1>2, <1>6, SameStack DEF VisitStmt, envVars
<1>7. ASSUME StartMain PROVE ControlInv'
  <2>1. thrown' = "none" /\ control' = <<Visit(<<"main">>)>>
    BY <1>7 DEF StartMain
  <2>2. prog \in Programs /\ <<"main">> \in Nodes(prog)
    BY ProgramsAssumption DEF ControlInv
  <2>3. prog' = prog /\ mStack' = <<StackFrame>>
    BY <1>7 DEF StartMain, init
  <2>4. StackOK' /\ Len(mStack') = 1
    <3>1. \A i \in 1 .. Len(mStack') : IsFrame(mStack'[i])
      BY <2>3, EmptyFrame
    <3>2. IsSeq(mStack') /\ Len(mStack') = 1
      BY <2>3, One
    <3>3. mStack' # << >>
      BY <3>2
    <3>. QED
      BY <3>1, <3>2, <3>3 DEF StackOK, IsSeq, IsFrame
  <2>5. PICK a : a = Visit(<<"main">>)
    OBVIOUS
  <2>6. IsAct(a) /\ a.id = <<"main">> /\ ~IsCall(a)
    BY <2>2, <2>5, VisitIsAct
  <2>7. IsSeq(control') /\ Len(control') = 1 /\ control'[1] = a
    BY <2>1, <2>5, One
  <2>8. ControlOK(control')
    BY <2>6, <2>7, RootNotInLoop DEF ControlOK
  <2>9. Follows(control', Len(mStack'))
    BY <2>4, <2>6, <2>7, <2>8, CallsAreCounted DEF Follows
  <2>. QED
    BY <2>1, <2>3, <2>4, <2>9, NextInv DEF Exceptions
<1>8. ASSUME VisitCallExpr PROVE ControlInv'
  <2>1. control # << >> /\ thrown = "none" /\ top.phase = "kids" /\ this.kind = "call"
        /\ call(top.id) /\ top.left = << >>
    BY <1>8 DEF VisitCallExpr
  <2>2. /\ IsAct(top) /\ <<this.fn>> \in Nodes(prog)
    BY <2>1, TopIsAct
  <2>. DEFINE a == [top EXCEPT !.phase = "body"]
  <2>3. a = [id |-> top.id, phase |-> "body", left |-> top.left]
    <3>1. PICK id, ph, l : top = [id |-> id, phase |-> ph, left |-> l]
      BY <2>2 DEF IsAct
    <3>. QED
      BY <3>1
  <2>4. /\ control' = <<Visit(<<this.fn>>), a>> \o Tail(control)
        /\ thrown' = thrown
    BY <1>8 DEF VisitCallExpr
  <2>. HIDE DEF a
  <2>5. IsCall(a) /\ ~IsCall(top) /\ IsAct(a) /\ a.id = top.id
    BY <2>1, <2>2, <2>3 DEF IsCall, IsAct, this
  <2>6. ~InLoop(prog, <<this.fn>>)
    BY RootNotInLoop
  <2>7. /\ prog' = prog /\ StackOK'
        /\ Len(mStack') = Len(mStack) + (IF IsCall(a) THEN 1 ELSE 0)
    BY <1>0, <2>1, <2>5, CallPushes
  <2>. QED
    BY <2>1, <2>2, <2>4, <2>5, <2>6, <2>7, EnterKeeps
<1>9. ASSUME EndCallExpr PROVE ControlInv'
  <2>1. control # << >> /\ thrown = "none" /\ IsCall(top) /\ exit(top.id) /\ Leave
    BY <1>9 DEF EndCallExpr, IsCall, this
  <2>2. /\ ControlOK(Tail(control)) /\ Calls(Tail(control)) \in Nat
        /\ Calls(control) = Calls(Tail(control)) + 1
    BY <2>1, Pop DEF ControlInv, top
  <2>3. Len(mStack) = 2 + Calls(Tail(control)) /\ Len(mStack) # 1
    BY <2>2 DEF ControlInv
  <2>4. prog' = prog /\ StackOK' /\ Len(mStack') = Len(mStack) - 1
    BY <1>0, <2>1, <2>3, ExitPops
  <2>5. control' = Tail(control) /\ thrown' = "none"
    BY <2>1 DEF Leave
  <2>6. Follows(control', Len(mStack'))
    BY <2>2, <2>3, <2>4, <2>5 DEF Follows
  <2>. QED
    BY <2>4, <2>5, <2>6, NextInv DEF Exceptions
\* A statement that jumps, and the calls that the exception leaves.
<1>10. ASSUME control # << >>, ~IsCall(top), control' = Tail(control), Kept,
              thrown' \in Exceptions,
              thrown' \in {"break", "continue"} => LoopBelow(Tail(control), 0)
       PROVE  ControlInv'
  <2>1. /\ ControlOK(Tail(control)) /\ Calls(Tail(control)) \in Nat
        /\ Calls(control) = Calls(Tail(control))
    BY <1>10, Pop DEF ControlInv, top
  <2>2. Follows(control', Len(mStack'))
    BY <1>10, <2>1 DEF Follows, ControlInv, Kept
  <2>. QED
    BY <1>10, <2>2, NextInv DEF Kept
<1>11. ASSUME VisitReturnStmt PROVE ControlInv'
  <2>1. control # << >> /\ ~IsCall(top) /\ control' = Tail(control) /\ thrown' = "return"
    BY <1>11 DEF VisitReturnStmt, Throw, IsCall
  <2>2. Kept
    BY <1>0, <1>11, BindKeeps DEF VisitReturnStmt
  <2>. QED
    BY <1>10, <2>1, <2>2 DEF Exceptions
<1>12. ASSUME VisitBreakStmt \/ VisitContinueStmt PROVE ControlInv'
  <2>1. /\ control # << >> /\ ~IsCall(top) /\ control' = Tail(control)
        /\ thrown' \in {"break", "continue"} /\ this.kind \in {"break", "continue"}
        /\ UNCHANGED envVars
    BY <1>12 DEF VisitBreakStmt, VisitContinueStmt, Throw, IsCall
  <2>2. Kept
    BY <1>0, <2>1, SameStack DEF envVars
  <2>3. LoopBelow(control, 1)
    BY <2>1, TopIsAct
  <2>4. LoopBelow(Tail(control), 0)
    BY <2>1, <2>3, Pop DEF ControlInv
  <2>. QED
    BY <1>10, <2>1, <2>2, <2>4 DEF Exceptions
<1>13. ASSUME Unwind PROVE ControlInv'
  <2>1. /\ control # << >> /\ thrown # "none" /\ ~Handles(top, thrown)
        /\ control' = Tail(control) /\ thrown' = thrown
    BY <1>13 DEF Unwind
  <2>2. Kept
    BY <1>0, <1>13, SameStack DEF Unwind, envVars
  <2>3. CASE thrown = "return"
    <3>1. ~IsCall(top)
      BY <2>1, <2>3 DEF Handles, IsCall
    <3>. QED
      BY <1>10, <2>1, <2>2, <2>3, <3>1 DEF Exceptions
  <2>4. CASE thrown \in {"break", "continue"}
    <3>1. LoopBelow(control, 0) /\ ~InLoopBody(top)
      BY <2>1, <2>4 DEF ControlInv, Handles, InLoopBody
    <3>2. ~IsCall(top) /\ LoopBelow(Tail(control), 0)
      BY <2>1, <3>1, Pop DEF ControlInv, top
    <3>. QED
      BY <1>10, <2>1, <2>2, <2>4, <3>2 DEF Exceptions
  <2>. QED
    BY <2>1, <2>3, <2>4 DEF ControlInv, Exceptions
<1>14. ASSUME UNCHANGED <<envVars, control>>, thrown' = "none" \/ thrown' = thrown
       PROVE  ControlInv'
  <2>1. Kept
    BY <1>0, <1>14, SameStack DEF envVars
  <2>2. Calls(control) \in Nat
    BY CallsAreCounted DEF ControlInv, ControlOK
  <2>3. Follows(control', Len(mStack'))
    BY <1>14, <2>1, <2>2 DEF Follows, ControlInv, Kept
  <2>4. thrown' \in Exceptions /\ (thrown' \in {"break", "continue"} => LoopBelow(control', 0))
    BY <1>14 DEF ControlInv, Exceptions
  <2>. QED
    BY <2>1, <2>3, <2>4, NextInv DEF Kept
<1>15. ASSUME CatchReturn \/ CatchContinue PROVE ControlInv'
  BY <1>14, <1>15 DEF CatchReturn, CatchContinue
<1>16. ASSUME CatchBreak PROVE ControlInv'
  <2>1. /\ control # << >> /\ control' = Tail(control) /\ thrown' = "none"
        /\ ~IsCall(top)
    BY <1>16 DEF CatchBreak, Handles, IsLoop, IsCall
  <2>2. Kept
    BY <1>0, <1>16, SameStack DEF CatchBreak, envVars
  <2>. QED
    BY <1>10, <2>1, <2>2 DEF Exceptions
\* Statements with several parts, and the conditional operator.
<1>17. ASSUME control # << >>, thrown = "none", this.kind # "call", Leave, Kept
       PROVE  ControlInv'
  BY <1>17, LeaveKeeps DEF IsCall, this
<1>18. ASSUME control # << >>, thrown = "none", this.kind \in {"if", "cond", "while", "for"},
              UNCHANGED envVars, NEW phase,
              \/ Goto(phase, << >>)
              \/ \E i \in {1, 2, 3, 4} :
                   /\ Goto(phase, <<i>>)
                   /\ i = 3 => this.kind # "while" /\ (this.kind = "if" => Len(this.kids) = 3)
                   /\ i = 4 => this.kind = "for"
                   /\ IsLoopBody(prog, top.id, i) => phase = "body"
       PROVE  ControlInv'
  <2>1. /\ {1, 2} \subseteq DOMAIN this.kids
        /\ this.kind = "if" /\ Len(this.kids) = 3 => 3 \in DOMAIN this.kids
        /\ this.kind \in {"cond", "for"} => 3 \in DOMAIN this.kids
        /\ this.kind = "for" => 4 \in DOMAIN this.kids
    BY <1>18, TopIsAct, HasKids
  <2>2. this.kind # "call"
    BY <1>18
  <2>3. CASE Goto(phase, << >>)
    BY <1>18, <2>2, <2>3, GotoKeeps
  <2>4. CASE ~Goto(phase, << >>)
    <3>1. PICK i \in {1, 2, 3, 4} :
            /\ Goto(phase, <<i>>)
            /\ i = 3 => this.kind # "while" /\ (this.kind = "if" => Len(this.kids) = 3)
            /\ i = 4 => this.kind = "for"
            /\ IsLoopBody(prog, top.id, i) => phase = "body"
      BY <1>18, <2>4
    <3>2. i \in DOMAIN this.kids
      BY <1>18, <2>1, <3>1
    <3>. QED
      BY <1>18, <2>2, <3>1, <3>2, GotoKeeps
  <2>. QED
    BY <2>3, <2>4
<1>19. ASSUME NEW i \in {1, 2, 3, 4}
       PROVE  IsLoopBody(prog, top.id, i) <=>
                (this.kind = "while" /\ i = 2) \/ (this.kind = "for" /\ i = 4)
  BY DEF IsLoopBody, this, Node
<1>20. ASSUME VisitIfStmt PROVE ControlInv'
  <2>1. /\ control # << >> /\ thrown = "none" /\ this.kind = "if" /\ UNCHANGED envVars
        /\ \/ Goto("branch", <<2>>)
           \/ Len(this.kids) = 3 /\ Goto("branch", <<3>>)
           \/ Goto("branch", << >>)
    BY <1>20 DEF VisitIfStmt
  <2>. QED
    BY <1>18, <1>19, <2>1
<1>21. ASSUME VisitConditionalOperator PROVE ControlInv'
  <2>1. /\ control # << >> /\ thrown = "none" /\ this.kind = "cond" /\ UNCHANGED envVars
        /\ Goto("true", <<2>>) \/ Goto("false", <<3>>)
    BY <1>21 DEF VisitConditionalOperator
  <2>. QED
    BY <1>18, <1>19, <2>1
<1>22. ASSUME EndIfStmt PROVE ControlInv'
  <2>1. control # << >> /\ thrown = "none" /\ this.kind # "call" /\ Leave
    BY <1>22 DEF EndIfStmt
  <2>2. Kept
    BY <1>0, <1>22, SameStack DEF EndIfStmt, envVars
  <2>. QED
    BY <1>17, <2>1, <2>2
<1>23. ASSUME EndConditionalOperator PROVE ControlInv'
  <2>1. control # << >> /\ thrown = "none" /\ this.kind # "call" /\ Leave
    BY <1>23 DEF EndConditionalOperator
  <2>2. Kept
    BY <1>0, <1>23, BindKeeps DEF EndConditionalOperator, condop
  <2>. QED
    BY <1>17, <2>1, <2>2
<1>24. ASSUME VisitWhileStmt PROVE ControlInv'
  <2>1. /\ control # << >> /\ thrown = "none" /\ this.kind = "while" /\ UNCHANGED envVars
        /\ Goto("body", <<2>>) \/ Goto("cond", <<1>>) \/ Leave
    BY <1>24 DEF VisitWhileStmt
  <2>2. Kept
    BY <1>0, <2>1, SameStack DEF envVars
  <2>3. this.kind # "call"
    BY <2>1
  <2>. QED
    BY <1>17, <1>18, <1>19, <2>1, <2>2, <2>3
<1>25. ASSUME VisitForStmt PROVE ControlInv'
  <2>1. /\ control # << >> /\ thrown = "none" /\ this.kind = "for" /\ UNCHANGED envVars
        /\ \/ Goto("cond", <<2>>) \/ Goto("body", <<4>>)
           \/ Goto("inc", <<3>>) \/ Leave
    BY <1>25 DEF VisitForStmt
  <2>2. Kept
    BY <1>0, <2>1, SameStack DEF envVars
  <2>3. this.kind # "call"
    BY <2>1
  <2>. QED
    BY <1>17, <1>18, <1>19, <2>1, <2>2, <2>3
<1>26. ASSUME End PROVE ControlInv'
  <2>1. UNCHANGED <<prog, mStack, control, thrown>>
    BY <1>26 DEF End, DestroyHeap
  <2>2. Kept
    BY <1>0, <2>1, SameStack
  <2>3. Calls(control) \in Nat
    BY CallsAreCounted DEF ControlInv, ControlOK
  <2>4. Follows(control', Len(mStack'))
    BY <2>1, <2>2, <2>3 DEF Follows, ControlInv, Kept
  <2>. QED
    BY <2>1, <2>2, <2>4, NextInv DEF Kept, ControlInv
<1>27. ASSUME UNCHANGED vars PROVE ControlInv'
  BY <1>14, <1>27 DEF vars
<1>. QED
  BY <1>1, <1>3, <1>4, <1>5, <1>6, <1>7, <1>8, <1>9, <1>11, <1>12, <1>13, <1>15, <1>16,
     <1>20, <1>21, <1>22, <1>23, <1>24, <1>25, <1>26, <1>27 DEF Next

LEMMA ControlInvariant == Spec => []ControlInv
BY ControlInit, ControlNext, PTL DEF Spec

\* A break or continue finds the loop it belongs to before it leaves the function,
\* in every program that Clang accepts: VisitCallExpr needs no handler for them.
THEOREM JumpsFindTheirLoop == Spec => []JumpsStayInFunction
<1>1. ControlInv => JumpsStayInFunction
  <2>. SUFFICES ASSUME ControlInv, thrown \in {"break", "continue"}
                PROVE  \E i \in DOMAIN control :
                         /\ Handles(control[i], thrown)
                         /\ \A j \in 1 .. i : ~IsCall(control[j])
    BY DEF JumpsStayInFunction
  <2>1. DOMAIN control = 1 .. Len(control)
    BY DEF ControlInv, ControlOK, IsSeq
  <2>2. PICK j \in 1 .. Len(control) :
          InLoopBody(control[j]) /\ \A l \in 1 .. j : ~IsCall(control[l])
    BY DEF ControlInv, LoopBelow
  <2>3. Handles(control[j], thrown)
    BY <2>2 DEF InLoopBody, Handles
  <2>. QED
    BY <2>1, <2>2, <2>3
<1>. QED
  BY <1>1, ControlInvariant, PTL

\* Every call in progress has its frame, whichever way statements, loops and
\* callees are left: a caller finds its own variables again.
THEOREM FramesFollowCalls == Spec => []FramesMatchCalls
<1>1. ControlInv => FramesMatchCalls
  BY DEF ControlInv, Calls, FramesMatchCalls
<1>. QED
  BY <1>1, ControlInvariant, PTL

\* The state of the interpreter has its type: an expression has an address only
\* if it has a value, and blocks are where malloc places them.
THEOREM TypeCorrect == Spec => []TypeOK
<1>1. HeapInv /\ ControlInv => TypeOK
  <2>. SUFFICES ASSUME HeapInv, ControlInv PROVE TypeOK
    OBVIOUS
  <2>1. /\ mStack # << >>
        /\ \A i \in DOMAIN mStack : DOMAIN mStack[i].mPtrs \subseteq DOMAIN mStack[i].mExprs
    BY DEF ControlInv, StackOK, IsSeq, IsFrame
  <2>. QED
    BY <2>1 DEF TypeOK, EnvTypeOK, HeapInv, ControlInv, Exceptions
<1>. QED
  BY <1>1, HeapInvariant, ControlInvariant, PTL
=============================================================================
