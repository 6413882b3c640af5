------------------------ MODULE FlowInsensitiveProofs ------------------------
(***************************************************************************)
(* What the proofs about both passes need of the flow-insensitive          *)
(* reference: there are finitely many facts about a module, so that its    *)
(* solution is defined and holds whatever it implies.                      *)
(***************************************************************************)
EXTENDS FlowInsensitive, ProofLemmas

\* A module is finite.
FiniteModule(p) ==
  /\ IsFiniteSet(Funcs(p))
  /\ \A f \in Funcs(p) : IsFiniteSet(Range(p.args[f])) /\ IsFiniteSet(InstsOf(p, f))
  /\ \A inst \in Insts(p) : /\ inst.op = "call" => IsFiniteSet(Range(inst.args))
                            /\ inst.op = "phi" => IsFiniteSet(Range(inst.in))

-----------------------------------------------------------------------------
(***************************************************************************)
(* Finite sets.                                                            *)
(***************************************************************************)

LEMMA FiniteRange ==
  ASSUME NEW s, s \in Seq(Range(s))
  PROVE  IsFiniteSet(Range(s))
<1>1. DOMAIN s = 1 .. Len(s) /\ Len(s) \in Nat
  OBVIOUS
<1>2. s \in Surjection(DOMAIN s, Range(s))
  BY DEF Surjection, Range
<1>3. IsFiniteSet(DOMAIN s)
  BY <1>1, FS_Interval
<1>. QED
  BY <1>2, <1>3, FS_Surjection

LEMMA FiniteUnion ==
  ASSUME NEW f, IsFiniteSet(DOMAIN f), \A x \in DOMAIN f : IsFiniteSet(f[x])
  PROVE  IsFiniteSet(UNION {f[x] : x \in DOMAIN f})
<1>. DEFINE g == [x \in DOMAIN f |-> f[x]]
            T == {f[x] : x \in DOMAIN f}
<1>1. g \in Surjection(DOMAIN f, T)
  BY DEF Surjection
<1>2. \A U \in T : IsFiniteSet(U)
  OBVIOUS
<1>. HIDE DEF g, T
<1>3. IsFiniteSet(T)
  BY <1>1, FS_Surjection
<1>. QED
  BY <1>2, <1>3, FS_UNION DEF T

LEMMA PairFinite ==
  ASSUME NEW x, NEW y
  PROVE  IsFiniteSet({x, y})
<1>1. IsFiniteSet({x})
  BY FS_Singleton
<1>2. IsFiniteSet({x} \cup {y})
  BY <1>1, FS_AddElement
<1>3. {x} \cup {y} = {x, y}
  OBVIOUS
<1>. QED
  BY <1>2, <1>3

LEMMA InstsFinite ==
  ASSUME NEW p, FiniteModule(p)
  PROVE  IsFiniteSet(Insts(p))
<1>. DEFINE h == [f \in Funcs(p) |-> InstsOf(p, f)]
<1>1. DOMAIN h = Funcs(p) /\ \A f \in Funcs(p) : h[f] = InstsOf(p, f)
  OBVIOUS
<1>2. Insts(p) = UNION {h[f] : f \in DOMAIN h}
  BY DEF Insts
<1>. HIDE DEF h
<1>. QED
  BY <1>1, <1>2, FiniteUnion DEF FiniteModule

LEMMA FactsFinite ==
  ASSUME NEW p, FiniteModule(p)
  PROVE  IsFiniteSet(Facts(p))
<1>1. ASSUME NEW f \in Funcs(p)
      PROVE  IsFiniteSet({f} \cup Range(p.args[f]))
  <2>1. IsFiniteSet(Range(p.args[f]))
    BY DEF FiniteModule
  <2>. QED
    BY <2>1, FS_Singleton, FS_Union
<1>2. ASSUME NEW i \in Insts(p)
      PROVE  IsFiniteSet(Mentioned(i))
  <2>1. \A x, y : IsFiniteSet({x}) /\ IsFiniteSet({x, y}) /\ IsFiniteSet({})
    BY PairFinite, FS_Singleton, FS_EmptySet
  <2>2. CASE i.op = "call"
    <3>1. IsFiniteSet(Range(i.args))
      BY <2>2 DEF FiniteModule
    <3>2. IsFiniteSet({i.id, i.callee} \cup Range(i.args))
      BY <2>1, <3>1, FS_Union
    <3>3. Mentioned(i) = {i.id, i.callee} \cup Range(i.args)
      BY <2>2 DEF Mentioned
    <3>. QED
      BY <3>2, <3>3
  <2>3. CASE i.op = "phi"
    <3>1. IsFiniteSet(Range(i.in))
      BY <2>3 DEF FiniteModule
    <3>2. IsFiniteSet({i.id} \cup Range(i.in))
      BY <2>1, <3>1, FS_Union
    <3>3. Mentioned(i) = {i.id} \cup Range(i.in)
      BY <2>3 DEF Mentioned
    <3>. QED
      BY <3>2, <3>3
  <2>4. CASE i.op \notin {"call", "phi"}
    BY <2>1, <2>4 DEF Mentioned
  <2>. QED
    BY <2>2, <2>3, <2>4
<1>. DEFINE g == [f \in Funcs(p) |-> {f} \cup Range(p.args[f])]
            h == [i \in Insts(p) |-> Mentioned(i)]
            A == UNION {g[f] : f \in DOMAIN g}
            B == UNION {h[i] : i \in DOMAIN h}
<1>3. Names(p) = A \cup B
  BY DEF Names
<1>4. /\ DOMAIN g = Funcs(p) /\ \A f \in Funcs(p) : IsFiniteSet(g[f])
      /\ DOMAIN h = Insts(p) /\ \A i \in Insts(p) : IsFiniteSet(h[i])
  BY <1>1, <1>2
<1>. HIDE DEF g, h
<1>5. IsFiniteSet(Names(p))
  <2>1. IsFiniteSet(A)
    BY <1>4, FiniteUnion DEF FiniteModule
  <2>2. IsFiniteSet(B)
    BY <1>4, InstsFinite, FiniteUnion
  <2>. HIDE DEF A, B
  <2>. QED
    BY <1>3, <2>1, <2>2, FS_Union
<1>6. IsFiniteSet({"pts", "alias"})
  BY PairFinite
<1>. QED
  BY <1>5, <1>6, FS_Product DEF Facts

LEMMA HeldIs ==
  ASSUME NEW facts, NEW set, NEW x, <<set, x>> \in facts
  PROVE  x \in Held(facts, set)
<1>1. <<set, x>>[1] = set /\ <<set, x>>[2] = x
  OBVIOUS
<1>. QED
  BY <1>1 DEF Held

LEMMA HeldNames ==
  ASSUME NEW p, NEW facts \in SUBSET Facts(p), NEW set
  PROVE  Held(facts, set) \subseteq Names(p)
BY DEF Held, Facts

LEMMA InstNames ==
  ASSUME NEW p, NEW i \in Insts(p)
  PROVE  Mentioned(i) \subseteq Names(p)
BY DEF Names

LEMMA FuncNames ==
  ASSUME NEW p, NEW f \in Funcs(p)
  PROVE  f \in Names(p) /\ Range(p.args[f]) \subseteq Names(p)
BY DEF Names

\* A set that another flows into is one of the module.
LEMMA FlowShape ==
  ASSUME NEW p, NEW facts \in SUBSET Facts(p), NEW i \in Insts(p),
         NEW flow \in Flow(p, facts, i)
  PROVE  flow[2] \in {"pts", "alias"} \X Names(p)
<1>. DEFINE N == Names(p)
            Sets == {"pts", "alias"} \X N
<1>1. \A x \in N : Pts(x) \in Sets /\ Cell(x) \in Sets
  BY DEF Pts, Cell
<1>2. \A set : Held(facts, set) \subseteq N
  BY HeldNames
<1>3. Mentioned(i) \subseteq N
  BY InstNames
<1>. HIDE DEF N, Sets
<1>4. CASE i.op \in {"load", "phi", "gep", "bitcast"}
  <2>1. i.id \in N
    BY <1>3, <1>4 DEF Mentioned
  <2>2. flow[2] = Pts(i.id)
    BY <1>4 DEF Flow
  <2>. QED
    BY <1>1, <2>1, <2>2 DEF Sets, N
<1>5. CASE i.op = "store"
  <2>1. \E o \in Held(facts, Pts(i.ptr)) : flow[2] = Cell(o)
    BY <1>5 DEF Flow
  <2>. QED
    BY <1>1, <1>2, <2>1 DEF Sets, N
<1>6. CASE i.op = "memcpy"
  <2>1. \E o \in Held(facts, Pts(i.dst)) : flow[2] = Cell(o)
    BY <1>6 DEF Flow
  <2>. QED
    BY <1>1, <1>2, <2>1 DEF Sets, N
<1>7. CASE i.op = "call"
  <2>1. PICK f \in Reached(p, facts, i) : flow \in Through(p, i, f)
    BY <1>7 DEF Flow
  <2>2. f \in Funcs(p)
    BY DEF Reached
  <2>3. i.id \in N /\ Range(p.args[f]) \subseteq N
    BY <1>3, <1>7, <2>2, FuncNames DEF Mentioned, N
  <2>4. \/ \E k \in DOMAIN p.args[f] : flow[2] = Pts(p.args[f][k])
        \/ flow[2] = Pts(i.id)
    BY <2>1 DEF Through
  <2>5. flow[2] \in Sets
    BY <1>1, <2>3, <2>4 DEF Range
  <2>. QED
    BY <2>5 DEF Sets, N
<1>8. CASE i.op \notin {"load", "phi", "gep", "bitcast", "store", "memcpy", "call"}
  BY <1>8 DEF Flow
<1>. QED
  BY <1>4, <1>5, <1>6, <1>7, <1>8

LEMMA ImpliedType ==
  ASSUME NEW p, NEW facts \in SUBSET Facts(p)
  PROVE  Implied(p, facts) \in SUBSET Facts(p)
<1>1. ASSUME NEW o \in Objects(p, facts)
      PROVE  <<Pts(o), o>> \in Facts(p)
  <2>1. o \in Names(p)
    <3>1. CASE o \in Funcs(p)
      BY <3>1, FuncNames
    <3>2. CASE o \notin Funcs(p)
      <4>1. PICK i \in Insts(p) : Makes(p, facts, i) /\ o = i.id
        BY <3>2 DEF Objects
      <4>2. o \in Mentioned(i)
        BY <4>1 DEF Makes, Mentioned
      <4>. QED
        BY <4>2, InstNames
    <3>. QED
      BY <3>1, <3>2
  <2>. QED
    BY <2>1 DEF Facts, Pts
<1>2. ASSUME NEW i \in Insts(p), NEW flow \in Flow(p, facts, i), NEW x \in Held(facts, flow[1])
      PROVE  <<flow[2], x>> \in Facts(p)
  <2>1. flow[2] \in {"pts", "alias"} \X Names(p)
    BY FlowShape
  <2>2. x \in Names(p)
    BY HeldNames
  <2>. QED
    BY <2>1, <2>2 DEF Facts
<1>3. Implied(p, facts) =
        {<<Pts(o), o>> : o \in Objects(p, facts)} \cup
        UNION {UNION {{flow[2]} \X Held(facts, flow[1]) : flow \in Flow(p, facts, i)}
                 : i \in Insts(p)}
  BY DEF Implied
<1>. QED
  BY <1>1, <1>2, <1>3

\* A set of facts that holds whatever it implies.
Solves(p, facts) == Implied(p, facts) \subseteq facts

\* The solution of a module is one.
LEMMA SolutionHolds ==
  ASSUME NEW p, FiniteModule(p)
  PROVE  Solves(p, Solution(p))
<1>. DEFINE P == Facts(p)
            More(S) == Implied(p, S)
            more == [S \in SUBSET P |-> More(S)]
            Eq(g) == g = [S \in SUBSET P |-> IF More(S) \subseteq S THEN S
                                             ELSE g[S \cup More(S)]]
            Closure == CHOOSE g : Eq(g)
<1>1. Solution(p) = Closure[{}]
  BY Zenon DEF Solution
<1>2. \A S \in SUBSET P : More(S) \in SUBSET P
  BY ImpliedType
<1>3. IsFiniteSet(P)
  BY FactsFinite
<1>. HIDE DEF P, More
<1>4. more \in [SUBSET P -> SUBSET P] /\ \A S \in SUBSET P : more[S] = More(S)
  BY <1>2
<1>. HIDE DEF more
<1>5. \A g : Grows(g, P, more) <=> Eq(g)
  <2>1. ASSUME NEW g
        PROVE  [S \in SUBSET P |-> IF more[S] \subseteq S THEN S ELSE g[S \cup more[S]]]
                 = [S \in SUBSET P |-> IF More(S) \subseteq S THEN S ELSE g[S \cup More(S)]]
    BY <1>4
  <2>. QED
    BY <2>1 DEF Grows
<1>. HIDE DEF Eq
<1>6. Eq(Closure)
  BY <1>3, <1>4, <1>5, GrowthDefined
<1>. HIDE DEF Closure
<1>7. {} \in SUBSET P
  OBVIOUS
<1>8. LeastClosed(Closure[{}], {}, P, more)
  BY <1>3, <1>4, <1>5, <1>6, <1>7, GrowthLeast
<1>9. More(Closure[{}]) \subseteq Closure[{}]
  BY <1>4, <1>8 DEF LeastClosed
<1>. QED
  BY <1>1, <1>9 DEF More, Solves

LEMMA ObjectHeld ==
  ASSUME NEW p, NEW facts, Solves(p, facts), NEW o \in Objects(p, facts)
  PROVE  o \in Held(facts, Pts(o))
<1>1. <<Pts(o), o>> \in facts
  BY DEF Solves, Implied
<1>. QED
  BY <1>1, HeldIs

LEMMA FlowHeld ==
  ASSUME NEW p, NEW facts, Solves(p, facts), NEW i \in Insts(p),
         NEW from, NEW to, <<from, to>> \in Flow(p, facts, i)
  PROVE  Held(facts, from) \subseteq Held(facts, to)
<1>1. ASSUME NEW x \in Held(facts, from)
      PROVE  x \in Held(facts, to)
  <2>1. PICK flow \in UNION {Flow(p, facts, inst) : inst \in Insts(p)} :
          flow[1] = from /\ flow[2] = to
    <3>1. <<from, to>>[1] = from /\ <<from, to>>[2] = to
      OBVIOUS
    <3>. QED
      BY <3>1
  <2>2. <<to, x>> \in {flow[2]} \X Held(facts, flow[1])
    BY <2>1
  <2>3. <<to, x>> \in facts
    BY <2>2 DEF Solves, Implied
  <2>. QED
    BY <2>3, HeldIs
<1>. QED
  BY <1>1
=============================================================================
