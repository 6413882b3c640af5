---------------------------- MODULE ProofLemmas ----------------------------
(***************************************************************************)
(* What the proofs of several modules need of sequences, sets, induction   *)
(* and recursion.                                                          *)
(***************************************************************************)
EXTENDS Integers, SequencesExt, SequenceTheorems, FiniteSetTheorems, TLAPS

-----------------------------------------------------------------------------
(***************************************************************************)
(* Induction and recursion over the natural numbers and over the subsets   *)
(* of a finite set, stated with sets and functions for the predicates and  *)
(* the steps, as the provers can use them.                                 *)
(***************************************************************************)

LEMMA NatSetInduction ==
  ASSUME NEW H, 0 \in H, \A n \in Nat : n \in H => n + 1 \in H
  PROVE  Nat \subseteq H
<1>. DEFINE Bad == Nat \ H
            R == {e \in Nat \X Nat : e[1] < e[2]}
<1>1. IsWellFoundedOn(R, Nat)
  BY NatLessThanWellFounded DEF OpToRel
<1>2. Bad \subseteq Nat
  OBVIOUS
<1>3. ASSUME NEW n \in Bad PROVE \E m \in Bad : <<m, n>> \in R
  <2>1. n \in Nat /\ n # 0
    OBVIOUS
  <2>2. n - 1 \in Nat /\ n - 1 + 1 = n
    BY <2>1
  <2>3. n - 1 \in Bad
    BY <2>2
  <2>. QED
    BY <2>1, <2>2, <2>3
<1>. HIDE DEF Bad, R
<1>4. Bad = {}
  BY <1>1, <1>2, <1>3, WFMin
<1>. QED
  BY <1>4 DEF Bad

\* A statement that holds at the end of an interval and goes down it holds at
\* its beginning.
LEMMA DownwardInduction ==
  ASSUME NEW n \in Nat, NEW H, n + 1 \in H, \A i \in 1 .. n : i + 1 \in H => i \in H
  PROVE  1 .. n + 1 \subseteq H
<1>. DEFINE Down == {k \in Nat : k <= n => n + 1 - k \in H}
<1>1. 0 \in Down
  OBVIOUS
<1>2. ASSUME NEW k \in Nat, k \in Down PROVE k + 1 \in Down
  <2>. SUFFICES ASSUME k + 1 <= n PROVE n + 1 - (k + 1) \in H
    OBVIOUS
  <2>1. n + 1 - k \in H
    BY <1>2
  <2>2. /\ n + 1 - (k + 1) \in 1 .. n
        /\ n + 1 - (k + 1) + 1 = n + 1 - k
    OBVIOUS
  <2>. QED
    BY <2>1, <2>2
<1>3. Nat \subseteq Down
  <2>. HIDE DEF Down
  <2>. QED
    BY <1>1, <1>2, NatSetInduction
<1>4. ASSUME NEW i \in 1 .. n + 1 PROVE i \in H
  <2>1. n + 1 - i \in Nat /\ n + 1 - i <= n /\ n + 1 - (n + 1 - i) = i
    OBVIOUS
  <2>. QED
    BY <1>3, <2>1
<1>. QED
  BY <1>4

LEMMA SubsetInduction ==
  ASSUME NEW S, IsFiniteSet(S), NEW H,
         \A T \in SUBSET S : (\A U \in SUBSET T : U # T => U \in H) => T \in H
  PROVE  SUBSET S \subseteq H
<1>. DEFINE P == SUBSET S
            Bad == P \ H
            R == StrictSubsetOrdering(S)
<1>1. IsWellFoundedOn(R, P)
  BY FS_StrictSubsetOrderingWellFounded, FS_FiniteSubsetsOfFinite
<1>2. Bad \subseteq P
  OBVIOUS
<1>3. ASSUME NEW T \in Bad PROVE \E U \in Bad : <<U, T>> \in R
  <2>1. PICK U \in SUBSET T : U # T /\ U \notin H
    OBVIOUS
  <2>. QED
    BY <2>1 DEF StrictSubsetOrdering
<1>. HIDE DEF Bad, R, P
<1>4. Bad # {} => \E T \in Bad : \A U \in Bad : ~ (<<U, T>> \in R)
  BY ONLY <1>1, <1>2, WFMin
<1>5. Bad = {}
  BY <1>3, <1>4
<1>. QED
  BY <1>5 DEF Bad, P

\* A non-empty set of natural numbers has a least element.
LEMMA LeastNatural ==
  ASSUME NEW T, T \subseteq Nat, T # {}
  PROVE  \E m \in T : \A k \in T : m <= k
<1>. DEFINE R == {e \in Nat \X Nat : e[1] < e[2]}
<1>1. IsWellFoundedOn(R, Nat)
  BY NatLessThanWellFounded DEF OpToRel
<1>2. PICK m \in T : \A k \in T : ~ (<<k, m>> \in R)
  <2>. HIDE DEF R
  <2>. QED
    BY <1>1, WFMin
<1>3. ASSUME NEW k \in T PROVE m <= k
  <2>1. m \in Nat /\ k \in Nat
    OBVIOUS
  <2>2. ~ (k < m)
    BY <1>2, <2>1
  <2>. QED
    BY <2>1, <2>2
<1>. QED
  BY <1>3

\* Among subsets of a finite set there is one that has no other within it.
LEMMA SmallestSubset ==
  ASSUME NEW S, IsFiniteSet(S), NEW C, C \subseteq SUBSET S, C # {}
  PROVE  \E T \in C : \A U \in C : ~ (U \subseteq T /\ U # T)
<1>. DEFINE P == SUBSET S
            R == StrictSubsetOrdering(S)
<1>1. IsWellFoundedOn(R, P)
  BY FS_StrictSubsetOrderingWellFounded, FS_FiniteSubsetsOfFinite
<1>2. C \subseteq P
  OBVIOUS
<1>. HIDE DEF R, P
<1>3. PICK T \in C : \A U \in C : ~ (<<U, T>> \in R)
  BY ONLY <1>1, <1>2, C # {}, WFMin
<1>. QED
  BY <1>3 DEF StrictSubsetOrdering, R

-----------------------------------------------------------------------------
(***************************************************************************)
(* Recursion over the subsets of a finite set: f is base[T] on a set T of  *)
(* Done, and step[T] of its value on rest[T], a smaller set, on any other  *)
(* set T.  TLA+ takes a function that satisfies the equation if there is   *)
(* one.                                                                    *)
(***************************************************************************)

Recurs(S, Done, base, rest, step, g, D) ==
  /\ D \subseteq SUBSET S
  /\ \A T \in D : /\ T \in Done => g[T] = base[T]
                  /\ T \notin Done => rest[T] \in D /\ g[T] = step[T][g[rest[T]]]

LEMMA RecursionUnique ==
  ASSUME NEW S, IsFiniteSet(S), NEW Done, NEW base, NEW rest, NEW step,
         \A T \in SUBSET S : T \notin Done => rest[T] \in SUBSET T /\ rest[T] # T,
         NEW g, NEW D, Recurs(S, Done, base, rest, step, g, D),
         NEW h, NEW E, Recurs(S, Done, base, rest, step, h, E),
         NEW T \in D \cap E
  PROVE  g[T] = h[T]
<1>. DEFINE H == {U \in SUBSET S : U \in D \cap E => g[U] = h[U]}
<1>1. ASSUME NEW U \in SUBSET S, \A W \in SUBSET U : W # U => W \in H
      PROVE  U \in H
  <2>. SUFFICES ASSUME U \in D, U \in E PROVE g[U] = h[U]
    OBVIOUS
  <2>1. CASE U \in Done
    BY <2>1 DEF Recurs
  <2>2. CASE U \notin Done
    <3>1. rest[U] \in SUBSET U /\ rest[U] # U
      BY <2>2
    <3>2. rest[U] \in H
      BY <1>1, <3>1
    <3>3. rest[U] \in D /\ g[U] = step[U][g[rest[U]]]
      BY <2>2 DEF Recurs
    <3>4. rest[U] \in E /\ h[U] = step[U][h[rest[U]]]
      BY <2>2 DEF Recurs
    <3>5. g[rest[U]] = h[rest[U]]
      BY <3>2, <3>3, <3>4
    <3>. QED
      BY <3>3, <3>4, <3>5
  <2>. QED
    BY <2>1, <2>2
<1>2. SUBSET S \subseteq H
  <2>. HIDE DEF H
  <2>. QED
    BY <1>1, SubsetInduction
<1>3. T \in SUBSET S
  BY DEF Recurs
<1>. QED
  BY <1>2, <1>3

LEMMA RecursionOnASet ==
  ASSUME NEW S, IsFiniteSet(S), NEW Done, NEW base, NEW rest, NEW step,
         \A T \in SUBSET S : T \notin Done => rest[T] \in SUBSET T /\ rest[T] # T
  PROVE  \A T \in SUBSET S :
           \E D : \E g : T \in D /\ Recurs(S, Done, base, rest, step, g, D)
<1>. DEFINE R(g, D) == Recurs(S, Done, base, rest, step, g, D)
            H == {T \in SUBSET S : \E D : \E g : T \in D /\ R(g, D)}
<1>1. ASSUME NEW T \in SUBSET S, \A U \in SUBSET T : U # T => U \in H
      PROVE  \E D : \E g : T \in D /\ R(g, D)
  <2>1. CASE T \in Done
    <3>. DEFINE g == [U \in {T} |-> base[T]]
    <3>1. R(g, {T})
      BY <2>1 DEF Recurs
    <3>. QED
      BY <3>1
  <2>2. CASE T \notin Done
    <3>1. rest[T] \in H
      BY <1>1, <2>2
    <3>2. PICK D : \E g : rest[T] \in D /\ R(g, D)
      BY <3>1
    <3>3. PICK g : rest[T] \in D /\ R(g, D)
      BY <3>2
    <3>4. CASE T \in D
      BY <3>3, <3>4
    <3>5. CASE T \notin D
      <4>. DEFINE E == D \cup {T}
                  h == [U \in E |-> IF U = T THEN step[T][g[rest[T]]] ELSE g[U]]
      <4>1. \A U \in D : h[U] = g[U]
        BY <3>5
      <4>2. h[T] = step[T][g[rest[T]]] /\ h[rest[T]] = g[rest[T]]
        BY <3>3, <4>1
      <4>. HIDE DEF h
      <4>3. ASSUME NEW U \in E
            PROVE  /\ U \in Done => h[U] = base[U]
                   /\ U \notin Done => rest[U] \in E /\ h[U] = step[U][h[rest[U]]]
        <5>1. CASE U \in D
          BY <3>3, <4>1, <5>1 DEF Recurs
        <5>2. CASE U = T
          BY <2>2, <3>3, <4>2, <5>2
        <5>. QED
          BY <5>1, <5>2
      <4>4. R(h, E)
        BY <3>3, <4>3 DEF Recurs
      <4>. QED
        BY <4>4
    <3>. QED
      BY <3>4, <3>5
  <2>. QED
    BY <2>1, <2>2
<1>2. SUBSET S \subseteq H
  <2>1. \A T \in SUBSET S : (\A U \in SUBSET T : U # T => U \in H) => T \in H
    BY <1>1
  <2>. HIDE DEF H
  <2>. QED
    BY <2>1, SubsetInduction
<1>. QED
  BY <1>2

\* What defines such an f with values in V.
Recursion(S, Done, base, rest, step, V) ==
  /\ IsFiniteSet(S)
  /\ \A T \in SUBSET S :
       /\ T \in Done => base[T] \in V
       /\ T \notin Done => /\ rest[T] \in SUBSET T /\ rest[T] # T
                          /\ step[T] \in [V -> V]

SolvesRecursion(f, S, Done, base, rest, step, V) ==
  /\ f \in [SUBSET S -> V]
  /\ \A T \in SUBSET S : f[T] = IF T \in Done THEN base[T] ELSE step[T][f[rest[T]]]

LEMMA SubsetRecursion ==
  ASSUME NEW S, NEW Done, NEW base, NEW rest, NEW step, NEW V,
         Recursion(S, Done, base, rest, step, V)
  PROVE  \E f : SolvesRecursion(f, S, Done, base, rest, step, V)
<1>. USE DEF Recursion
<1>. DEFINE R(g, D) == Recurs(S, Done, base, rest, step, g, D)
            dom == [T \in SUBSET S |-> CHOOSE D : \E g : T \in D /\ R(g, D)]
            fun == [T \in SUBSET S |-> CHOOSE g : T \in dom[T] /\ R(g, dom[T])]
            f == [T \in SUBSET S |-> fun[T][T]]
<1>1. ASSUME NEW T \in SUBSET S
      PROVE  T \in dom[T] /\ R(fun[T], dom[T])
  <2>1. \E D : \E g : T \in D /\ R(g, D)
    BY RecursionOnASet
  <2>. HIDE DEF R
  <2>2. \E g : T \in dom[T] /\ R(g, dom[T])
    BY <2>1
  <2>. HIDE DEF dom
  <2>. QED
    BY <2>2
<1>. HIDE DEF dom, fun
<1>2. ASSUME NEW T \in SUBSET S
      PROVE  f[T] = IF T \in Done THEN base[T] ELSE step[T][f[rest[T]]]
  <2>1. CASE T \in Done
    BY <1>1, <2>1 DEF Recurs
  <2>2. CASE T \notin Done
    <3>1. rest[T] \in SUBSET S
      BY <2>2
    <3>2. rest[T] \in dom[T] /\ fun[T][T] = step[T][fun[T][rest[T]]]
      BY <1>1, <2>2 DEF Recurs
    <3>3. rest[T] \in dom[rest[T]] /\ R(fun[rest[T]], dom[rest[T]])
      BY <1>1, <3>1
    <3>4. R(fun[T], dom[T])
      BY <1>1
    <3>5. fun[T][rest[T]] = fun[rest[T]][rest[T]]
      BY <3>2, <3>3, <3>4, RecursionUnique
    <3>. QED
      BY <2>2, <3>1, <3>2, <3>5
  <2>. QED
    BY <2>1, <2>2
<1>3. f \in [SUBSET S -> V]
  <2>. DEFINE H == {T \in SUBSET S : f[T] \in V}
  <2>. HIDE DEF f
  <2>1. ASSUME NEW T \in SUBSET S, \A U \in SUBSET T : U # T => U \in H
        PROVE  T \in H
    <3>1. CASE T \in Done
      BY <1>2, <3>1
    <3>2. CASE T \notin Done
      <4>1. f[rest[T]] \in V
        BY <2>1, <3>2
      <4>. QED
        BY <1>2, <3>2, <4>1
    <3>. QED
      BY <3>1, <3>2
  <2>2. SUBSET S \subseteq H
    <3>. HIDE DEF H
    <3>. QED
      BY <2>1, SubsetInduction
  <2>. QED
    BY <2>2 DEF f
<1>. HIDE DEF f
<1>. QED
  BY <1>2, <1>3 DEF SolvesRecursion

-----------------------------------------------------------------------------
(***************************************************************************)
(* A set that grows, within a finite set P, by what more gives for it,     *)
(* until it grows no more: g gives the result for each set to start from.  *)
(***************************************************************************)

Grows(g, P, more) ==
  g = [S \in SUBSET P |-> IF more[S] \subseteq S THEN S ELSE g[S \cup more[S]]]

\* The least set around S that holds whatever more gives for it.
LeastClosed(T, S, P, more) ==
  /\ T \in SUBSET P /\ S \subseteq T /\ more[T] \subseteq T
  /\ \A X : S \subseteq X /\ (\A U \in SUBSET P : U \subseteq X => more[U] \subseteq X)
           => T \subseteq X

\* The recursion is one over the elements not yet in the set.
LEMMA GrowthDefined ==
  ASSUME NEW P, IsFiniteSet(P), NEW more \in [SUBSET P -> SUBSET P]
  PROVE  \E g : Grows(g, P, more)
<1>. DEFINE Done == {T \in SUBSET P : more[P \ T] \subseteq P \ T}
            base == [T \in SUBSET P |-> P \ T]
            rest == [T \in SUBSET P |-> T \ more[P \ T]]
            step == [T \in SUBSET P |-> [X \in SUBSET P |-> X]]
<1>1. Recursion(P, Done, base, rest, step, SUBSET P)
  <2>1. ASSUME NEW T \in SUBSET P, T \notin Done
        PROVE  rest[T] \in SUBSET T /\ rest[T] # T
    <3>1. more[P \ T] \in SUBSET P
      OBVIOUS
    <3>. QED
      BY <2>1, <3>1
  <2>. QED
    BY <2>1 DEF Recursion
<1>2. PICK f : SolvesRecursion(f, P, Done, base, rest, step, SUBSET P)
  <2>. HIDE DEF Done, base, rest, step
  <2>. QED
    BY <1>1, SubsetRecursion
<1>. DEFINE g == [S \in SUBSET P |-> f[P \ S]]
<1>3. ASSUME NEW S \in SUBSET P
      PROVE  g[S] = IF more[S] \subseteq S THEN S ELSE g[S \cup more[S]]
  <2>. DEFINE T == P \ S
  <2>1. T \in SUBSET P /\ P \ T = S
    OBVIOUS
  <2>. HIDE DEF T
  <2>2. g[S] = f[T]
    BY DEF T
  <2>3. CASE more[S] \subseteq S
    BY <1>2, <2>1, <2>2, <2>3 DEF SolvesRecursion
  <2>4. CASE ~ (more[S] \subseteq S)
    <3>1. rest[T] = T \ more[S] /\ rest[T] \in SUBSET P
      BY <2>1
    <3>2. f[T] = step[T][f[rest[T]]] /\ f[rest[T]] \in SUBSET P
      BY <1>2, <2>1, <2>4, <3>1 DEF SolvesRecursion
    <3>3. f[T] = f[T \ more[S]]
      BY <2>1, <3>1, <3>2
    <3>4. S \cup more[S] \in SUBSET P
      OBVIOUS
    <3>5. P \ (S \cup more[S]) = T \ more[S]
      BY DEF T
    <3>6. g[S \cup more[S]] = f[T \ more[S]]
      BY <3>4, <3>5
    <3>. QED
      BY <2>2, <2>4, <3>3, <3>6
  <2>. QED
    BY <2>3, <2>4
<1>4. Grows(g, P, more)
  <2>1. g = [S \in SUBSET P |-> g[S]]
    OBVIOUS
  <2>. HIDE DEF g
  <2>. QED
    BY <1>3, <2>1 DEF Grows
<1>. QED
  BY <1>4

LEMMA GrowthLeast ==
  ASSUME NEW P, IsFiniteSet(P), NEW more \in [SUBSET P -> SUBSET P],
         NEW g, Grows(g, P, more), NEW S \in SUBSET P
  PROVE  LeastClosed(g[S], S, P, more)
<1>. DEFINE Closed(X) == \A U \in SUBSET P : U \subseteq X => more[U] \subseteq X
            Good(U) == /\ g[U] \in SUBSET P /\ U \subseteq g[U] /\ more[g[U]] \subseteq g[U]
                       /\ \A X : U \subseteq X /\ Closed(X) => g[U] \subseteq X
            H == {T \in SUBSET P : Good(P \ T)}
<1>1. ASSUME NEW U \in SUBSET P
      PROVE  g[U] = IF more[U] \subseteq U THEN U ELSE g[U \cup more[U]]
  BY DEF Grows
<1>2. ASSUME NEW T \in SUBSET P, \A U \in SUBSET T : U # T => U \in H
      PROVE  Good(P \ T)
  <2>. DEFINE U == P \ T
  <2>1. U \in SUBSET P /\ more[U] \in SUBSET P
    OBVIOUS
  <2>. HIDE DEF U
  <2>2. CASE more[U] \subseteq U
    <3>1. g[U] = U
      BY <1>1, <2>1, <2>2
    <3>. QED
      BY <2>1, <2>2, <3>1 DEF U
  <2>3. CASE ~ (more[U] \subseteq U)
    <3>. DEFINE W == U \cup more[U]
    <3>1. W \in SUBSET P /\ g[U] = g[W] /\ U \subseteq W
      BY <1>1, <2>1, <2>3
    <3>2. Good(W)
      <4>1. P \ W \in SUBSET T /\ P \ W # T /\ P \ (P \ W) = W
        BY <2>1, <2>3 DEF U
      <4>2. P \ W \in H
        BY <1>2, <4>1
      <4>. HIDE DEF W, Good
      <4>. QED
        BY <4>1, <4>2
    <3>3. \A X : U \subseteq X /\ Closed(X) => W \subseteq X
      BY <2>1
    <3>. HIDE DEF W, Closed
    <3>4. Good(U)
      BY <3>1, <3>2, <3>3
    <3>. QED
      BY <3>4 DEF U
  <2>. QED
    BY <2>2, <2>3
<1>3. SUBSET P \subseteq H
  <2>1. \A T \in SUBSET P : (\A U \in SUBSET T : U # T => U \in H) => T \in H
    <3>. HIDE DEF Good
    <3>. QED
      BY <1>2
  <2>. HIDE DEF H
  <2>. QED
    BY <2>1, SubsetInduction
<1>4. P \ S \in SUBSET P /\ P \ (P \ S) = S
  OBVIOUS
<1>5. Good(S)
  <2>. HIDE DEF Good
  <2>. QED
    BY <1>3, <1>4
<1>. QED
  BY <1>5 DEF LeastClosed

-----------------------------------------------------------------------------
(***************************************************************************)
(* Sequences of anything that serve as a stack, the first element on top:  *)
(* what pushing, popping and replacing do to their elements, and to the    *)
(* number of elements of one kind.                                         *)
(***************************************************************************)

IsSeq(s) == \E S : s \in Seq(S)

\* Putting one element in front of a sequence.
LEMMA Pushed ==
  ASSUME NEW s, IsSeq(s), NEW fr
  PROVE  /\ IsSeq(<<fr>> \o s)
         /\ Len(<<fr>> \o s) = Len(s) + 1 /\ Len(s) \in Nat
         /\ (<<fr>> \o s)[1] = fr
         /\ \A i \in 2 .. Len(s) + 1 : (<<fr>> \o s)[i] = s[i - 1]
<1>1. PICK S : s \in Seq(S)
  BY DEF IsSeq
<1>. DEFINE U == S \cup {fr}
            t == <<fr>> \o s
<1>2. <<fr>> \in Seq(U) /\ Len(<<fr>>) = 1 /\ <<fr>>[1] = fr
  OBVIOUS
<1>3. s \in Seq(U) /\ Len(s) \in Nat
  BY <1>1
<1>4. /\ t \in Seq(U) /\ Len(t) = Len(<<fr>>) + Len(s)
      /\ \A i \in 1 .. Len(<<fr>>) + Len(s) :
           t[i] = IF i <= Len(<<fr>>) THEN <<fr>>[i] ELSE s[i - Len(<<fr>>)]
  BY <1>2, <1>3, ConcatProperties
<1>. QED
  BY <1>2, <1>3, <1>4 DEF IsSeq

\* Taking the first element away.
LEMMA Popped ==
  ASSUME NEW s, IsSeq(s), s # << >>
  PROVE  /\ IsSeq(Tail(s))
         /\ Len(Tail(s)) = Len(s) - 1 /\ Len(s) \in Nat \ {0}
         /\ \A i \in 1 .. Len(s) - 1 : Tail(s)[i] = s[i + 1]
<1>1. PICK S : s \in Seq(S)
  BY DEF IsSeq
<1>. QED
  BY <1>1, HeadTailProperties DEF IsSeq

\* Another element in the place of the first, and two in its place.
LEMMA Replaced ==
  ASSUME NEW s, IsSeq(s), s # << >>, NEW fr
  PROVE  /\ IsSeq(<<fr>> \o Tail(s))
         /\ Len(<<fr>> \o Tail(s)) = Len(s) /\ Len(s) \in Nat \ {0}
         /\ (<<fr>> \o Tail(s))[1] = fr
         /\ \A i \in 2 .. Len(s) : (<<fr>> \o Tail(s))[i] = s[i]
<1>. DEFINE r == Tail(s)
<1>1. /\ IsSeq(r) /\ Len(r) = Len(s) - 1 /\ Len(s) \in Nat \ {0}
      /\ \A i \in 1 .. Len(s) - 1 : r[i] = s[i + 1]
  BY Popped
<1>. HIDE DEF r
<1>2. /\ IsSeq(<<fr>> \o r) /\ Len(<<fr>> \o r) = Len(r) + 1
      /\ (<<fr>> \o r)[1] = fr
      /\ \A i \in 2 .. Len(r) + 1 : (<<fr>> \o r)[i] = r[i - 1]
  BY <1>1, Pushed
<1>3. \A i \in 2 .. Len(s) : (<<fr>> \o r)[i] = s[i]
  BY <1>1, <1>2
<1>. QED
  BY <1>1, <1>2, <1>3 DEF r

LEMMA Nested ==
  ASSUME NEW s, IsSeq(s), s # << >>, NEW fr, NEW loop
  PROVE  /\ IsSeq(<<fr, loop>> \o Tail(s))
         /\ Len(<<fr, loop>> \o Tail(s)) = Len(s) + 1 /\ Len(s) \in Nat \ {0}
         /\ (<<fr, loop>> \o Tail(s))[1] = fr
         /\ (<<fr, loop>> \o Tail(s))[2] = loop
         /\ \A i \in 3 .. Len(s) + 1 : (<<fr, loop>> \o Tail(s))[i] = s[i - 1]
<1>1. PICK S : s \in Seq(S)
  BY DEF IsSeq
<1>. DEFINE U == S \cup {fr, loop}
            r == Tail(s)
            h == <<fr, loop>>
            t == h \o r
<1>2. /\ h \in Seq(U) /\ Len(h) = 2 /\ h[1] = fr /\ h[2] = loop
  OBVIOUS
<1>3. s \in Seq(U)
  BY <1>1
<1>4. /\ r \in Seq(U) /\ Len(r) = Len(s) - 1 /\ Len(s) \in Nat \ {0}
      /\ \A i \in 1 .. Len(s) - 1 : r[i] = s[i + 1]
  BY <1>3, HeadTailProperties
<1>. HIDE DEF h, r, U
<1>5. /\ t \in Seq(U) /\ Len(t) = Len(h) + Len(r)
      /\ \A i \in 1 .. Len(h) + Len(r) : t[i] = IF i <= Len(h) THEN h[i] ELSE r[i - Len(h)]
  BY <1>2, <1>4, ConcatProperties
<1>6. IsSeq(t)
  BY <1>5 DEF IsSeq
<1>7. \A i \in 3 .. Len(s) + 1 : t[i] = s[i - 1]
  BY <1>2, <1>4, <1>5
<1>8. Len(t) = Len(s) + 1 /\ t[1] = fr /\ t[2] = loop
  BY <1>2, <1>4, <1>5
<1>. QED
  BY <1>4, <1>6, <1>7, <1>8 DEF h, r

-----------------------------------------------------------------------------

\* A tuple whatever its elements are.
LEMMA Tuple ==
  ASSUME NEW s, Len(s) \in Nat, s = [i \in 1 .. Len(s) |-> s[i]]
  PROVE  IsSeq(s) /\ DOMAIN s = 1 .. Len(s)
<1>. DEFINE S == {s[i] : i \in 1 .. Len(s)}
<1>1. s \in [1 .. Len(s) -> S]
  OBVIOUS
<1>2. s \in Seq(S)
  BY <1>1, SeqDef
<1>. QED
  BY <1>1, <1>2 DEF IsSeq

-----------------------------------------------------------------------------
(***************************************************************************)
(* A stack with its top at the end.                                        *)
(***************************************************************************)

LEMMA Appended ==
  ASSUME NEW s, IsSeq(s), NEW x
  PROVE  /\ IsSeq(Append(s, x))
         /\ Len(Append(s, x)) = Len(s) + 1 /\ Len(s) \in Nat
         /\ \A i \in 1 .. Len(s) : Append(s, x)[i] = s[i]
         /\ Append(s, x)[Len(s) + 1] = x
<1>1. PICK S : s \in Seq(S)
  BY DEF IsSeq
<1>2. s \in Seq(S \cup {x})
  BY <1>1
<1>. QED
  BY <1>2, AppendProperties, LenProperties DEF IsSeq

LEMMA LastReplaced ==
  ASSUME NEW s, IsSeq(s), s # << >>, NEW x
  PROVE  /\ IsSeq([s EXCEPT ![Len(s)] = x])
         /\ Len([s EXCEPT ![Len(s)] = x]) = Len(s) /\ Len(s) \in Nat \ {0}
         /\ \A i \in 1 .. Len(s) :
              [s EXCEPT ![Len(s)] = x][i] = IF i = Len(s) THEN x ELSE s[i]
<1>1. PICK S : s \in Seq(S)
  BY DEF IsSeq
<1>2. s \in Seq(S \cup {x}) /\ Len(s) \in Nat \ {0} /\ Len(s) \in 1 .. Len(s)
  BY <1>1, EmptySeq
<1>. QED
  BY <1>2, ExceptSeq DEF IsSeq

LEMMA FrontTaken ==
  ASSUME NEW s, IsSeq(s), s # << >>
  PROVE  /\ IsSeq(Front(s))
         /\ Len(Front(s)) = Len(s) - 1 /\ Len(s) \in Nat \ {0}
         /\ \A i \in 1 .. Len(s) - 1 : Front(s)[i] = s[i]
<1>1. PICK S : s \in Seq(S)
  BY DEF IsSeq
<1>2. PICK n \in Nat \ {0} : n = Len(s)
  BY <1>1, EmptySeq
<1>3. \A i \in 1 .. n - 1 : s[i] \in S
  BY <1>1, <1>2, ElementOfSeq
<1>. DEFINE f == SubSeq(s, 1, n - 1)
<1>4. /\ f \in Seq(S)
      /\ Len(f) = IF 1 <= n - 1 THEN n - 1 - 1 + 1 ELSE 0
      /\ \A i \in 1 .. n - 1 - 1 + 1 : f[i] = s[1 + i - 1]
  BY <1>2, <1>3, SubSeqProperties
<1>. HIDE DEF f
<1>5. Len(f) = n - 1
  BY <1>4
<1>6. ASSUME NEW i \in 1 .. n - 1
      PROVE  f[i] = s[i]
  <2>1. i \in 1 .. n - 1 - 1 + 1 /\ 1 + i - 1 = i
    OBVIOUS
  <2>2. f[i] = s[1 + i - 1]
    BY <1>4, <2>1
  <2>. QED
    BY <2>1, <2>2
<1>7. IsSeq(f)
  BY <1>4 DEF IsSeq
<1>. QED
  BY <1>2, <1>5, <1>6, <1>7 DEF f, Front

-----------------------------------------------------------------------------

\* The positions of some elements, and of none.
LEMMA Positions ==
  ASSUME NEW n \in Nat, NEW I \in SUBSET (1 .. n)
  PROVE  Cardinality(I) \in Nat /\ (I = {} => Cardinality(I) = 0)
<1>1. IsFiniteSet(1 .. n)
  BY FS_Interval
<1>. QED
  BY <1>1, FS_Subset, FS_CardinalityType, FS_EmptySet

\* The positions of some elements, with one element more in front: J is I
\* moved by one, and perhaps 1.
LEMMA Shifted ==
  ASSUME NEW n \in Nat, NEW I \in SUBSET (1 .. n), NEW J \in SUBSET (1 .. n + 1),
         \A j \in 2 .. n + 1 : j \in J <=> j - 1 \in I
  PROVE  /\ Cardinality(I) \in Nat
         /\ Cardinality(J) = Cardinality(I) + (IF 1 \in J THEN 1 ELSE 0)
<1>. DEFINE K == J \ {1}
            f == [i \in I |-> i + 1]
<1>1. IsFiniteSet(I) /\ IsFiniteSet(K) /\ Cardinality(I) \in Nat
  <2>1. IsFiniteSet(1 .. n) /\ IsFiniteSet(1 .. n + 1)
    BY FS_Interval
  <2>. QED
    BY <2>1, FS_Subset, FS_CardinalityType
<1>2. f \in Bijection(I, K)
  <2>1. f \in [I -> K]
    OBVIOUS
  <2>2. \A i, k \in I : f[i] = f[k] => i = k
    OBVIOUS
  <2>3. \A k \in K : k - 1 \in I /\ f[k - 1] = k
    OBVIOUS
  <2>. QED
    BY <2>1, <2>2, <2>3 DEF Bijection, Surjection, Injection, IsInjective
<1>3. Cardinality(K) = Cardinality(I)
  BY <1>1, <1>2, FS_Bijection DEF ExistsBijection
<1>4. J = IF 1 \in J THEN K \cup {1} ELSE K
  OBVIOUS
<1>5. Cardinality(K \cup {1}) = Cardinality(K) + 1
  BY <1>1, FS_AddElement
<1>. QED
  BY <1>1, <1>3, <1>4, <1>5
=============================================================================
