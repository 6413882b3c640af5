---------------------------- MODULE PointToInfo ----------------------------
(***************************************************************************)
(* The dataflow value of Assignment3/src/PointToAnalysis.h and what each   *)
(* instruction handler of PointToVisitor does to it.                       *)
(*                                                                         *)
(* A PointToInfo is a record of two maps from values to sets of values:    *)
(* pts (pointToSet) for SSA values, alias (aliasSet) for what the memory a *)
(* value stands for holds.  The maps are partial: operator[] creates an    *)
(* empty entry for a key that is only read, and operator== tells such maps *)
(* apart, so the entries are kept.                                         *)
(*                                                                         *)
(* A module is a record p (see PointerProgram); the operators below need   *)
(* p.order, its functions, and p.intrinsic, the llvm.* ones among them.    *)
(***************************************************************************)
EXTENDS IR, Integers, Sequences, FiniteSets

\* The null Value * (the operand of "ret void").
nullptr == "nullptr"

-----------------------------------------------------------------------------

EmptyMap == [k \in {} |-> {}]
EmptyInfo == [pts |-> EmptyMap, alias |-> EmptyMap]

At(m, k) == IF k \in DOMAIN m THEN m[k] ELSE {}

\* operator+= of ValueMapSets
Plus(m1, m2) == [k \in DOMAIN m1 \cup DOMAIN m2 |-> At(m1, k) \cup At(m2, k)]

extend(info1, info2) == [pts   |-> Plus(info1.pts, info2.pts),
                         alias |-> Plus(info1.alias, info2.alias)]

\* What PointToInfo::pointTo leaves behind for each key it is asked for: an
\* entry, and for a function the function itself in it.
Asked(p, info, keys) ==
  [info EXCEPT !.pts = Plus(@, [k \in keys \ {nullptr} |-> {k} \cap Funcs(p)])]

\* The set PointToInfo::pointTo returns.
pointTo(p, info, key) == At(Asked(p, info, {key}).pts, key)

\* PointToInfo::alias: its result, and the entries it leaves behind.
alias(info, keys) == UNION {At(info.alias, k) : k \in keys}
AliasAsked(info, keys) ==
  [info EXCEPT !.alias = Plus(@, [k \in keys |-> {}])]

\* The keys are given the set vals, whatever they had.
Set(map, keys, vals) ==
  [k \in DOMAIN map \cup keys |-> IF k \in keys THEN vals ELSE map[k]]

SetPointTo(info, key, vals) == [info EXCEPT !.pts = Set(@, {key}, vals)]

\* Mutant: a strong update whatever the number of keys.
ClearAll(p, info, keys) == [info EXCEPT !.alias = Set(@, keys \ Funcs(p), {})]

\* A single key is cleared (a strong update), several are left as they are.
aliasClear(p, info, keys) ==
  IF Cardinality(keys) = 1
  THEN [info EXCEPT !.alias = Set(@, keys \ Funcs(p), {})]
  ELSE info

\* Mutant: no strong update at all.
OnlyExtend(p, info, keys, vals) ==
  [info EXCEPT !.alias = Plus(@, [k \in keys |-> vals])]

aliasExtend(p, info, keys, vals) ==
  [aliasClear(p, info, keys) EXCEPT !.alias = Plus(@, [k \in keys |-> vals])]

-----------------------------------------------------------------------------
(***************************************************************************)
(* The handlers of the instructions that do not leave the function.        *)
(***************************************************************************)

handleAllocaInst(p, inst, info) == SetPointTo(info, inst.id, {inst.id})

handleLoadInst(p, inst, info) ==
  LET ptrs == pointTo(p, info, inst.ptr)
      seen == AliasAsked(Asked(p, info, {inst.ptr}), ptrs)
  IN  SetPointTo(seen, inst.id, alias(info, ptrs))

handleStoreInst(p, inst, info) ==
  aliasExtend(p, Asked(p, info, {inst.ptr, inst.val}),
              pointTo(p, info, inst.ptr), pointTo(p, info, inst.val))

\* dst and src are the operands of the two bitcasts; without them nothing is done.
handleMemCpyInst(p, inst, info) ==
  IF ~inst.cast THEN info
  ELSE LET srcs == pointTo(p, info, inst.src)
           seen == AliasAsked(Asked(p, info, {inst.dst, inst.src}), srcs)
       IN  aliasExtend(p, seen, pointTo(p, info, inst.dst), alias(info, srcs))

handleMemSetInst(p, inst, info) ==
  IF ~inst.cast THEN info
  ELSE aliasClear(p, Asked(p, info, {inst.dst}), pointTo(p, info, inst.dst))

\* The set of the phi node is cleared before its incoming values are looked up.
handlePHINode(p, inst, info) ==
  LET seen == Asked(p, SetPointTo(info, inst.id, {}), Range(inst.in))
  IN  SetPointTo(seen, inst.id, UNION {seen.pts[v] : v \in Range(inst.in)})

\* handleGetElementPtrInst and handleBitCastInst are the same code.
handleGetElementPtrInst(p, inst, info) ==
  SetPointTo(Asked(p, info, {inst.ptr}), inst.id, pointTo(p, info, inst.ptr))

handleBitCastInst(p, inst, info) ==
  SetPointTo(Asked(p, info, {inst.ptr}), inst.id, pointTo(p, info, inst.ptr))

\* The dispatch of PointToVisitor::compDFVal, calls and returns excepted.
Handled(p, inst, info) ==
  CASE inst.op = "alloca"  -> handleAllocaInst(p, inst, info)
    [] inst.op = "load"    -> handleLoadInst(p, inst, info)
    [] inst.op = "store"   -> handleStoreInst(p, inst, info)
    [] inst.op = "memcpy"  -> handleMemCpyInst(p, inst, info)
    [] inst.op = "memset"  -> handleMemSetInst(p, inst, info)
    [] inst.op = "phi"     -> handlePHINode(p, inst, info)
    [] inst.op = "gep"     -> handleGetElementPtrInst(p, inst, info)
    [] inst.op = "bitcast" -> handleBitCastInst(p, inst, info)
    [] OTHER               -> info
=============================================================================
