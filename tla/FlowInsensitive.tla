-------------------------- MODULE FlowInsensitive --------------------------
(***************************************************************************)
(* What a module says about its pointers when the order of instructions    *)
(* and the places functions are called from are ignored: inclusion-based   *)
(* point-to analysis, without fields.  It has one set for each value and   *)
(* one for each object, and every instruction makes one set contain        *)
(* another.  No strong update takes anything out, and the arguments of a   *)
(* function are those of all its calls.  Both passes, which look at the     *)
(* order of instructions and at the calls in progress, are compared with   *)
(* it: they should know more about a module, never claim more.             *)
(***************************************************************************)
EXTENDS IR

\* The two kinds of sets, named as the maps of a PointToInfo: what the value v
\* points to, and what the memory of the object o holds.
Pts(v) == <<"pts", v>>
Cell(o) == <<"alias", o>>

\* A fact <<set, x>> says that x is in the set.
Held(facts, set) == {fact[2] : fact \in {x \in facts : x[1] = set}}

Returns(p, f) == {inst \in InstsOf(p, f) : inst.op = "ret"}

\* The functions that a call may reach.
Reached(p, facts, call) == Held(facts, Pts(call.callee)) \cap Funcs(p)

\* Arguments flow into a function that is called, and its result out of it.
Through(p, call, f) ==
       {<<Pts(call.args[i]), Pts(p.args[f][i])>> : i \in DOMAIN call.args \cap DOMAIN p.args[f]}
  \cup {<<Pts(ret.val), Pts(call.id)>> : ret \in Returns(p, f)}

\* The pairs of sets <<from, to>> such that to contains from because of inst.
Flow(p, facts, inst) ==
  CASE inst.op = "load"    -> {<<Cell(o), Pts(inst.id)>> : o \in Held(facts, Pts(inst.ptr))}
    [] inst.op = "store"   -> {<<Pts(inst.val), Cell(o)>> : o \in Held(facts, Pts(inst.ptr))}
    [] inst.op = "memcpy"  -> {<<Cell(s), Cell(d)>> : s \in Held(facts, Pts(inst.src)),
                                                      d \in Held(facts, Pts(inst.dst))}
    [] inst.op = "phi"     -> {<<Pts(v), Pts(inst.id)>> : v \in Range(inst.in)}
    [] inst.op = "gep"     -> {<<Pts(inst.ptr), Pts(inst.id)>>}
    [] inst.op = "bitcast" -> {<<Pts(inst.ptr), Pts(inst.id)>>}
    [] inst.op = "call"    -> UNION {Through(p, inst, f) : f \in Reached(p, facts, inst)}
    [] OTHER               -> {}

\* An alloca makes an object, a call of a function without a body may.
Makes(p, facts, inst) ==
  \/ inst.op = "alloca"
  \/ inst.op = "call" /\ Reached(p, facts, inst) \cap Declared(p) # {}

Objects(p, facts) == Funcs(p) \cup {inst.id : inst \in {i \in Insts(p) : Makes(p, facts, i)}}

\* What the facts found so far imply.
Implied(p, facts) ==
  {<<Pts(o), o>> : o \in Objects(p, facts)}
    \cup UNION {{flow[2]} \X Held(facts, flow[1]) :
                  flow \in UNION {Flow(p, facts, inst) : inst \in Insts(p)}}

\* The names an instruction mentions, and those of the module.
Mentioned(inst) ==
  CASE inst.op = "alloca"                     -> {inst.id}
    [] inst.op \in {"load", "gep", "bitcast"} -> {inst.id, inst.ptr}
    [] inst.op = "store"                      -> {inst.val, inst.ptr}
    [] inst.op = "memcpy"                     -> {inst.dst, inst.src}
    [] inst.op = "phi"                        -> {inst.id} \cup Range(inst.in)
    [] inst.op = "call"                       -> {inst.id, inst.callee} \cup Range(inst.args)
    [] inst.op = "ret"                        -> {inst.val}
    [] OTHER                                  -> {}

Names(p) == (UNION {{f} \cup Range(p.args[f]) : f \in Funcs(p)})
              \cup UNION {Mentioned(inst) : inst \in Insts(p)}

Facts(p) == ({"pts", "alias"} \X Names(p)) \X Names(p)

\* The least set of facts that holds whatever it implies.
Solution(p) ==
  LET Closure[facts \in SUBSET Facts(p)] ==
        LET more == Implied(p, facts)
        IN  IF more \subseteq facts THEN facts ELSE Closure[facts \cup more]
  IN  Closure[{}]

\* The pairs of a line and a function that may be called there.
Calls(p, facts) ==
  UNION {{call.line} \X Reached(p, facts, call) :
           call \in {inst \in Insts(p) : inst.op = "call"}}
=============================================================================
