---------------------------- MODULE MCLiveness -----------------------------
(***************************************************************************)
(* Functions in SSA form over three blocks, for TLC: a branch or a loop    *)
(* around a phi node.                                                      *)
(***************************************************************************)
EXTENDS Liveness, Graphs, TLC

CONSTANTS Entry, Other, a, p, q, d, t0, t1, t2

\* a is computed in the entry block, p is a phi node, q is computed in the
\* third block, d is a debug intrinsic; t0, t1, t2 are the terminators.
Code == LET Third == Block \ {Entry, Other} IN
  [bb \in Block |-> CASE bb = Entry -> <<a, t0>>
                      [] bb = Other -> <<p, t1>>
                      [] OTHER      -> <<d, q, t2>>]

Home(v) == CHOOSE bb \in Block : \E i \in DOMAIN Code[bb] : Code[bb][i] = v
Position(v) == CHOOSE i \in DOMAIN Code[Home(v)] : Code[Home(v)][i] = v

\* The blocks that can be reached from the entry block without going through x.
Reached(E, x) ==
  LET C == ConnectionsIn([node |-> Block,
                          edge |-> {e \in E : e[1] # x /\ e[2] # x}])
  IN  {bb \in Block \ {x} : bb = Entry \/ C[Entry, bb]}

\* Block x dominates block bb: every path from the entry to bb goes through x.
Dominates(E, x, bb) == x = bb \/ bb \notin Reached(E, x)

Available(E, v, inst) ==
  IF Home(v) = Home(inst) THEN Position(v) < Position(inst)
  ELSE Dominates(E, Home(v), Home(inst))

\* A phi node has one operand per predecessor, available at its end; None is
\* an operand that is not an instruction.
PhiLegal(E, inst, ops) ==
  LET preds == {e[1] : e \in {x \in E : x[2] = Home(inst)}}
  IN  \E in \in [preds -> ops \cup {"None"}] :
        /\ ops \subseteq {in[bb] : bb \in preds}
        /\ \A bb \in preds : in[bb] = "None" \/ Dominates(E, Home(in[bb]), bb)

Legal(E, op) ==
  /\ PhiLegal(E, p, op[p])
  /\ \A inst \in {a, d, q, t0, t1, t2} : \A v \in op[inst] : Available(E, v, inst)

CFGs == {E \in SUBSET (Block \X (Block \ {Entry})) :
           \A bb \in Block : bb = Entry \/ bb \in Reached(E, "None")}

Operands == [a : {{}}, t0 : {{}}, d : {{}},
             p : SUBSET {a, p, q}, t1 : SUBSET {a, p},
             q : SUBSET {a, p}, t2 : SUBSET {p, q}]

\* The operands as a function on the instructions.
Op(o) == (a :> o.a) @@ (p :> o.p) @@ (q :> o.q) @@ (d :> o.d)
           @@ (t0 :> o.t0) @@ (t1 :> o.t1) @@ (t2 :> o.t2)

Functions3 ==
  {[entry |-> Entry, cfg |-> E, code |-> Code, op |-> Op(o), dbg |-> {d}, phi |-> {p}] :
     E \in CFGs, o \in Operands}

MCPrograms == {f \in Functions3 : Legal(f.cfg, f.op)}
=============================================================================
