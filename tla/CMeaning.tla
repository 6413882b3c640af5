----------------------------- MODULE CMeaning ------------------------------
(***************************************************************************)
(* What a program of the language of Assignment1/requirements.md means in  *)
(* C: the output that Assignment1/check.sh gets from the program compiled  *)
(* with clang.  It is defined by recursion on the syntax, with the scopes, *)
(* the objects and the jumps of C, and shares no mechanism with the        *)
(* interpreter.                                                            *)
(*                                                                         *)
(* A value is a number (obj = 0) or a pointer to element num of an object. *)
(* s is the state of the program: glob and loc the variables, objs the     *)
(* objects, in and out the rest of the input and the output, val the value *)
(* of the last expression, flow where control goes next.                   *)
(***************************************************************************)
EXTENDS CSyntax, TLC

Number(v) == [obj |-> 0, num |-> v]

Give(s, v) == [s EXCEPT !.val = v]
GiveNumber(s, v) == Give(s, Number(v))

Lookup(s, d) == IF d \in DOMAIN s.loc THEN s.loc[d] ELSE s.glob[d]

\* Store v in variable d or in what the pointer ptr points to.
StoreVar(s, d, v) ==
  IF d \in DOMAIN s.glob THEN [s EXCEPT !.glob[d] = v]
                         ELSE [s EXCEPT !.loc[d] = v]

StoreAt(s, ptr, v) ==
  [s EXCEPT !.objs[ptr.obj] = (ptr.num :> v) @@ @]

LoadAt(s, ptr) == s.objs[ptr.obj][ptr.num]

NewObject(s, contents) ==
  [s EXCEPT !.objs = Append(@, contents),
            !.val = [obj |-> Len(s.objs) + 1, num |-> 0]]

\* Pointers move by elements; the difference of two is a number.
Operate(op, l, r) ==
  CASE op = "+" -> [obj |-> l.obj + r.obj, num |-> l.num + r.num]
    [] op = "-" -> [obj |-> l.obj - r.obj, num |-> l.num - r.num]
    [] op = "==" -> Number(Truth(l = r))
    [] op = "!=" -> Number(Truth(l # r))
    [] OTHER -> Number(Arithmetic(op, l.num, r.num))

Holds(s) == s.val # Number(0)

-----------------------------------------------------------------------------

RECURSIVE Run(_, _, _), RunFrom(_, _, _, _), Place(_, _, _), Loop(_, _, _)

\* The element that an lvalue other than a variable names.
Place(p, n, s) ==
  CASE n.kind = "paren" -> Place(p, n.kids[1], s)
    [] n.kind = "deref" -> Run(p, n.kids[1], s)
    [] n.kind = "sub" ->
         LET b == Run(p, n.kids[1], s)
             i == Run(p, n.kids[2], b)
         IN  Give(i, Operate("+", b.val, i.val))
    [] OTHER -> s

RECURSIVE Named(_)
Named(n) == IF n.kind = "paren" THEN Named(n.kids[1]) ELSE n

Old(n, s) == IF Named(n).kind = "ref" THEN Lookup(s, Named(n).d) ELSE LoadAt(s, s.val)

Converted(ty, v) == [v EXCEPT !.num = IF v.obj = 0 THEN Narrow(ty, @) ELSE @]

Store(n, ptr, s, val) ==
  LET v == Converted(n.ty, val) IN
  Give(IF Named(n).kind = "ref" THEN StoreVar(s, Named(n).d, v) ELSE StoreAt(s, ptr, v), v)

\* The statements or expressions of a sequence from the i-th on.
RunFrom(p, ns, i, s) ==
  IF i > Len(ns) \/ s.flow # "next" THEN s ELSE RunFrom(p, ns, i + 1, Run(p, ns[i], s))

\* A loop <<condition, increment, body>>.
Loop(p, l, s) ==
  LET c == IF l[1].kind = "null" THEN GiveNumber(s, 1) ELSE Run(p, l[1], s)
      b == Run(p, l[3], c)
  IN  IF ~Holds(c) THEN c
      ELSE IF b.flow \in {"break", "return"}
           THEN [b EXCEPT !.flow = IF @ = "break" THEN "next" ELSE @]
           ELSE Loop(p, l, Run(p, l[2], [b EXCEPT !.flow = "next"]))

RECURSIVE Args(_, _, _)
\* The values of the operands of a call, and the state after them.
Args(p, ns, s) ==
  IF ns = << >> THEN [vals |-> << >>, s |-> s]
  ELSE LET a == Run(p, Head(ns), s)
           rest == Args(p, Tail(ns), a)
       IN  [vals |-> <<a.val>> \o rest.vals, s |-> rest.s]

Run(p, n, s) ==
  LET k(i) == n.kids[i] IN
  CASE n.kind = "null" -> s
    [] n.kind \in {"int", "sizeof"} -> GiveNumber(s, n.val)
    [] n.kind = "ref" -> Give(s, Lookup(s, n.d))
    [] n.kind = "paren" -> Run(p, k(1), s)
    [] n.kind = "cast" -> LET a == Run(p, k(1), s) IN Give(a, Converted(n.ty, a.val))
    [] n.kind = "unary" ->
         LET a == Run(p, k(1), s) IN
         GiveNumber(a, IF n.op = "!" THEN Truth(~Holds(a)) ELSE Negation(n.op, a.val.num))
    [] n.kind = "binary" /\ n.op \in Logical ->
         LET a == Run(p, k(1), s) IN
         IF Holds(a) = (n.op = "||") THEN GiveNumber(a, Truth(Holds(a)))
         ELSE LET b == Run(p, k(2), a) IN GiveNumber(b, Truth(Holds(b)))
    [] n.kind = "binary" ->
         LET a == Run(p, k(1), s)
             b == Run(p, k(2), a)
         IN  Give(b, Operate(n.op, a.val, b.val))
    [] n.kind \in {"deref", "sub"} ->
         LET a == Place(p, n, s) IN Give(a, LoadAt(a, a.val))
    [] n.kind = "assign" ->
         LET l == Place(p, k(1), s)
             r == Run(p, k(2), l)
         IN  Store(k(1), l.val, r,
                   IF n.op = "=" THEN r.val
                   ELSE Operate(n.op, Old(k(1), [r EXCEPT !.val = l.val]), r.val))
    [] n.kind = "step" ->
         LET l == Place(p, k(1), s)
             old == Old(k(1), l)
             new == Operate("+", old, Number(n.sign))
             done == Store(k(1), l.val, l, new)
         IN  IF n.fix = "pre" THEN done ELSE Give(done, old)
    [] n.kind \in {"cond", "if"} ->
         LET c == Run(p, k(1), s) IN
         IF Holds(c) THEN Run(p, k(2), c)
         ELSE IF Len(n.kids) = 3 THEN Run(p, k(3), c) ELSE c
    [] n.kind = "call" ->
         LET f == p.code[n.fn]
             a == Args(p, n.kids, s)
             locals == [d \in {f.params[i] : i \in DOMAIN f.params} |->
                          a.vals[CHOOSE i \in DOMAIN f.params : f.params[i] = d]]
             end == Run(p, f.body, [a.s EXCEPT !.loc = locals])
         IN  [end EXCEPT !.loc = s.loc, !.flow = "next"]
    [] n.kind = "GET" ->
         IF s.in = << >> THEN GiveNumber(s, 0)
         ELSE GiveNumber([s EXCEPT !.in = Tail(@)], Head(s.in))
    [] n.kind = "PRINT" ->
         LET a == Run(p, k(1), s) IN [a EXCEPT !.out = Append(@, a.val.num)]
    [] n.kind = "MALLOC" -> NewObject(Run(p, k(1), s), << >>)
    [] n.kind = "FREE" -> Run(p, k(1), s)
    [] n.kind = "block" -> RunFrom(p, n.kids, 1, s)
    [] n.kind = "return" -> [Run(p, k(1), s) EXCEPT !.flow = "return"]
    [] n.kind \in {"break", "continue"} -> [s EXCEPT !.flow = n.kind]
    [] n.kind = "while" -> Loop(p, <<k(1), Null, k(2)>>, s)
    [] n.kind = "for" -> Loop(p, <<k(2), k(3), k(4)>>, Run(p, k(1), s))
    [] n.kind = "var" ->
         LET a == IF n.kids = << >> THEN GiveNumber(s, 0) ELSE Run(p, k(1), s)
         IN  [a EXCEPT !.loc = (n.d :> a.val) @@ @]
    [] n.kind = "array" ->
         LET a == NewObject(s, [i \in 0 .. n.len - 1 |-> Number(0)])
         IN  [a EXCEPT !.loc = (n.d :> a.val) @@ @]

\* The output of a program.
Output(p) ==
  LET start == [glob |-> << >>, loc |-> << >>, objs |-> << >>, in |-> p.input,
                out |-> << >>, val |-> Number(0), flow |-> "next"]
      unit == Run(p, p.code["unit"].body, start)
  IN  Run(p, p.code["main"].body, [unit EXCEPT !.glob = unit.loc, !.loc = << >>]).out
=============================================================================
