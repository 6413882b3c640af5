------------------------------ MODULE CSyntax ------------------------------
(***************************************************************************)
(* The part of Clang's AST that Assignment1/src/ASTInterpreter.cpp visits. *)
(* A node is a record with the field kind, the sequence kids of its        *)
(* children and what else its kind needs.  Types are strings; an           *)
(* expression of array type has the pointer type it decays to.  Implicit   *)
(* casts that change no value and the callee operand of a call are left    *)
(* out.                                                                    *)
(*                                                                         *)
(* Declarations are names.  Clang has resolved the scopes, so different    *)
(* declarations of a function and of the unit have different names.        *)
(***************************************************************************)
EXTENDS Integers, Sequences

LOCAL INSTANCE SequencesExt

Pointee == [t \in {"int*", "int**", "char*", "char**"} |->
              CASE t = "int*" -> "int" [] t = "int**" -> "int*"
                [] t = "char*" -> "char" [] t = "char**" -> "char*"]

IsPointer(ty) == ty \in DOMAIN Pointee

SizeOf(ty) == CASE ty = "char" -> 1 [] ty = "int" -> 4 [] IsPointer(ty) -> 8

-----------------------------------------------------------------------------
\* Expressions.

Literal(v) == [kind |-> "int", val |-> v, ty |-> "int", kids |-> << >>]
SizeOfType(ty) == Literal(SizeOf(ty))
SizeOfExpr(e) == [kind |-> "sizeof", val |-> SizeOf(e.ty), ty |-> "int", kids |-> <<e>>]
Ref(d, ty) == [kind |-> "ref", d |-> d, ty |-> ty, kids |-> << >>]
Paren(e) == [kind |-> "paren", ty |-> e.ty, kids |-> <<e>>]
Cast(ty, e) == [kind |-> "cast", ty |-> ty, kids |-> <<e>>]
Unary(op, e) == [kind |-> "unary", op |-> op, ty |-> "int", kids |-> <<e>>]
Deref(e) == [kind |-> "deref", ty |-> Pointee[e.ty], kids |-> <<e>>]
Sub(b, i) == [kind |-> "sub", ty |-> Pointee[b.ty], kids |-> <<b, i>>]

Logical == {"&&", "||"}
Truths == {"<", ">", "<=", ">=", "==", "!="} \cup Logical

Binary(op, l, r) ==
  [kind |-> "binary", op |-> op, kids |-> <<l, r>>,
   ty |-> IF op \in Truths THEN "int"
          ELSE IF IsPointer(l.ty) THEN l.ty ELSE r.ty]

\* l = r, or l op= r.
Assign(op, l, r) == [kind |-> "assign", op |-> op, ty |-> l.ty, kids |-> <<l, r>>]
Set(l, r) == Assign("=", l, r)

\* ++e and --e (pre) or e++ and e-- (post) by one unit up or down.
Step(fix, sign, e) ==
  [kind |-> "step", fix |-> fix, sign |-> sign, ty |-> e.ty, kids |-> <<e>>]

Choice(c, t, f) == [kind |-> "cond", ty |-> t.ty, kids |-> <<c, t, f>>]

\* A call of function fn, or of one of the four built-in functions.
Call(fn, ty, args) == [kind |-> "call", fn |-> fn, ty |-> ty, kids |-> args]
GET == [kind |-> "GET", ty |-> "int", kids |-> << >>]
PRINT(e) == [kind |-> "PRINT", ty |-> "void", kids |-> <<e>>]
MALLOC(ty, e) == [kind |-> "MALLOC", ty |-> ty, kids |-> <<e>>]
FREE(e) == [kind |-> "FREE", ty |-> "void", kids |-> <<e>>]

-----------------------------------------------------------------------------
\* Statements.

Null == [kind |-> "null", kids |-> << >>]
Block(stmts) == [kind |-> "block", kids |-> stmts]
Return(e) == [kind |-> "return", kids |-> <<e>>]
Break == [kind |-> "break", kids |-> << >>]
Continue == [kind |-> "continue", kids |-> << >>]
If(c, s) == [kind |-> "if", kids |-> <<c, s>>]
IfElse(c, s, t) == [kind |-> "if", kids |-> <<c, s, t>>]
While(c, s) == [kind |-> "while", kids |-> <<c, s>>]

\* A part of a for statement that is not there is Null.
For(i, c, n, s) == [kind |-> "for", kids |-> <<i, c, n, s>>]

\* Declarations of a variable and of an array of len elements.
Var(d, ty) == [kind |-> "var", d |-> d, ty |-> ty, kids |-> << >>]
VarInit(d, ty, e) == [kind |-> "var", d |-> d, ty |-> ty, kids |-> <<e>>]
Array(d, ty, len) == [kind |-> "array", d |-> d, ty |-> ty, len |-> len, kids |-> << >>]

-----------------------------------------------------------------------------

\* Division rounds towards zero in C.
Quotient(l, r) ==
  LET abs(x) == IF x < 0 THEN -x ELSE x
      q == abs(l) \div abs(r)
  IN  IF (l < 0) = (r < 0) THEN q ELSE -q

\* The value a char or int object holds once v is stored in it.  The numbers of
\* TLC are those of int.
Narrow(ty, v) == IF ty = "char" THEN ((v + 128) % 256) - 128 ELSE v

Truth(b) == IF b THEN 1 ELSE 0

\* Numbers of either sign bit by bit: the sign, then the bits from 30 to 0.
Bit(v, n) == (v \div 2 ^ n) % 2
BitAnd(l, r) ==
  FoldLeft(LAMBDA v, n : 2 * v + Bit(l, n) * Bit(r, n),
           -Truth(l < 0 /\ r < 0), [n \in 1 .. 31 |-> 31 - n])

\* The operators on numbers.
Arithmetic(op, l, r) ==
  CASE op = "+" -> l + r
    [] op = "-" -> l - r
    [] op = "*" -> l * r
    [] op = "/" -> Quotient(l, r)
    [] op = "%" -> l - r * Quotient(l, r)
    [] op = "<<" -> l * 2 ^ r
    [] op = ">>" -> l \div 2 ^ r
    [] op = "&" -> BitAnd(l, r)
    [] op = "|" -> l + r - BitAnd(l, r)
    [] op = "^" -> l + r - 2 * BitAnd(l, r)
    [] op = "<" -> Truth(l < r)
    [] op = ">" -> Truth(l > r)
    [] op = "<=" -> Truth(l <= r)
    [] op = ">=" -> Truth(l >= r)
    [] op = "==" -> Truth(l = r)
    [] op = "!=" -> Truth(l # r)
    [] op = "&&" -> Truth(l # 0 /\ r # 0)
    [] op = "||" -> Truth(l # 0 \/ r # 0)

Negation(op, v) ==
  CASE op = "-" -> -v [] op = "+" -> v [] op = "~" -> -v - 1 [] op = "!" -> Truth(v = 0)
=============================================================================
