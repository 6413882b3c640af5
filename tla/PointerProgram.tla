-------------------------- MODULE PointerProgram ---------------------------
(***************************************************************************)
(* The modules the analyses read, as far as function pointers go: an       *)
(* abstraction of the LLVM IR that clang -g -O0 and mem2reg produce.  A    *)
(* module is a record p:                                                   *)
(*   p.order      its functions, in module order                           *)
(*   p.intrinsic  the llvm.* functions among them                          *)
(*   p.main       where execution starts                                   *)
(*   p.args       the formal arguments of each function                    *)
(*   p.list       the basic blocks of each function, in order; none if it  *)
(*                is only declared.  p.blocks is the set of them           *)
(*   p.entry      the entry block of each defined function                 *)
(*   p.cfg        the edges between blocks                                 *)
(*   p.code       the instructions of each block, branches left out        *)
(*   p.layouts    the addresses its blocks may have been allocated at      *)
(* Values (functions, arguments, instructions, constants) are names, all   *)
(* different within a module.                                              *)
(***************************************************************************)
EXTENDS SequencesExt

Alloca(id)           == [op |-> "alloca", id |-> id]
Load(id, ptr)        == [op |-> "load", id |-> id, ptr |-> ptr]
Store(val, ptr)      == [op |-> "store", val |-> val, ptr |-> ptr]
Gep(id, ptr, fld)    == [op |-> "gep", id |-> id, ptr |-> ptr, fld |-> fld]
BitCast(id, ptr)     == [op |-> "bitcast", id |-> id, ptr |-> ptr]
Phi(id, in)          == [op |-> "phi", id |-> id, in |-> in]
Call(id, callee, args, line) ==
  [op |-> "call", id |-> id, callee |-> callee, args |-> args, line |-> line]
Ret(val)             == [op |-> "ret", val |-> val]

\* llvm.memcpy and llvm.memset of a whole object; cast says that the operands
\* are bitcasts, dst and src being the operands of those.
MemCpy(dst, src, cast) ==
  [op |-> "memcpy", dst |-> dst, src |-> src, cast |-> cast]
MemSet(dst, cast)      == [op |-> "memset", dst |-> dst, cast |-> cast]

\* Members and array elements: the k-th of what ptr points to is loaded into id,
\* or val is stored in it.
Get(id, ptr, k) == <<Gep(id \o ".ptr", ptr, k), Load(id, id \o ".ptr")>>
Put(id, ptr, k, val) == <<Gep(id, ptr, k), Store(val, id)>>

\* A new object of malloc, cast to its type.
New(id, line) == <<Call(id \o ".mem", "malloc", << >>, line), BitCast(id, id \o ".mem")>>

RetInt  == Ret("0")
RetVoid == Ret("nullptr")

-----------------------------------------------------------------------------

\* Functions as lists of basic blocks, the entry block first.
Block(name, succs, code) == [name |-> name, succs |-> succs, code |-> code]
Function(name, args, blocks) == [name |-> name, args |-> args, blocks |-> blocks]
Simple(name, args, code) ==
  Function(name, args, <<Block(name \o ".entry", {}, code)>>)
Declaration(name) == Function(name, << >>, << >>)

Intrinsics == {"llvm.memcpy", "llvm.memset"}

\* The blocks are allocated one after the other, or from the end of the memory.
Layout(blocks) == [b \in Range(blocks) |-> CHOOSE i \in DOMAIN blocks : blocks[i] = b]
Layouts(blocks) == {Layout(blocks), Layout(Reverse(blocks))}

\* The module of a list of functions.  A run starts in the last defined one.
Module(functions) ==
  LET names == [i \in DOMAIN functions |-> functions[i].name]
      of == [f \in Range(names) |-> functions[CHOOSE i \in DOMAIN names : names[i] = f]]
      blocks == FlattenSeq([i \in DOMAIN functions |-> functions[i].blocks])
      labels == [i \in DOMAIN blocks |-> blocks[i].name]
      block == [b \in Range(labels) |-> blocks[CHOOSE i \in DOMAIN labels : labels[i] = b]]
      list == [f \in Range(names) |->
                 [i \in DOMAIN of[f].blocks |-> of[f].blocks[i].name]]
      defined == SelectSeq(names, LAMBDA f : list[f] # << >>)
  IN  [order |-> names, intrinsic |-> Range(names) \cap Intrinsics, main |-> Last(defined),
       args |-> [f \in Range(names) |-> of[f].args],
       list |-> list, blocks |-> [f \in Range(names) |-> Range(list[f])],
       entry |-> [f \in Range(defined) |-> Head(list[f])],
       cfg |-> UNION {{b} \X block[b].succs : b \in Range(labels)},
       code |-> [b \in Range(labels) |-> block[b].code],
       layouts |-> Layouts(labels)]

\* A module and what should be printed for it: pairs of a line and a set of names.
Test(functions, printed) ==
  [expect |-> UNION {{line[1]} \X line[2] : line \in printed}] @@ Module(functions)

\* if (..) then; rest   and   if (..) then else other; rest
IfThen(first, then, rest) ==
  <<Block("b0", {"b1", "b2"}, first), Block("b1", {"b2"}, then), Block("b2", {}, rest)>>
IfElse(first, then, other, rest) ==
  <<Block("b0", {"b1", "b2"}, first), Block("b1", {"b3"}, then),
    Block("b2", {"b3"}, other), Block("b3", {}, rest)>>

\* if (..) then else if (..) other; rest.  At the end of the inner one is b4.
ElseIf(first, then, other, end, rest) ==
  <<Block("b0", {"b1", "b2"}, first), Block("b1", {"b5"}, then), Block("b2", {"b3", "b4"}, << >>),
    Block("b3", {"b4"}, other), Block("b4", {"b5"}, end), Block("b5", {}, rest)>>

-----------------------------------------------------------------------------
\* Functions that most of the test inputs of Assignment2 and Assignment3 share.

PlusFn  == Simple("plus", << >>, <<RetInt>>)
MinusFn == Simple("minus", << >>, <<RetInt>>)

\* int name(int a, int b, int (*a_fptr)(int, int)) { return a_fptr(a, b); }
Applies(name, line) ==
  Simple(name, <<name \o ".a_fptr">>,
         <<Call(name \o ".c", name \o ".a_fptr", << >>, line), RetInt>>)

\* The functions that return one of two arguments.
ReturnsFirst(name)  == Simple(name, <<name \o ".a", name \o ".b">>, <<Ret(name \o ".a")>>)
ReturnsSecond(name) == Simple(name, <<name \o ".a", name \o ".b">>, <<Ret(name \o ".b")>>)
=============================================================================
