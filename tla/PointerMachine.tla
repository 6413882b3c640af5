-------------------------- MODULE PointerMachine ---------------------------
(***************************************************************************)
(* What a module of PointerProgram does when it runs: the semantics of the *)
(* LLVM IR, which the analysis has to cover.  Branches are arbitrary (they *)
(* depend on input), an execution with undefined behaviour stops.          *)
(*                                                                         *)
(* A concrete value is a tuple: <<"fn", i, 0>> is the i-th function of the *)
(* module, <<"ptr", n, k>> points to field k of the n-th object, Undef is  *)
(* everything else (integers, null, uninitialised memory).                 *)
(***************************************************************************)
EXTENDS PointToInfo, TLC

CONSTANTS
  MaxObjects,     \* bound: objects allocated
  MaxFrames       \* bound: depth of calls

VARIABLES
  prog,
  frames,         \* the calls being executed, innermost first
  mem             \* the contents of the objects, a sequence of maps

Undef == <<"undef", 0, 0>>

FnNamed(f) == <<"fn", CHOOSE i \in DOMAIN prog.order : prog.order[i] = f, 0>>

Top == frames[1]
Code == prog.code[Top.bb]
inst == Code[Top.pc]

\* The concrete value of an operand.
Val(v) == IF v \in Funcs(prog) THEN FnNamed(v)
          ELSE IF v \in DOMAIN Top.env THEN Top.env[v] ELSE Undef

IsPtr(c) == c[1] = "ptr"
IsFn(c) == c[1] = "fn"

Read(c) == IF c[3] \in DOMAIN mem[c[2]] THEN mem[c[2]][c[3]] ELSE Undef

Frame(f, env) == [fn |-> f, bb |-> prog.entry[f], pc |-> 1, env |-> env]

Init ==
  /\ frames = << >>
  /\ mem = << >>

Started == frames # << >>

Start ==
  /\ ~Started
  /\ frames' = <<Frame(prog.main, EmptyMap)>>
  /\ UNCHANGED mem

SetTop(fr) == frames' = <<fr>> \o Tail(frames)

\* The instruction defines its value and control goes on to the next one.
Define(id, c) == SetTop([Top EXCEPT !.env = (id :> c) @@ @, !.pc = @ + 1])
Skip == SetTop([Top EXCEPT !.pc = @ + 1])

AtInst == Started /\ Top.pc <= Len(Code)

Allocate ==
  /\ AtInst /\ inst.op = "alloca"
  /\ Len(mem) < MaxObjects
  /\ mem' = Append(mem, EmptyMap)
  /\ Define(inst.id, <<"ptr", Len(mem) + 1, 0>>)

Compute ==
  /\ AtInst
  /\ \/ /\ inst.op = "load" /\ IsPtr(Val(inst.ptr))
        /\ Define(inst.id, Read(Val(inst.ptr)))
     \/ /\ inst.op = "gep" /\ IsPtr(Val(inst.ptr))
        /\ Define(inst.id, [Val(inst.ptr) EXCEPT ![3] = inst.fld])
     \/ /\ inst.op = "bitcast"
        /\ Define(inst.id, Val(inst.ptr))
  /\ UNCHANGED mem

Write ==
  /\ AtInst
  /\ \/ /\ inst.op = "store" /\ IsPtr(Val(inst.ptr))
        /\ LET c == Val(inst.ptr) IN
           mem' = [mem EXCEPT ![c[2]] = (c[3] :> Val(inst.val)) @@ @]
     \/ /\ inst.op = "memcpy" /\ IsPtr(Val(inst.dst)) /\ IsPtr(Val(inst.src))
        /\ mem' = [mem EXCEPT ![Val(inst.dst)[2]] = mem[Val(inst.src)[2]]]
     \/ /\ inst.op = "memset" /\ IsPtr(Val(inst.dst))
        /\ mem' = [mem EXCEPT ![Val(inst.dst)[2]] = EmptyMap]
  /\ Skip

\* A declared function returns a new object, as malloc does.
CallDeclared ==
  /\ AtInst /\ inst.op = "call" /\ IsFn(Val(inst.callee))
  /\ prog.order[Val(inst.callee)[2]] \in Declared(prog)
  /\ Len(mem) < MaxObjects
  /\ mem' = Append(mem, EmptyMap)
  /\ Define(inst.id, <<"ptr", Len(mem) + 1, 0>>)

CallDefined ==
  /\ AtInst /\ inst.op = "call" /\ IsFn(Val(inst.callee))
  /\ Len(frames) < MaxFrames
  /\ LET f == prog.order[Val(inst.callee)[2]]
         env == [a \in Range(prog.args[f]) |->
                   Val(inst.args[CHOOSE i \in DOMAIN prog.args[f] : prog.args[f][i] = a])]
     IN  /\ f \notin Declared(prog)
         /\ frames' = <<Frame(f, env)>> \o frames
  /\ UNCHANGED mem

Return ==
  /\ AtInst /\ inst.op = "ret" /\ Len(frames) > 1
  /\ LET caller == frames[2]
         call == prog.code[caller.bb][caller.pc]
     IN  frames' = <<[caller EXCEPT !.env = (call.id :> Val(inst.val)) @@ @,
                                    !.pc = @ + 1]>>
                   \o Tail(Tail(frames))
  /\ UNCHANGED mem

\* A branch: the phi nodes of the target take their values all at once.
Jump ==
  /\ Started /\ Top.pc > Len(Code)
  /\ \E bb \in prog.blocks[Top.fn] :
       /\ <<Top.bb, bb>> \in prog.cfg
       /\ LET code == prog.code[bb]
              phis == {i \in DOMAIN code : code[i].op = "phi"}
              node(v) == CHOOSE i \in phis : code[i].id = v
              env == [v \in {code[i].id : i \in phis} |->
                        Val(code[node(v)].in[Top.bb])]
          IN  SetTop([Top EXCEPT !.bb = bb, !.env = env @@ @,
                                 !.pc = Cardinality(phis) + 1])
  /\ UNCHANGED mem

Step == Allocate \/ Compute \/ Write \/ CallDeclared \/ CallDefined
          \/ Return \/ Jump

\* The call the program is about to make, as <<line, function>>.
Calling == IF AtInst /\ inst.op = "call" /\ IsFn(Val(inst.callee))
           THEN {<<inst.line, prog.order[Val(inst.callee)[2]]>>} ELSE {}
=============================================================================
