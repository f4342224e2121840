----------------------------- MODULE VmDiscipline -----------------------------
(***************************************************************************)
(* What the virtual machine promises to a program that keeps its side of   *)
(* the calling convention.                                                 *)
(*                                                                         *)
(* The machine checks no program.  Call takes it that "all arguments to    *)
(* the function are under the fn id", Ret asserts that the callee has left *)
(* at least its frame, and the rest is up to the compiler.  Disciplined    *)
(* says what a compiler has to do, in terms of how deep the stack is at    *)
(* each instruction; the properties say that this is enough.               *)
(***************************************************************************)
EXTENDS Vm

(* A unit here also has, for each instruction, the function it belongs to     *)
(* (0 outside of any) and the depth of the stack when it is reached, counted  *)
(* from the frame of that function.                                           *)
VARIABLE kept   \* history: for each frame, the stack under it at the call

allvars == <<vars, kept>>

(* The instruction at a: its operands, what it leaves, where it may go.       *)
CodeOp(u, a) == u.code[a][1]
CodeArg(u, a) == u.code[a][2]
Callee(u, a) == u.fns[CodeArg(u, a - 1)[2] + 1]

Takes(u, a) ==
  CASE CodeOp(u, a) \in BinaryOps \cup {"Is", "Concat", "Index", "Remove"} -> 2
    [] CodeOp(u, a) \in {"Slice", "IndexMut", "Insert"}                    -> 3
    [] CodeOp(u, a) \in UnaryOps \cup {"Pop", "SetLocal", "JumpIfFalse", "Len", "Tag", "Dup", "Ret"} -> 1
    [] CodeOp(u, a) = "Array"                                              -> CodeArg(u, a)
    [] CodeOp(u, a) = "Adt"                                                -> CodeArg(u, a) + 1
    [] CodeOp(u, a) = "Call"                                               -> Callee(u, a).arity + 1
    [] OTHER                                                               -> 0
Leaves(u, a) ==
  CASE CodeOp(u, a) = "Dup" -> 2
    [] CodeOp(u, a) \in {"Nop", "Halt", "Jump", "JumpIfFalse", "Pop", "IndexMut", "Insert",
                         "Remove", "SetLocal"} -> 0
    [] OTHER -> 1
Follow(u, a) ==
  CASE CodeOp(u, a) \in {"Halt", "Ret"} -> {}
    [] CodeOp(u, a) = "Jump"            -> {CodeArg(u, a)}
    [] CodeOp(u, a) = "JumpIfFalse"     -> {a + 1, CodeArg(u, a)}
    [] OTHER                            -> {a + 1}

(* A function id is pushed just before the call, and nothing else gets there. *)
CallsKnown(u, a) ==
  /\ a > 1 /\ CodeOp(u, a - 1) = "Push"
  /\ CodeArg(u, a - 1)[1] = "Int" /\ CodeArg(u, a - 1)[2] \in 0..(Len(u.fns) - 1)
  /\ \A b \in DOMAIN u.code : a \in Follow(u, b) => b = a - 1
  /\ \A f \in DOMAIN u.fns : u.fns[f].entry # a

Disciplined(u) ==
  /\ u.depth \in [DOMAIN u.code -> Nat]
  /\ 1 \in DOMAIN u.code /\ u.fnOf[1] = 0 /\ u.depth[1] = 0
  /\ \A f \in DOMAIN u.fns : /\ u.fns[f].entry \in DOMAIN u.code
                            /\ u.fnOf[u.fns[f].entry] = f
                            /\ u.depth[u.fns[f].entry] = u.fns[f].arity
  /\ \A a \in DOMAIN u.code :
       /\ CodeOp(u, a) = "Call" => CallsKnown(u, a)
       /\ Takes(u, a) <= u.depth[a]
       /\ \A b \in Follow(u, a) : /\ b \in DOMAIN u.code /\ u.fnOf[b] = u.fnOf[a]
                                  /\ u.depth[b] = u.depth[a] - Takes(u, a) + Leaves(u, a)
       /\ CodeOp(u, a) = "LoadString" => CodeArg(u, a) < Len(u.strings)
       /\ CodeOp(u, a) \in {"Ret", "GetLocal", "SetLocal"} => u.fnOf[a] # 0
       /\ CodeOp(u, a) = "GetLocal" => CodeArg(u, a) < u.depth[a]
       /\ CodeOp(u, a) = "SetLocal" => CodeArg(u, a) < u.depth[a] - 1

ASSUME UnitsAssumption == \A u \in Units : Disciplined(u)

InitKept == Init /\ kept = << >>

NextKept ==
  /\ Next
  /\ kept' = IF Len(frames') > Len(frames)
             THEN Append(kept, SubSeq(stack', 1, frames'[Len(frames')].top))
             ELSE SubSeq(kept, 1, Len(frames'))

SpecKept == InitKept /\ [][NextKept]_allvars
-----------------------------------------------------------------------------
FrameTopOf(i) == IF i = 0 THEN 0 ELSE frames[i].top

(* The stack is as deep as the program says, in the running function and, for *)
(* each function that is waiting, once its call returns.                      *)
DepthsAgree ==
  /\ status = "running" =>
       /\ ip \in DOMAIN unit.code
       /\ Len(stack) = FrameTopOf(Len(frames)) + unit.depth[ip]
       /\ unit.fnOf[ip] = 0 <=> frames = << >>
       /\ CodeOp(unit, ip) = "Call" => stack[Len(stack)] = CodeArg(unit, ip - 1)
  /\ \A i \in DOMAIN frames :
       LET a == frames[i].savedpc IN
       /\ a \in DOMAIN unit.code
       /\ 0 <= frames[i].top
       /\ frames[i].top + 1 = FrameTopOf(i - 1) + unit.depth[a]
       /\ unit.fnOf[a] = 0 <=> i = 1

(* Frames lie one above the other, and each function that is waiting waits    *)
(* just after a call.                                                         *)
CallsNested ==
  /\ Len(kept) = Len(frames)
  /\ \A i, j \in DOMAIN frames : i <= j => frames[i].top <= frames[j].top
  /\ \A i \in DOMAIN frames :
       LET a == frames[i].savedpc IN
       /\ a - 1 \in DOMAIN unit.code
       /\ CodeOp(unit, a - 1) = "Call"

(* No function touches what its callers have on the stack, however deep the   *)
(* calls go and whatever they assign to, and its own part of the stack is as  *)
(* deep as its code says.                                                     *)
CallersKept ==
  /\ DepthsAgree
  /\ CallsNested
  /\ \A i \in DOMAIN frames :
       frames[i].top <= Len(stack) /\ SubSeq(stack, 1, frames[i].top) = kept[i]

(* Only the values themselves can be at fault: no underflow of either stack,  *)
(* no unknown function or local, and neither the assertion in Ret nor the     *)
(* subtraction in new_call_frame fails.                                       *)
NeverMisuses ==
  status \notin {"StackUnderflow", "CallStackUnderflow", "InvalidFnRef",
                 "InvalidLocalIndex", "InvalidHeapRef", "panic"}

(* A return leaves the caller's stack as it was before the arguments were     *)
(* pushed, with the result on top, after the call.                            *)
ReturnsToCaller ==
  [][Len(frames') < Len(frames) =>
       /\ stack' = Append(kept[Len(kept)], stack[Len(stack)])
       /\ CodeOp(unit, ip' - 1) = "Call"
       /\ unit.fnOf[ip'] = 0 <=> frames' = << >>]_allvars
=============================================================================
