---------------------------------- MODULE Vm ----------------------------------
(***************************************************************************)
(* The virtual machine (vm/src/lib.rs): a stack of values, a stack of call *)
(* frames, and a heap that only grows.  One action is one turn of the      *)
(* loop of execute.  Instructions take their operands from the stack one   *)
(* by one, and those already taken are gone when a later one is at fault.  *)
(*                                                                         *)
(* Addresses count from 1; everything a program can hold (indices, tags,   *)
(* function ids, offsets) counts from 0 as in the code.                    *)
(***************************************************************************)
EXTENDS VmValue, Sequences

CONSTANTS
  Units,       \* the programs: [code, strings, fns]
  Checked,     \* a build with debug assertions and overflow checks
  StackBound, FrameBound, HeapBound   \* bounds on programs that never stop

ASSUME BuildAssumption == Checked \in BOOLEAN

(* A value that is not on the heap, and any value.                            *)
Scalar == ({"Int"} \X Ints) \cup ({"Bool"} \X BOOLEAN) \cup {Float}
Value == Scalar \cup ({"Ref"} \X Nat)

(* A string is its bytes; a byte in Later is not the first of its character.  *)
(* A string is whole if each of its characters is: here "e" is the first byte *)
(* of a character of two.                                                     *)
Later == {"~"}
Whole(s) ==
  \A i \in 0..Len(s) : (i > 0 /\ s[i] = "e") <=> (i < Len(s) /\ s[i + 1] \in Later)

(* What units are: strings are str, operands are unsigned, and no constant is *)
(* a reference, as a unit is built before the heap that would issue it (only  *)
(* the null id, which leads nowhere, could be had without a heap).            *)
WithNumber == {"Jump", "JumpIfFalse", "LoadString", "Array", "Adt", "GetLocal", "SetLocal"}
WellFormed(u) ==
  /\ u.strings \in Seq(Seq(STRING)) /\ \A i \in DOMAIN u.strings : Whole(u.strings[i])
  /\ u.fns \in Seq([entry : Nat, arity : Nat])
  /\ \A a \in DOMAIN u.code :
       /\ u.code[a][1] = "Push" => u.code[a][2] \in Scalar
       /\ u.code[a][1] \in WithNumber => u.code[a][2] \in Nat
ASSUME ProgramsAssumption == \A u \in Units : WellFormed(u)

VARIABLES
  unit,     \* Vm.program
  ip,       \* address of the next instruction
  stack,    \* Stack.values
  frames,   \* CallStack.frames: [top, savedpc]
  heap,     \* Heap.data: the object of each id, ids being issued in order
  status    \* "running", "halted", "panic", or the VmError returned

vars == <<unit, ip, stack, frames, heap, status>>

SetOf(s) == {s[i] : i \in DOMAIN s}
Op == unit.code[ip][1]
Arg == unit.code[ip][2]

Boundary(s, i) == i = Len(s) \/ (i < Len(s) /\ s[i + 1] \notin Later)

StringObject(s) == [kind |-> "String", bytes |-> s]
ArrayObject(items) == [kind |-> "Array", items |-> items]
AdtObject(tag, fields) == [kind |-> "Adt", tag |-> tag, items |-> fields]

(* The strings of a program are the first objects of the heap.                *)
Init ==
  /\ unit \in Units
  /\ ip = 1
  /\ stack = << >>
  /\ frames = << >>
  /\ heap = [i \in DOMAIN unit.strings |-> StringObject(unit.strings[i])]
  /\ status = "running"

Running ==
  /\ status = "running"
  /\ Len(stack) <= StackBound /\ Len(frames) <= FrameBound /\ Len(heap) <= HeapBound
At(op) == Running /\ ip \in DOMAIN unit.code /\ Op = op
-----------------------------------------------------------------------------
(* The operands an instruction pops, the top of the stack first.              *)
Several(n) == [i \in 1..n |-> "any"]
Operands ==
  CASE Op \in BinaryOps \cup {"Is"}                  -> <<"any", "any">>
    [] Op \in UnaryOps \cup {"Pop", "SetLocal"}      -> <<"any">>
    [] Op = "JumpIfFalse"                            -> <<"bool">>
    [] Op = "Concat"                                 -> <<"ref", "ref">>
    [] Op = "Slice"                                  -> <<"usize", "usize", "ref">>
    [] Op \in {"Index", "Remove"}                    -> <<"usize", "ref">>
    [] Op \in {"IndexMut", "Insert"}                 -> <<"any", "usize", "ref">>
    [] Op \in {"Len", "Tag"}                         -> <<"ref">>
    [] Op = "Call"                                   -> <<"usize">>
    [] Op = "Array"                                  -> Several(Arg)
    [] Op = "Adt"                                    -> Append(Several(Arg), "usize")
    [] OTHER                                         -> << >>

Operand(i) == stack[Len(stack) + 1 - i]
Below(n) == SubSeq(stack, 1, Len(stack) - n)

FaultOfInts(wanted, v) ==
  IF wanted = "usize" /\ Kind(v) = "Int" /\ Val(v) < 0 THEN "Overflow"
  ELSE IF wanted = "bool" /\ Kind(v) # "Bool" THEN "TypeMismatch"
  ELSE IF wanted \in {"usize", "ref"} /\ Kind(v) \notin {"Int", "Ref"} THEN "TypeMismatch"
  ELSE "none"
Fault(wanted, v) ==
  CASE wanted = "any"   -> "none"
    [] wanted = "bool"  -> IF Kind(v) = "Bool" THEN "none" ELSE "TypeMismatch"
    [] wanted = "ref"   -> IF Kind(v) = "Ref" THEN "none" ELSE "TypeMismatch"
    [] wanted = "usize" -> IF Kind(v) # "Int" THEN "TypeMismatch"
                           ELSE IF Val(v) < 0 THEN "Overflow" ELSE "none"

OperandFault(i) ==
  IF i > Len(stack) THEN "StackUnderflow" ELSE Fault(Operands[i], Operand(i))

Ready(op) == At(op) /\ \A i \in DOMAIN Operands : OperandFault(i) = "none"

Goes(s, addr) == stack' = s /\ ip' = addr /\ status' = "running"
Fails(e, s) == stack' = s /\ ip' = ip + 1 /\ status' = e

(* A value, or an error, in place of n operands.                              *)
Yields(n, v) ==
  IF Kind(v) = "Err" THEN Fails(Val(v), Below(n)) ELSE Goes(Append(Below(n), v), ip + 1)

(* pop, pop_bool, pop_ref, pop_usize; an Adt pops its fields at once (pop_n). *)
BadOperand ==
  /\ Running /\ ip \in DOMAIN unit.code
  /\ \E i \in DOMAIN Operands :
       /\ OperandFault(i) # "none"
       /\ \A j \in 1..(i - 1) : OperandFault(j) = "none"
       /\ Fails(OperandFault(i),
                IF i <= Len(stack) THEN Below(i)
                ELSE IF Op = "Adt" /\ i <= Arg THEN stack ELSE << >>)
  /\ UNCHANGED <<unit, frames, heap>>

Panics(s) == stack' = s /\ ip' = ip + 1 /\ status' = "panic"

Rest == UNCHANGED <<unit, frames, heap>>
-----------------------------------------------------------------------------
Nop == Ready("Nop") /\ Goes(stack, ip + 1) /\ Rest

Halt == Ready("Halt") /\ Fails("halted", stack) /\ Rest

Push == Ready("Push") /\ Yields(0, Arg) /\ Rest

Pop == Ready("Pop") /\ Goes(Below(1), ip + 1) /\ Rest

Jump == Ready("Jump") /\ Goes(stack, Arg) /\ Rest

JumpIfFalse ==
  /\ Ready("JumpIfFalse")
  /\ Goes(Below(1), IF Val(Operand(1)) THEN ip + 1 ELSE Arg)
  /\ Rest

Dup ==
  /\ Ready("Dup")
  /\ IF stack = << >> THEN Fails("StackUnderflow", stack) ELSE Yields(0, Operand(1))
  /\ Rest

BinaryOp ==
  /\ Ready(Op) /\ Op \in BinaryOps \ Equality
  /\ \E v \in Binary(Op, Operand(2), Operand(1)) : Yields(2, v)
  /\ Rest

UnaryOp == Ready(Op) /\ Op \in UnaryOps /\ Yields(1, Unary(Op, Operand(1))) /\ Rest

Is == Ready("Is") /\ (\E v \in Identical(Operand(2), Operand(1)) : Yields(2, v)) /\ Rest

(* The program must have an instruction there (Unit::fetch), and a string.    *)
OutOfProgram == Running /\ ip \notin DOMAIN unit.code /\ Panics(stack) /\ Rest
-----------------------------------------------------------------------------
(* The heap.                                                                  *)
Holds(id, kinds) == id \in DOMAIN heap /\ heap[id].kind \in kinds
HeapFault(id) == Failure(IF id \in DOMAIN heap THEN "TypeMismatch" ELSE "InvalidHeapRef")
Containers == {"Array", "Adt"}

Allocates(n, object) ==
  /\ heap' = Append(heap, object)
  /\ Goes(Append(Below(n), RefTo(Len(heap) + 1)), ip + 1)
  /\ UNCHANGED <<unit, frames>>

LoadString ==
  /\ Ready("LoadString")
  /\ IF Arg < Len(unit.strings) THEN Yields(0, RefTo(Arg + 1)) ELSE Panics(stack)
  /\ Rest

Concat ==
  /\ Ready("Concat")
  /\ LET b == Val(Operand(1))
         a == Val(Operand(2))
     IN  IF ~Holds(a, {"String"}) THEN Yields(2, HeapFault(a)) /\ Rest
         ELSE IF ~Holds(b, {"String"}) THEN Yields(2, HeapFault(b)) /\ Rest
         ELSE Allocates(2, StringObject(heap[a].bytes \o heap[b].bytes))

SliceUnaligned(s, start, end) == TRUE
Sliceable(s, start, end) == Boundary(s, start) /\ Boundary(s, end)
Slice ==
  /\ Ready("Slice")
  /\ LET end == Val(Operand(1))
         start == Val(Operand(2))
         id == Val(Operand(3))
     IN  IF ~Holds(id, {"String"}) THEN Yields(3, HeapFault(id)) /\ Rest
         ELSE LET s == heap[id].bytes IN
              IF start > end \/ end > Len(s)
              THEN Yields(3, Failure("IndexOutOfBounds")) /\ Rest
              ELSE IF ~Sliceable(s, start, end)
              THEN Yields(3, Failure("InvalidUtf8Boundary")) /\ Rest
              ELSE Allocates(3, StringObject(SubSeq(s, start + 1, end)))

(* Eq and Ne compare strings by what they hold, and nothing else on the heap. *)
EqualityOp ==
  /\ Ready(Op) /\ Op \in Equality
  /\ LET b == Operand(1)
         a == Operand(2)
     IN  IF Kind(a) = "Ref" /\ Kind(b) = "Ref"
         THEN IF ~Holds(Val(a), {"String"}) THEN Yields(2, HeapFault(Val(a)))
              ELSE IF ~Holds(Val(b), {"String"}) THEN Yields(2, HeapFault(Val(b)))
              ELSE Yields(2, BoolOf((heap[Val(a)].bytes = heap[Val(b)].bytes) = (Op = "Eq")))
         ELSE \E v \in Binary(Op, a, b) : Yields(2, v)
  /\ Rest

Top(n) == SubSeq(stack, Len(stack) - n + 1, Len(stack))

Array == Ready("Array") /\ Allocates(Arg, ArrayObject(Top(Arg)))

Adt == Ready("Adt") /\ Allocates(Arg + 1, AdtObject(Val(Operand(Arg + 1)), Top(Arg)))

Index ==
  /\ Ready("Index")
  /\ LET index == Val(Operand(1))
         id == Val(Operand(2))
     IN  Yields(2, IF ~Holds(id, Containers) THEN HeapFault(id)
                   ELSE IF index >= Len(heap[id].items) THEN Failure("IndexOutOfBounds")
                   ELSE heap[id].items[index + 1])
  /\ Rest

(* Instructions that write to an object and leave nothing on the stack.       *)
Writes(n, id, items) ==
  /\ heap' = [heap EXCEPT ![id].items = items]
  /\ Goes(Below(n), ip + 1)
  /\ UNCHANGED <<unit, frames>>

IndexMut ==
  /\ Ready("IndexMut")
  /\ LET index == Val(Operand(2))
         id == Val(Operand(3))
     IN  IF ~Holds(id, Containers) THEN Yields(3, HeapFault(id)) /\ Rest
         ELSE IF index >= Len(heap[id].items)
         THEN Yields(3, Failure("IndexOutOfBounds")) /\ Rest
         ELSE Writes(3, id, [heap[id].items EXCEPT ![index + 1] = Operand(1)])

GrowableAny == Containers
Growable == {"Array"}
Insert ==
  /\ Ready("Insert")
  /\ LET index == Val(Operand(2))
         id == Val(Operand(3))
     IN  IF ~Holds(id, Growable) THEN Yields(3, HeapFault(id)) /\ Rest
         ELSE LET items == heap[id].items IN
              IF index > Len(items) THEN Yields(3, Failure("IndexOutOfBounds")) /\ Rest
              ELSE Writes(3, id, Append(SubSeq(items, 1, index), Operand(1))
                                   \o SubSeq(items, index + 1, Len(items)))

Remove ==
  /\ Ready("Remove")
  /\ LET index == Val(Operand(1))
         id == Val(Operand(2))
     IN  IF ~Holds(id, Growable) THEN Yields(2, HeapFault(id)) /\ Rest
         ELSE LET items == heap[id].items IN
              IF index >= Len(items) THEN Yields(2, Failure("IndexOutOfBounds")) /\ Rest
              ELSE Writes(2, id, SubSeq(items, 1, index) \o SubSeq(items, index + 2, Len(items)))

LenOf ==
  /\ Ready("Len")
  /\ LET id == Val(Operand(1))
     IN  Yields(1, IF id \notin DOMAIN heap THEN HeapFault(id)
                   ELSE IF heap[id].kind = "String" THEN Fit(Len(heap[id].bytes))
                   ELSE Fit(Len(heap[id].items)))
  /\ Rest

Tag ==
  /\ Ready("Tag")
  /\ LET id == Val(Operand(1))
     IN  Yields(1, IF Holds(id, {"Adt"}) THEN Fit(heap[id].tag) ELSE HeapFault(id))
  /\ Rest
-----------------------------------------------------------------------------
(* Calls.  An unchecked build lets the top of a frame wrap below zero: it is  *)
(* kept negative here, and lies above every stack there.                      *)
FrameTopOfCallee(arity) == Len(stack) - 1
FrameTop(arity) == Len(stack) - 1 - arity

Call ==
  /\ Ready("Call")
  /\ LET id == Val(Operand(1))
     IN  IF id >= Len(unit.fns) THEN Fails("InvalidFnRef", Below(1)) /\ UNCHANGED frames
         ELSE LET top == FrameTop(unit.fns[id + 1].arity) IN
              IF Checked /\ top < 0 THEN Panics(Below(1)) /\ UNCHANGED frames
              ELSE /\ frames' = Append(frames, [top |-> top, savedpc |-> ip + 1])
                   /\ Goes(Below(1), unit.fns[id + 1].entry)
  /\ UNCHANGED <<unit, heap>>

Frame == frames[Len(frames)]
TruncatedNever(s, len) == s
Truncated(s, len) == IF len \in 0..Len(s) THEN SubSeq(s, 1, len) ELSE s

Ret ==
  /\ Ready("Ret")
  /\ IF frames = << >> THEN Fails("CallStackUnderflow", stack) /\ UNCHANGED frames
     ELSE /\ frames' = SubSeq(frames, 1, Len(frames) - 1)
          /\ IF stack = << >> THEN Fails("StackUnderflow", stack)
             ELSE IF Checked /\ Len(stack) - 1 < Frame.top THEN Panics(Below(1))
             ELSE Goes(Append(Truncated(Below(1), Frame.top), Operand(1)), Frame.savedpc)
  /\ UNCHANGED <<unit, heap>>

(* A local is a slot counted from the top of the frame.                       *)
SlotFromStart == Arg + 1
Slot == Frame.top + Arg + 1

GetLocal ==
  /\ Ready("GetLocal")
  /\ Yields(0, IF frames = << >> THEN Failure("CallStackUnderflow")
               ELSE IF Slot \notin DOMAIN stack THEN Failure("InvalidLocalIndex")
               ELSE stack[Slot])
  /\ Rest

SetLocal ==
  /\ Ready("SetLocal")
  /\ IF frames = << >> THEN Fails("CallStackUnderflow", Below(1))
     ELSE IF Slot \notin DOMAIN Below(1) THEN Fails("InvalidLocalIndex", Below(1))
     ELSE Goes([Below(1) EXCEPT ![Slot] = Operand(1)], ip + 1)
  /\ Rest

Next ==
  \/ BadOperand \/ OutOfProgram
  \/ Nop \/ Halt \/ Push \/ Pop \/ Jump \/ JumpIfFalse \/ Dup \/ BinaryOp \/ UnaryOp \/ Is
  \/ LoadString \/ Concat \/ Slice \/ EqualityOp
  \/ Array \/ Adt \/ Index \/ IndexMut \/ Insert \/ Remove \/ LenOf \/ Tag
  \/ Call \/ Ret \/ GetLocal \/ SetLocal

Spec == Init /\ [][Next]_vars
-----------------------------------------------------------------------------
Errors == {"StackUnderflow", "CallStackUnderflow", "InvalidFnRef", "InvalidLocalIndex",
           "InvalidHeapRef", "IndexOutOfBounds", "InvalidUtf8Boundary", "TypeMismatch",
           "DivisionByZero", "ShiftOverflow", "Overflow"}
Frames == [top : Int, savedpc : Nat]
Objects(V) == [kind : {"String"}, bytes : Seq(STRING)]
              \cup [kind : {"Array"}, items : Seq(V)]
              \cup [kind : {"Adt"}, tag : Nat, items : Seq(V)]

(* What each part of the machine holds.                                       *)
TypeOK ==
  /\ ip \in Nat
  /\ stack \in Seq(Value)
  /\ frames \in Seq(Frames)
  /\ heap \in Seq(Objects(Value))
  /\ status \in {"running", "halted", "panic"} \cup Errors

(* Every value the machine can still reach, on the stack or in an object.     *)
Reachable == SetOf(stack) \cup
             UNION {SetOf(heap[id].items) : id \in {k \in DOMAIN heap : heap[k].kind \in Containers}}

(* Every reference leads to an object, whatever the program does with         *)
(* references: InvalidHeapRef is never returned.                              *)
NoDanglingRef ==
  /\ \A v \in Reachable : Kind(v) = "Ref" => Val(v) \in DOMAIN heap
  /\ status # "InvalidHeapRef"

(* Every string on the heap is made of whole characters, through any slicing  *)
(* and joining: a Rust str must be.                                           *)
StringsWhole == \A id \in DOMAIN heap : heap[id].kind = "String" => Whole(heap[id].bytes)

(* An object stays what it is: its kind, the variant and the size of an Adt,  *)
(* and the bytes of a string, which values already read from it rely on.      *)
ObjectsKeepShape ==
  [][\A id \in DOMAIN heap :
       /\ id \in DOMAIN heap' /\ heap'[id].kind = heap[id].kind
       /\ heap[id].kind = "String" => heap'[id] = heap[id]
       /\ heap[id].kind = "Adt" => /\ heap'[id].tag = heap[id].tag
                                  /\ Len(heap'[id].items) = Len(heap[id].items)]_vars
=============================================================================
