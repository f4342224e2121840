--------------------------------- MODULE MCVm ---------------------------------
(***************************************************************************)
(* Programs for Vm that nobody compiled: a fixed beginning that leaves     *)
(* something to work on, and every continuation by a few instructions.     *)
(***************************************************************************)
EXTENDS Vm

PushInt(n) == <<"Push", IntOf(n)>>
Halted == << <<"Halt">> >>
Endings(n, Instrs) == [1..n -> Instrs]
Program(start, Instrs, n, strings, fns) ==
  {[code |-> start \o end \o Halted, strings |-> strings, fns |-> fns]
     : end \in Endings(n, Instrs)}

(* Containers: an array and an Adt, which may come to hold each other.        *)
ArrayUnits ==
  Program(<< PushInt(1), <<"Push", BoolOf(TRUE)>>, <<"Array", 2>>, PushInt(0) >>,
          {<<"Dup">>, PushInt(1), <<"Index">>, <<"IndexMut">>, <<"Insert">>, <<"Remove">>,
           <<"Len">>, <<"Adt", 1>>, <<"Tag">>, <<"Array", 1>>}, 3, << >>, << >>)
AdtUnits ==
  Program(<< PushInt(1), <<"Array", 1>>, <<"Dup">>, PushInt(0), PushInt(1), PushInt(1),
             <<"Adt", 1>> >>,
          {<<"Dup">>, PushInt(1), <<"IndexMut">>, <<"Insert">>, <<"Index">>, <<"Tag">>,
           <<"Len">>, <<"Remove">>}, 3, << >>, << >>)

(* Strings: "eea" in UTF-8, with the two e of two bytes each, and "a".        *)
StringUnits ==
  Program(<< <<"LoadString", 0>>, <<"LoadString", 1>>, <<"Concat">>, <<"Dup">>, PushInt(1) >>,
          {PushInt(0), PushInt(2), PushInt(4), <<"Slice">>, <<"Concat">>, <<"Len">>, <<"Eq">>,
           <<"LoadString", 1>>}, 4, << <<"e", "~", "e", "~", "a">>, <<"a">> >>, << >>)

(* Calls, locals and returns that agree with nothing, and values of every     *)
(* kind.                                                                      *)
ControlUnits ==
  Program(<< PushInt(1), PushInt(0) >>,
          {PushInt(MinInt), <<"Push", Float>>, <<"Pop">>, <<"Call">>, <<"Ret">>, <<"GetLocal", 0>>,
           <<"SetLocal", 0>>, <<"JumpIfFalse", 3>>, <<"Jump", 9>>, <<"Lt">>, <<"Div">>,
           <<"Neg">>, <<"Is">>, <<"Nop">>}, 3, << >>,
          << [entry |-> 4, arity |-> 1], [entry |-> 3, arity |-> 2] >>)

(* The least integer against -1, and shifts at the width and beyond.          *)
NumberUnits ==
  Program(<< PushInt(MinInt), PushInt(-1) >>,
          {<<op>> : op \in Arithmetic \cup {"Shl", "Shr", "Neg", "Dup"}} \cup {PushInt(Width), PushInt(Width - 1)},
          2, << >>, << >>)

AnyUnits == UNION {ArrayUnits, AdtUnits, StringUnits, ControlUnits, NumberUnits}
===============================================================================
