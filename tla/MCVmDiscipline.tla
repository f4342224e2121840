---------------------------- MODULE MCVmDiscipline ----------------------------
(***************************************************************************)
(* Programs that keep the calling convention: one function of one argument *)
(* with every body made of a few building blocks, another it may call, and *)
(* the mutually recursive functions of the tests.                          *)
(***************************************************************************)
EXTENDS VmDiscipline, FiniteSetsExt

PushInt(n) == <<"Push", IntOf(n)>>

(* The function and the depth of each instruction, following the code down.   *)
Annotated(code, fns) ==
  LET u == [code |-> code, strings |-> << >>, fns |-> fns]
      starts == {fns[f].entry : f \in DOMAIN fns}
      fnOf[a \in 0..Len(code)] ==
        IF \E f \in DOMAIN fns : fns[f].entry = a
        THEN CHOOSE f \in DOMAIN fns : fns[f].entry = a
        ELSE IF a <= 1 THEN 0 ELSE fnOf[a - 1]
      depth[a \in 1..Len(code)] ==
        IF a \in starts THEN fns[fnOf[a]].arity
        ELSE IF a = 1 THEN 0
        ELSE LET b == CHOOSE b \in 1..(a - 1) :
                        a \in Follow(u, b) \/ (b = a - 1 /\ \A c \in 1..(a - 1) : a \notin Follow(u, c))
             IN  depth[b] - Takes(u, b) + Leaves(u, b)
  IN  [code |-> code, strings |-> << >>, fns |-> fns, fnOf |-> fnOf, depth |-> depth]

(* f takes one argument; g takes two and calls nothing.                       *)
Blocks ==
  { << PushInt(2) >>, << <<"Dup">> >>, << <<"Pop">> >>, << <<"Add">> >>,
    << <<"GetLocal", 0>> >>, << <<"SetLocal", 0>> >>,
    << <<"GetLocal", 0>>, PushInt(1), <<"Call">> >>,
    << PushInt(1), <<"Call">> >> }
Main == << PushInt(3), PushInt(1), PushInt(0), <<"Call">>, <<"Add">>, <<"Halt">> >>
G == << <<"GetLocal", 1>>, <<"SetLocal", 0>>, PushInt(1), <<"GetLocal", 0>>, <<"Sub">>, <<"Ret">> >>
Calling(body) ==
  Annotated(Main \o G \o body \o << <<"Ret">> >>,
            << [entry |-> Len(Main) + Len(G) + 1, arity |-> 1],
               [entry |-> Len(Main) + 1, arity |-> 2] >>)

Bodies == {a \o b \o c : a \in Blocks, b \in Blocks, c \in Blocks}
CallingUnits == {u \in {Calling(body) : body \in Bodies} : Disciplined(u)}

(* is_even(n) and is_odd(n), n = 3, as in the tests of vm/src/lib.rs.         *)
EvenOdd ==
  LET Half(base, other, start) ==
        << <<"Dup">>, PushInt(0), <<"Eq">>, <<"JumpIfFalse", start + 7>>,
           <<"Pop">>, PushInt(base), <<"Ret">>,
           PushInt(1), <<"Sub">>, PushInt(other), <<"Call">>, <<"Ret">> >>
  IN  Annotated(<< PushInt(3), PushInt(0), <<"Call">>, <<"Halt">> >> \o Half(1, 1, 5) \o Half(0, 0, 17),
                << [entry |-> 5, arity |-> 1], [entry |-> 17, arity |-> 1] >>)

KnownUnits == CallingUnits \cup {EvenOdd}
===============================================================================
