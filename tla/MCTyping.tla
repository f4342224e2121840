------------------------------- MODULE MCTyping -------------------------------
(* Programs for Typing. *)
EXTENDS Typing

IntTy == Ty("Int", 0, <<>>)
T(name) == Ty("Name", name, <<>>)
One == [k |-> "Lit", ty |-> IntTy]
True == [k |-> "Lit", ty |-> BoolTy]
P(name) == [k |-> "Path", name |-> name, args |-> None]
At(name, args) == [k |-> "Path", name |-> name, args |-> args]
Ctor(v, args) == [k |-> "Ctor", variant |-> v, args |-> args]
Call(c, es) == [k |-> "Call", callee |-> c, es |-> es]
Tup(es) == [k |-> "Tup", es |-> es]
If(c, a, b) == [k |-> "If", cond |-> c, body |-> a, els |-> b]
Block(stmts) == [k |-> "Block", stmts |-> stmts]
Dot(e, n) == [k |-> "Field", of |-> e, index |-> n]
Return(e) == [k |-> "Ret", es |-> <<e>>]
Expr(e) == [k |-> "Expr", e |-> e]
Semi(e) == [k |-> "Semi", e |-> e]
Id(name) == [k |-> "Ident", name |-> name]
Let(name, init) == [k |-> "Let", pat |-> Id(name), ty |-> None, init |-> init, els |-> None]

Fun(parent, generics, params, ret, body, nested) ==
  [parent |-> parent, generics |-> generics, params |-> params, ret |-> ret, body |-> body, nested |-> nested]
Param(name, ty) == [pat |-> Id(name), ty |-> ty]
NoAdt == [k |-> "Struct", generics |-> <<>>, variants |-> << >>]
-----------------------------------------------------------------------------
(* Two functions that may call themselves and each other. *)
Simple(x, fs) ==
  LET atoms == {P(x), One, P(fs[1])} \cup {P(fs[2])}
      callees == {P(x), P(fs[1]), P(fs[2])}
  IN  {<<Expr(e)>> : e \in
         atoms \cup {Call(c, <<a>>) : c \in callees, a \in {P(x), One}} \cup {Call(P(fs[1]), <<a>>) : a \in {P(fs[1]), P(fs[2])}}
         \cup {Tup(<<P(x), a>>) : a \in atoms \ {One}} \cup {Dot(P(x), 1), Dot(Call(P(fs[2]), <<P(x)>>), 2)}
         \cup {If(c, <<Expr(P(x))>>, Call(P(g), <<a>>)) : c \in {True, P(x)}, g \in {fs[1], fs[2]}, a \in {P(x), One}}}
      \cup {<<Semi(Call(P(fs[1]), <<a>>)), Expr(b)>> : a \in {P(x), One}, b \in {P(x), Call(P(fs[2]), <<One>>)}}
      \cup {<<Let("z", Call(P(fs[2]), <<P(x)>>)), Semi(Return(P("z"))), Expr(P(x))>>}
Pair(gf, tf, bf, gg, tg, bg) ==
  [fns |-> ("f" :> Fun("root", gf, <<Param("x", tf)>>, None, bf, <<>>))
        @@ ("g" :> Fun("root", gg, <<Param("y", tg)>>, None, bg, <<>>)),
   order |-> <<"f", "g">>, adt |-> NoAdt, impls |-> <<>>]
Generic(x, f) ==
  {<<Expr(e)>> : e \in {P(x), Call(At(f, <<IntTy>>), <<One>>), Call(At(f, <<IntTy>>), <<P(x)>>), Call(At(f, <<T("T")>>), <<P(x)>>),
                        Call(At(f, <<Ty("Tuple", 0, <<T("T"), Ty("Infer", 0, <<>>)>>)>>), <<Tup(<<P(x), One>>)>>),
                        At(f, <<IntTy, IntTy>>), Call(P(f), <<Tup(<<P(x), P(f)>>)>>), P("h")}}
(* A parameter that is called with an argument that may bind it. *)
FnOf(a, b) == Ty("Fn", 0, <<a, b>>)
Bent(x, fs) ==
  LET own == Call(P(fs[2]), <<P(x)>>)
  IN  {<<Expr(Call(P(x), <<own>>))>>, <<Semi(Call(P(x), <<own>>)), Expr(P(x))>>, <<Semi(own), Expr(Call(P(x), <<own>>))>>,
       <<Expr(Call(own, <<P(x)>>))>>, <<Let("z", Call(P(x), <<own>>)), Expr(Call(P("z"), <<Call(P(fs[1]), <<P(x)>>)>>))>>}
Calls ==
  {Pair(<<>>, None, b, <<>>, t, c) : b \in Bent("x", <<"f", "g">>), t \in {None, IntTy, FnOf(IntTy, IntTy), FnOf(BoolTy, IntTy)},
                                    c \in Simple("y", <<"g", "f">>) \cup Bent("y", <<"g", "f">>)} \cup
  {Pair(<<>>, None, b, <<>>, None, c) : b \in Simple("x", <<"f", "g">>), c \in Simple("y", <<"g", "f">>)}
  \cup {Pair(<<"T">>, T("T"), b, <<"T">>, T("T"), c) : b \in Generic("x", "g"), c \in Generic("y", "f")}
  \cup {Pair(<<"T">>, None, b, <<>>, None, c) : b \in Simple("x", <<"f", "g">>), c \in {<<Expr(Call(P("f"), <<P("y")>>))>>, <<Expr(P("y"))>>}}
-----------------------------------------------------------------------------
(* A function with one inside it, and one that calls the outer one. *)
Around(outer, inner) ==
  [fns |-> ("g" :> Fun("root", <<>>, <<Param("z", None)>>, None, <<Expr(Call(P("outer"), <<One>>))>>, <<>>))
        @@ ("outer" :> outer) @@ ("inner" :> inner),
   order |-> <<"g", "outer", "inner">>, adt |-> NoAdt, impls |-> <<>>]
InnerBodies == {<<Expr(e)>> : e \in {P("y"), P("x"), Tup(<<P("x"), P("y")>>), Call(P("x"), <<P("y")>>), Call(P("y"), <<P("x")>>),
                                    If(P("x"), <<Expr(P("y"))>>, P("y")), Call(P("outer"), <<P("y")>>), Call(P("inner"), <<P("x")>>),
                                    Call(P("inner"), <<P("y")>>), Call(P("outer"), <<P("x")>>), P("inner"), Return(P("y"))}}
OuterBodies == {<<Expr(e)>> : e \in {P("x"), P("inner"), Call(P("inner"), <<One>>), Call(P("inner"), <<P("x")>>), Call(P("outer"), <<P("x")>>),
                                    Tup(<<Call(P("inner"), <<One>>), Call(P("inner"), <<True>>)>>)}}
               \cup {<<Semi(Call(P("inner"), <<P("x")>>)), Expr(Call(P("x"), <<One>>))>>}
Nested ==
  {Around(Fun("root", g, <<Param("x", tx)>>, None, b, <<"inner">>), Fun("outer", h, <<Param("y", ty)>>, None, c, <<>>)) :
     b \in OuterBodies, c \in InnerBodies,
     g \in {<<"T">>}, tx \in {T("T"), None}, h \in {<<>>, <<"U">>}, ty \in {T("T"), None}}
  \cup {Around(Fun("root", <<>>, <<Param("x", None)>>, None, b, <<"inner">>), Fun("outer", <<>>, <<Param("y", None)>>, None, c, <<>>)) :
          b \in OuterBodies, c \in InnerBodies}
-----------------------------------------------------------------------------
(* A struct or an enum, with its fields, and a function that makes and takes it. *)
Adt(args) == Ty("Adt", 1, args)
Make(v, fields) == [k |-> "Struct", variant |-> v, args |-> None, fields |-> fields]
Given(n, e) == [index |-> n, e |-> e]
Array(es) == [k |-> "Array", es |-> es]
Assign(l, r) == [k |-> "Assign", lhs |-> l, rhs |-> r]
Fields == {<<>>, <<None>>, <<None, None>>, <<T("T"), None>>, <<IntTy, T("T")>>}
Adts == {[k |-> "Struct", generics |-> <<"T">>, variants |-> <<fs>>] : fs \in Fields}
        \cup {[k |-> "Enum", generics |-> <<"T">>, variants |-> <<fs, gs>>] : fs, gs \in Fields}
        \cup {[k |-> "Struct", generics |-> <<>>, variants |-> <<fs>>] : fs \in {<<None>>, <<IntTy, None>>}}
DataBodies ==
  {<<Expr(e)>> : e \in
     {Ctor(1, None), Call(Ctor(1, None), <<P("x")>>), Call(Ctor(1, None), <<One, P("x")>>), Call(Ctor(1, <<IntTy>>), <<One, P("x")>>), Call(Ctor(1, <<IntTy>>), <<True, P("x")>>),
      Dot(Call(Ctor(1, None), <<P("x"), One>>), 2), Dot(P("s"), 1), Dot(P("s"), 2), Make(1, <<Given(1, P("x"))>>),
      Make(1, <<Given(2, One), Given(1, P("x"))>>), Array(<<>>), Array(<<Call(Ctor(1, None), <<P("x")>>), P("s")>>),
      Call(P("f"), <<P("x"), P("s")>>), Call(Dot(P("s"), 1), <<P("x")>>)}}
  \cup {<<Let("z", Ctor(1, None)), Semi(Call(P("z"), <<One, True>>)), Expr(P("z"))>>,
        <<Let("z", None), Semi(Assign(P("z"), P("s"))), Expr(Dot(P("z"), 1))>>,
        <<[Let("z", Tup(<<P("x"), P("s")>>)) EXCEPT !.pat = [k |-> "TuplePat", parts |-> <<Id("a"), [k |-> "Wild"]>>]], Expr(P("a"))>>,
        <<[Let("z", P("s")) EXCEPT !.ty = Adt(<<>>), !.els = <<Semi(Return(P("x")))>>], Expr(P("z"))>>}
Data ==
  {[fns |-> "f" :> Fun("root", <<>>, <<Param("x", None), Param("s", ty)>>, None, b, <<>>), order |-> <<"f">>, adt |-> a, impls |-> <<>>] :
     a \in Adts, b \in DataBodies, ty \in {None, Adt(<<>>)}}
-----------------------------------------------------------------------------
(* Up to two impls of a trait, and a function that takes trait objects. *)
Dyn(args) == Ty("Dyn", 1, args)
Impl(generics, self, args) == [generics |-> generics, self |-> self, args |-> args]
SomeImpls == {Impl(<<>>, IntTy, <<IntTy>>), Impl(<<>>, IntTy, <<BoolTy>>), Impl(<<>>, IntTy, None), Impl(<<"U">>, T("U"), <<T("U")>>),
              Impl(<<"U">>, BoolTy, <<T("U")>>), Impl(<<"U">>, Ty("Tuple", 0, <<T("U"), IntTy>>), <<T("U")>>)}
Coercing ==
  {[fns |-> ("f" :> Fun("root", <<>>, <<Param("d", Dyn(args)), Param("e", Dyn(<<IntTy>>))>>, None, <<Expr(d)>>, <<>>))
         @@ ("g" :> Fun("root", <<>>, <<Param("z", None)>>, None,
              <<[Let("w", a) EXCEPT !.ty = Dyn(<<Ty("Infer", 0, <<>>)>>)], Expr(Call(P("f"), <<P("w"), b>>))>>, <<>>)),
    order |-> <<"g", "f">>, adt |-> [k |-> "Trait", generics |-> <<"T">>, variants |-> <<>>], impls |-> is] :
     args \in {<<>>, <<BoolTy>>, <<Ty("Infer", 0, <<>>)>>}, d \in {P("d"), Call(P("f"), <<One, P("e")>>)},
     a \in {One, P("z"), Tup(<<P("z"), One>>)}, b \in {P("z"), True, P("w"), Tup(<<P("z"), P("z")>>)},
     is \in {<<i>> : i \in SomeImpls} \cup {<<i, j>> : i, j \in SomeImpls}}
-----------------------------------------------------------------------------
Everything == Calls \cup Nested \cup Data \cup Coercing
=============================================================================
