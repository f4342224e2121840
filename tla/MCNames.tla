------------------------------ MODULE MCNames ------------------------------
(***************************************************************************)
(* The items programs are written from, one set for each question.         *)
(***************************************************************************)
EXTENDS Names

\* Few names, and the same in every family.
Words == {"f", "m", "S", "E", "T", "P", "A"}

T == [name |-> "T", bound |-> <<>>]
TP == [name |-> "T", bound |-> <<"P">>]

Fn(n) == Item("fn", n)
Mod(n) == Item("mod", n)
Unit(n) == [Item("struct", n) EXCEPT !.shape = "unit"]
Record(n) == [Item("struct", n) EXCEPT !.shape = "record"]
Enum(n, vs) == [Item("enum", n) EXCEPT !.variants = vs]
Alias(n, path) == [Item("alias", n) EXCEPT !.path = path]
Generic(f, g) == [f EXCEPT !.generics = <<g>>]
Returns(f, path) == [f EXCEPT !.path = path]
Branch(path, shape, group) == [path |-> path, shape |-> shape, name |-> NoName, group |-> group]
Uses(trees) == [Item("use", NoName) EXCEPT !.trees = trees]
Use(path) == Uses(<<Branch(path, "simple", 0)>>)
UseAs(path, n) == Uses(<<[Branch(path, "simple", 0) EXCEPT !.name = n]>>)
UseAll(path) == Uses(<<Branch(path, "glob", 0)>>)
Impl(path, trait) == [Item("impl", NoName) EXCEPT !.path = path, !.trait = trait]

\* Names given twice, in both namespaces and at several depths.
Repeated ==
  {Fn("f"), Mod("f"), Unit("f"), Record("f"), Generic(Fn("m"), T), Alias("T", <<"f">>),
   Generic(Enum("f", <<"m", "m">>), T), Item("trait", "f")}

\* Modules and imports of all shapes.
Imports ==
  {Mod("m"), Fn("f"), Unit("S"), Generic(Enum("E", <<"f">>), T),
   Use(<<"m", "f">>), UseAs(<<"m">>, "P"), UseAll(<<"m">>), UseAll(<<"E">>),
   Uses(<<Branch(<<"m">>, "nested", 0), Branch(<<"S">>, "simple", 1), Branch(<<"E">>, "glob", 1)>>)}

\* Impls of traits and of types, directly and through an alias.
Impls ==
  {Unit("S"), Item("trait", "P"), Returns(Fn("f"), <<"S", "A">>), Alias("A", <<"S">>), Alias("A", <<>>),
   Impl(<<"S">>, <<"P">>), Impl(<<"A">>, <<>>), Generic(Impl(<<"S">>, <<"P">>), [T EXCEPT !.name = "A"])}

\* Functions with and without self in a trait and an impl of it for every type.
WithSelf(f) == [f EXCEPT !.shape = "self"]
Selves == {Item("trait", "P"), Fn("f"), WithSelf(Fn("f")), Generic(Impl(<<"T">>, <<"P">>), T)}

\* A generic parameter with a bound.
Bounded == {Item("trait", "P"), Fn("f"), Generic(Fn("m"), TP)}

Families ==
  {[items |-> items, most |-> 4] : items \in {Repeated, Imports, Impls, Selves, Bounded}}
=============================================================================
