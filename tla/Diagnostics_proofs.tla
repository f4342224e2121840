-------------------------- MODULE Diagnostics_proofs --------------------------
(***************************************************************************)
(* The message of a mismatch shows both conflicting parts, for all types:  *)
(* each part stands in the text of its type, each type in the message, and *)
(* the search for the second is never blocked by the first.                *)
(***************************************************************************)
EXTENDS Diagnostics, Induction, FiniteSetTheorems

Text == Seq(Characters)
StandsAt(n, part, text) ==
  n \in 0..(Len(text) - Len(part)) /\ \A i \in 1..Len(part) : text[n + i] = part[i]
Stands(part, text) == \E n \in Nat : StandsAt(n, part, text)

LEMMA WhereItStands ==
  ASSUME NEW text \in Text, NEW part \in Text
  PROVE  Occurrences(text, part) = {n \in Nat : StandsAt(n, part, text)}
<1> SUFFICES ASSUME NEW n \in 0..(Len(text) - Len(part))
             PROVE  SubSeq(text, n + 1, n + Len(part)) = part <=> \A i \in 1..Len(part) : text[n + i] = part[i]
  <2>1. Len(text) \in Nat /\ Len(part) \in Nat
    BY DEF Text
  <2>2. \A n \in 0..(Len(text) - Len(part)) : n \in Nat
    BY <2>1
  <2> QED BY <2>2 DEF Occurrences, StandsAt
<1> DEFINE s == SubSeq(text, n + 1, n + Len(part))
<1>1. s \in Text /\ Len(s) = Len(part) /\ \A i \in 1..Len(part) : s[i] = text[n + i]
  BY DEF Text
<1> QED BY <1>1 DEF Text

LEMMA StandsWithin ==
  ASSUME NEW a \in Text, NEW b \in Text, NEW c \in Text, NEW m \in Nat, NEW n \in Nat,
         StandsAt(m, a, b), StandsAt(n, b, c)
  PROVE  StandsAt(n + m, a, c)
<1>1. Len(a) \in Nat /\ Len(b) \in Nat /\ Len(c) \in Nat
  BY DEF Text
<1>2. \A i \in 1..Len(a) : m + i \in 1..Len(b)
  BY <1>1 DEF StandsAt
<1>3. \A i \in 1..Len(a) : c[n + (m + i)] = a[i]
  BY <1>1, <1>2 DEF StandsAt
<1>4. \A i \in 1..Len(a) : c[(n + m) + i] = a[i]
  BY <1>1, <1>3
<1> QED BY <1>1, <1>4 DEF StandsAt

LEMMA StandsIsTransitive ==
  ASSUME NEW a \in Text, NEW b \in Text, NEW c \in Text, Stands(a, b), Stands(b, c)
  PROVE  Stands(a, c)
<1>1. PICK m \in Nat, n \in Nat : StandsAt(m, a, b) /\ StandsAt(n, b, c)
  BY DEF Stands
<1>2. StandsAt(n + m, a, c) /\ n + m \in Nat
  BY <1>1, StandsWithin
<1> QED BY <1>2 DEF Stands

LEMMA InAConcatenation ==
  ASSUME NEW a \in Text, NEW b \in Text
  PROVE  /\ a \o b \in Text /\ Len(a \o b) = Len(a) + Len(b)
         /\ StandsAt(0, a, a \o b) /\ StandsAt(Len(a), b, a \o b)
         /\ Stands(a, a \o b) /\ Stands(b, a \o b)
<1>1. a \o b \in Text /\ Len(a \o b) = Len(a) + Len(b) /\ Len(a) \in Nat /\ Len(b) \in Nat
  BY DEF Text
<1>2. \A i \in 1..Len(a) : (a \o b)[0 + i] = a[i]
  BY DEF Text
<1>3. \A i \in 1..Len(b) : (a \o b)[Len(a) + i] = b[i]
  BY DEF Text
<1>4. StandsAt(0, a, a \o b)
  BY <1>1, <1>2 DEF StandsAt
<1>5. StandsAt(Len(a), b, a \o b)
  BY <1>1, <1>3 DEF StandsAt
<1> QED BY <1>1, <1>4, <1>5 DEF Stands
-----------------------------------------------------------------------------
(* FlattenSeq, by its definition by recursion: every sequence it is given     *)
(* stands in what it returns.                                                 *)
LEMMA FlattenIs ==
  ASSUME NEW q \in Seq(Text)
  PROVE  FlattenSeq(q) \in Text /\ \A n \in 1..Len(q) : Stands(q[n], FlattenSeq(q))
<1> DEFINE Flattens(f) == f = [i \in 1..Len(q) |-> IF i = 1 THEN q[i] ELSE f[i - 1] \o q[i]]
<1>1. CASE Len(q) = 0
  BY <1>1 DEF FlattenSeq, Text
<1>2. CASE Len(q) # 0
  <2>1. Len(q) \in Nat \ {0} /\ \A i \in 1..Len(q) : q[i] \in Text
    BY <1>2
  <2>2. \E f : Flattens(f)
    <3> DEFINE step == [x \in (1..Len(q)) \X Text |-> x[2] \o q[x[1]]]
    <3>1. \A n \in 1..Len(q) : \A v \in Text : step[<<n, v>>] = v \o q[n]
      OBVIOUS
    <3>2. \A n \in 1..Len(q) : \A v \in Text : step[<<n, v>>] \in Text
      BY <2>1, <3>1, InAConcatenation
    <3>3. <<>> \in Text /\ Len(q) \in Nat
      BY DEF Text
    <3> HIDE DEF step
    <3>4. PICK f \in [0..Len(q) -> Text] :
             f[0] = <<>> /\ \A n \in 1..Len(q) : f[n] = step[<<n, f[n - 1]>>]
      <4>1. ByRecursion(Len(q), Text, <<>>, step) # {}
        BY <3>2, <3>3, Recursion
      <4> QED BY <4>1 DEF ByRecursion
    <3> DEFINE g == [i \in 1..Len(q) |-> f[i]]
    <3>5. ASSUME NEW i \in 1..Len(q)
          PROVE  f[i] = IF i = 1 THEN q[i] ELSE g[i - 1] \o q[i]
      <4>1. f[i] = f[i - 1] \o q[i]
        <5>1. i - 1 \in 0..Len(q) /\ i \in 0..Len(q)
          BY <2>1
        <5>2. f[i - 1] \in Text /\ f[i] = step[<<i, f[i - 1]>>]
          BY <3>4, <5>1
        <5> QED BY <3>1, <5>2
      <4>2. i = 1 => f[i] = q[i]
        BY <4>1, <3>4, <2>1 DEF Text
      <4>3. i # 1 => f[i - 1] = g[i - 1]
        OBVIOUS
      <4> QED BY <4>1, <4>2, <4>3
    <3>6. Flattens(g)
      BY <3>5
    <3> QED BY <3>6
  <2> DEFINE f == CHOOSE f : Flattens(f)
  <2>3. Flattens(f)
    BY <2>2
  <2>4. FlattenSeq(q) = f[Len(q)]
    BY <1>2 DEF FlattenSeq
  <2> HIDE DEF f
  <2> DEFINE Good == {i \in Nat : i \in 1..Len(q) =>
                        f[i] \in Text /\ \A n \in 1..i : Stands(q[n], f[i])}
  <2>5. 1 \in Good
    <3>1. f[1] = q[1] /\ q[1] \in Text
      BY <2>1, <2>3
    <3>2. StandsAt(0, q[1], q[1])
      BY <3>1 DEF StandsAt, Text
    <3> QED BY <3>1, <3>2 DEF Stands
  <2>6. ASSUME NEW i \in 1..(Len(q) - 1), i \in Good PROVE i + 1 \in Good
    <3>1. i + 1 \in 1..Len(q) /\ i \in 1..Len(q) /\ (i + 1) - 1 = i /\ i + 1 # 1
      BY <2>1
    <3>2. f[i + 1] = f[i] \o q[i + 1]
      BY <2>3, <3>1
    <3>3. f[i] \in Text /\ q[i + 1] \in Text
      BY <2>1, <2>6, <3>1
    <3>4. f[i + 1] \in Text /\ Stands(f[i], f[i + 1]) /\ Stands(q[i + 1], f[i + 1])
      BY <3>2, <3>3, InAConcatenation
    <3>5. ASSUME NEW n \in 1..i PROVE Stands(q[n], f[i + 1])
      <4>1. Stands(q[n], f[i]) /\ q[n] \in Text
        BY <2>1, <2>6, <3>1
      <4> QED BY <3>3, <3>4, <4>1, StandsIsTransitive
    <3>6. \A n \in 1..(i + 1) : n \in 1..i \/ n = i + 1
      BY <3>1
    <3> QED BY <3>4, <3>5, <3>6
  <2>7. \A i \in 1..Len(q) : i \in Good
    <3> HIDE DEF Good
    <3> QED BY <2>1, <2>5, <2>6, UpTo
  <2> QED BY <2>1, <2>4, <2>7
<1> QED BY <1>1, <1>2
-----------------------------------------------------------------------------
(* What a type looks like, from what its arguments look like.                 *)
Looks(t, parts) ==
  CASE t.k = "Name" -> t.name
    [] t.k = "Tuple" -> <<"(">> \o Listed(parts) \o <<")">>
    [] t.k = "Fn" -> <<"F", "(">> \o Listed(Front(parts)) \o <<")", ">">> \o Last(parts)
Parts(f, t) == [n \in DOMAIN t.args |-> f[t.args[n]]]
Below(h) == UNION {TypesUpTo[l] : l \in 1..h}

LEMMA Shape ==
  ASSUME NEW t \in Types
  PROVE  /\ t.k \in {"Name", "Tuple", "Fn"} /\ t.name \in Text /\ t.args \in Seq(Types)
         /\ Len(t.args) \in Nat /\ DOMAIN t.args = 1..Len(t.args)
         /\ t = [k |-> t.k, name |-> t.name, args |-> t.args]
         /\ IF t.k = "Name" THEN t.name # <<>> /\ t.args = <<>> ELSE t.name = <<>>
         /\ t.k = "Fn" => t.args # <<>>
<1>1. PICK h \in DOMAIN TypesUpTo : t \in TypesUpTo[h]
  BY DEF Types
<1>2. t \in [k : {"Name", "Tuple", "Fn"}, name : Text, args : Seq(Types)]
  BY <1>1, TypesAssumption DEF Text
<1>3. /\ IF t.k = "Name" THEN t.name # <<>> /\ t.args = <<>> ELSE t.name = <<>>
      /\ t.k = "Fn" => t.args # <<>>
  BY <1>1, TypesAssumption
<1>4. t.args \in Seq(Types) => Len(t.args) \in Nat /\ DOMAIN t.args = 1..Len(t.args)
  OBVIOUS
<1> QED BY <1>2, <1>3, <1>4

LEMMA Levels ==
  /\ Len(TypesUpTo) \in Nat
  /\ Below(0) = {} /\ Below(Len(TypesUpTo)) = Types
  /\ \A h \in Nat : h <= Len(TypesUpTo) => Below(h) \subseteq Types
  /\ \A h \in Nat : h + 1 <= Len(TypesUpTo) =>
       \A t \in Below(h + 1) : \A n \in DOMAIN t.args : t.args[n] \in Below(h)
<1>1. Len(TypesUpTo) \in Nat /\ DOMAIN TypesUpTo = 1..Len(TypesUpTo)
  BY TypesAssumption
<1>2. Below(0) = {}
  BY DEF Below
<1>3. Below(Len(TypesUpTo)) = Types
  BY <1>1 DEF Below, Types
<1>4. ASSUME NEW h \in Nat, h <= Len(TypesUpTo) PROVE Below(h) \subseteq Types
  <2>1. \A l \in 1..h : l \in 1..Len(TypesUpTo)
    BY <1>1, <1>4
  <2> QED BY <1>1, <2>1 DEF Below, Types
<1>5. ASSUME NEW h \in Nat, h + 1 <= Len(TypesUpTo), NEW t \in Below(h + 1), NEW n \in DOMAIN t.args
      PROVE  t.args[n] \in Below(h)
  <2>1. PICK l \in 1..(h + 1) : t \in TypesUpTo[l]
    BY DEF Below
  <2>2. l \in DOMAIN TypesUpTo
    BY <1>1, <1>5
  <2>3. PICK lower \in 1..(l - 1) : t.args[n] \in TypesUpTo[lower]
    BY <2>1, <2>2, TypesAssumption
  <2>4. lower \in 1..h
    OBVIOUS
  <2> QED BY <2>3, <2>4 DEF Below
<1> QED BY <1>1, <1>2, <1>3, <1>4, <1>5

LEMMA SameParts ==
  ASSUME NEW f, NEW g, NEW t, \A n \in DOMAIN t.args : f[t.args[n]] = g[t.args[n]]
  PROVE  Parts(f, t) = Parts(g, t)
BY DEF Parts

(* There is a function that looks at every type through its arguments.        *)
LEMMA SomethingRenders == \E f : f = [t \in Types |-> Looks(t, Parts(f, t))]
<1> DEFINE S == {h \in Nat : h <= Len(TypesUpTo) =>
                   \E f : \A t \in Below(h) : f[t] = Looks(t, Parts(f, t))}
<1>1. 0 \in S
  BY Levels
<1>2. ASSUME NEW h \in Nat, h \in S PROVE h + 1 \in S
  <2> SUFFICES ASSUME h + 1 <= Len(TypesUpTo)
               PROVE  \E f : \A t \in Below(h + 1) : f[t] = Looks(t, Parts(f, t))
    OBVIOUS
  <2>1. PICK f : \A t \in Below(h) : f[t] = Looks(t, Parts(f, t))
    BY <1>2, Levels
  <2> DEFINE g == [t \in Types |-> IF t \in Below(h) THEN f[t] ELSE Looks(t, Parts(f, t))]
  <2>2. \A t \in Types : g[t] = Looks(t, Parts(f, t))
    BY <2>1
  <2>3. \A t \in Below(h) : t \in Types /\ g[t] = f[t]
    <3>1. h <= Len(TypesUpTo)
      BY Levels
    <3> QED BY <3>1, Levels
  <2> HIDE DEF g
  <2>4. ASSUME NEW t \in Below(h + 1) PROVE g[t] = Looks(t, Parts(g, t))
    <3>1. t \in Types /\ \A n \in DOMAIN t.args : t.args[n] \in Below(h)
      BY Levels
    <3>2. Parts(f, t) = Parts(g, t)
      BY <2>3, <3>1, SameParts
    <3> QED BY <2>2, <3>1, <3>2
  <2> QED BY <2>4
<1>3. Len(TypesUpTo) \in S
  <2> HIDE DEF S
  <2> QED BY <1>1, <1>2, EveryNatural, Levels
<1>4. PICK f : \A t \in Types : f[t] = Looks(t, Parts(f, t))
  BY <1>3, Levels
<1> DEFINE g == [t \in Types |-> f[t]]
<1>5. ASSUME NEW t \in Types PROVE f[t] = Looks(t, Parts(g, t))
  <2>1. \A n \in DOMAIN t.args : t.args[n] \in Types
    BY Shape
  <2>2. \A n \in DOMAIN t.args : f[t.args[n]] = g[t.args[n]]
    BY <2>1
  <2> HIDE DEF g
  <2>3. Parts(f, t) = Parts(g, t)
    BY <2>2, SameParts
  <2> QED BY <1>4, <2>3
<1>6. g = [t \in Types |-> Looks(t, Parts(g, t))]
  BY <1>5
<1> HIDE DEF g
<1> QED BY <1>6

LEMMA RenderIs == \A t \in Types : render[t] = Looks(t, Parts(render, t))
<1>1. render = CHOOSE f : f = [t \in Types |-> Looks(t, Parts(f, t))]
  BY DEF render, Looks, Parts
<1>2. render = [t \in Types |-> Looks(t, Parts(render, t))]
  BY <1>1, SomethingRenders
<1> QED BY <1>2

LEMMA SequenceOf ==
  ASSUME NEW S, NEW n \in Nat, NEW f \in [1..n -> S]
  PROVE  f \in Seq(S) /\ Len(f) = n
OBVIOUS

LEMMA ShortTexts ==
  /\ \A c \in Characters : <<c>> \in Text /\ Len(<<c>>) = 1
  /\ \A c, d \in Characters : <<c, d>> \in Text /\ Len(<<c, d>>) = 2
  /\ \A c, d, e \in Characters : <<c, d, e>> \in Text /\ Len(<<c, d, e>>) = 3
BY DEF Text

LEMMA ListedIs ==
  ASSUME NEW ps \in Seq(Text)
  PROVE  Listed(ps) \in Text /\ \A n \in 1..Len(ps) : Stands(ps[n], Listed(ps))
<1> DEFINE q == [n \in DOMAIN ps |-> IF n = 1 THEN ps[n] ELSE <<",">> \o ps[n]]
<1>1. /\ DOMAIN ps = 1..Len(ps) /\ Len(ps) \in Nat
      /\ \A n \in 1..Len(ps) : ps[n] \in Text
  OBVIOUS
<1>2. <<",">> \in Text
  BY ShortTexts, CharactersAssumption
<1>3. ASSUME NEW n \in 1..Len(ps) PROVE q[n] \in Text /\ Stands(ps[n], q[n])
  <2>1. CASE n = 1
    <3>1. q[n] = ps[n] /\ StandsAt(0, ps[n], ps[n])
      <4>1. q[n] = ps[n]
        BY <1>1, <2>1
      <4>2. ps[n] \in Text => StandsAt(0, ps[n], ps[n])
        BY DEF StandsAt, Text
      <4> QED BY <1>1, <4>1, <4>2
    <3> QED BY <1>1, <3>1 DEF Stands
  <2>2. CASE n # 1
    <3>1. q[n] = <<",">> \o ps[n]
      BY <1>1, <2>2
    <3> QED BY <1>1, <1>2, <3>1, InAConcatenation
  <2> QED BY <2>1, <2>2
<1>4. q \in Seq(Text) /\ Len(q) = Len(ps)
  <2>1. q \in [1..Len(ps) -> Text]
    <3>1. q = [n \in 1..Len(ps) |-> q[n]]
      BY <1>1
    <3> HIDE DEF q
    <3> QED BY <1>3, <3>1
  <2> HIDE DEF q
  <2> QED BY <1>1, <2>1, SequenceOf
<1>5. Listed(ps) = FlattenSeq(q)
  BY DEF Listed
<1> HIDE DEF q
<1>6. ASSUME NEW n \in 1..Len(ps) PROVE Stands(ps[n], Listed(ps))
  BY <1>1, <1>3, <1>4, <1>5, FlattenIs, StandsIsTransitive
<1> QED BY <1>4, <1>5, <1>6, FlattenIs

(* Between two other texts.                                                   *)
LEMMA InTheMiddle ==
  ASSUME NEW a \in Text, NEW b \in Text, NEW c \in Text
  PROVE  a \o b \o c \in Text /\ Stands(b, a \o b \o c) /\ Len(a \o b \o c) = Len(a) + Len(b) + Len(c)
<1>1. a \o b \in Text /\ Stands(b, a \o b) /\ Len(a \o b) = Len(a) + Len(b)
  BY InAConcatenation
<1>2. (a \o b) \o c \in Text /\ Stands(a \o b, (a \o b) \o c) /\ Len((a \o b) \o c) = Len(a \o b) + Len(c)
  BY <1>1, InAConcatenation
<1> QED BY <1>1, <1>2, StandsIsTransitive

(* Every type has a text, of at least one character, in which the texts of    *)
(* its arguments stand.                                                       *)
LEMMA LooksIs ==
  ASSUME NEW t \in Types, NEW parts \in Seq(Text), Len(parts) = Len(t.args)
  PROVE  /\ Looks(t, parts) \in Text /\ Looks(t, parts) # <<>>
         /\ \A n \in 1..Len(parts) : Stands(parts[n], Looks(t, parts))
<1>1. CASE t.k = "Name"
  <2>1. Looks(t, parts) = t.name /\ Len(parts) = 0
    BY <1>1, Shape DEF Looks
  <2> QED BY <1>1, <2>1, Shape
<1>2. CASE t.k = "Tuple"
  <2>1. Looks(t, parts) = <<"(">> \o Listed(parts) \o <<")">>
    BY <1>2 DEF Looks
  <2>2. <<"(">> \in Text /\ <<")">> \in Text /\ Len(<<"(">>) = 1
    BY ShortTexts, CharactersAssumption
  <2>3. Listed(parts) \in Text /\ Len(Listed(parts)) \in Nat
    BY ListedIs DEF Text
  <2>4. Looks(t, parts) \in Text /\ Stands(Listed(parts), Looks(t, parts)) /\ Len(Looks(t, parts)) # 0
    <3>1. Len(<<")">>) \in Nat
      OBVIOUS
    <3> QED BY <2>1, <2>2, <2>3, <3>1, InTheMiddle
  <2>5. \A n \in 1..Len(parts) : Stands(parts[n], Looks(t, parts))
    <3>1. \A n \in 1..Len(parts) : parts[n] \in Text
      OBVIOUS
    <3> QED BY <2>3, <2>4, <3>1, ListedIs, StandsIsTransitive
  <2> QED BY <2>4, <2>5
<1>3. CASE t.k = "Fn"
  <2>1. Looks(t, parts) = (<<"F", "(">> \o Listed(Front(parts)) \o <<")", ">">>) \o Last(parts)
    BY <1>3 DEF Looks
  <2>2. Len(parts) \in Nat \ {0} /\ Last(parts) \in Text /\ Last(parts) = parts[Len(parts)]
    BY <1>3, Shape DEF Last
  <2>3. /\ Front(parts) \in Seq(Text) /\ Len(Front(parts)) = Len(parts) - 1
        /\ \A n \in 1..(Len(parts) - 1) : Front(parts)[n] = parts[n]
    BY <2>2 DEF Front
  <2>4. Listed(Front(parts)) \in Text /\ Len(Listed(Front(parts))) \in Nat
    BY <2>3, ListedIs DEF Text
  <2> DEFINE before == <<"F", "(">> \o Listed(Front(parts)) \o <<")", ">">>
  <2>5. before \in Text /\ Stands(Listed(Front(parts)), before) /\ Len(before) \in Nat \ {0}
    <3>1. <<"F", "(">> \in Text /\ <<")", ">">> \in Text /\ Len(<<"F", "(">>) = 2 /\ Len(<<")", ">">>) = 2
      BY ShortTexts, CharactersAssumption
    <3> QED BY <2>4, <3>1, InTheMiddle
  <2> HIDE DEF before
  <2>6. /\ Looks(t, parts) \in Text /\ Stands(before, Looks(t, parts)) /\ Stands(Last(parts), Looks(t, parts))
        /\ Len(Looks(t, parts)) = Len(before) + Len(Last(parts)) /\ Len(Last(parts)) \in Nat
    <3>1. Looks(t, parts) = before \o Last(parts)
      BY <2>1 DEF before
    <3>2. Len(Last(parts)) \in Nat
      BY <2>2 DEF Text
    <3> QED BY <2>2, <2>5, <3>1, <3>2, InAConcatenation
  <2>7. ASSUME NEW n \in 1..Len(parts) PROVE Stands(parts[n], Looks(t, parts))
    <3>1. CASE n = Len(parts)
      BY <2>2, <2>6, <3>1
    <3>2. CASE n # Len(parts)
      <4>1. parts[n] \in Text /\ n \in 1..Len(Front(parts)) /\ Front(parts)[n] = parts[n]
        BY <2>2, <2>3, <3>2
      <4>2. Stands(parts[n], Listed(Front(parts)))
        BY <2>3, <4>1, ListedIs
      <4>3. Stands(parts[n], before)
        BY <2>4, <2>5, <4>1, <4>2, StandsIsTransitive
      <4> QED BY <2>5, <2>6, <4>1, <4>3, StandsIsTransitive
    <3> QED BY <3>1, <3>2
  <2>8. Looks(t, parts) # <<>>
    <3>1. Len(Looks(t, parts)) # 0
      BY <2>5, <2>6
    <3> QED BY <3>1
  <2> QED BY <2>6, <2>7, <2>8
<1> QED BY <1>1, <1>2, <1>3, Shape

LEMMA PartsOf ==
  ASSUME NEW t \in Types, NEW f, \A n \in 1..Len(t.args) : f[t.args[n]] \in Text
  PROVE  /\ Parts(f, t) \in Seq(Text) /\ Len(Parts(f, t)) = Len(t.args)
         /\ \A n \in 1..Len(t.args) : Parts(f, t)[n] = f[t.args[n]]
<1>1. Parts(f, t) = [n \in 1..Len(t.args) |-> f[t.args[n]]]
  BY Shape DEF Parts
<1>2. Parts(f, t) \in [1..Len(t.args) -> Text]
  BY <1>1
<1> QED BY <1>1, <1>2, Shape, SequenceOf

LEMMA RenderedText == \A t \in Types : render[t] \in Text /\ render[t] # <<>>
<1> DEFINE S == {h \in Nat : h <= Len(TypesUpTo) => \A t \in Below(h) : render[t] \in Text /\ render[t] # <<>>}
<1>1. 0 \in S
  BY Levels
<1>2. ASSUME NEW h \in Nat, h \in S PROVE h + 1 \in S
  <2> SUFFICES ASSUME h + 1 <= Len(TypesUpTo), NEW t \in Below(h + 1)
               PROVE  render[t] \in Text /\ render[t] # <<>>
    OBVIOUS
  <2>1. t \in Types
    BY Levels
  <2>2. h <= Len(TypesUpTo)
    BY Levels
  <2>3. \A n \in 1..Len(t.args) : render[t.args[n]] \in Text
    BY <1>2, <2>1, <2>2, Levels, Shape
  <2>4. Parts(render, t) \in Seq(Text) /\ Len(Parts(render, t)) = Len(t.args)
    BY <2>1, <2>3, PartsOf
  <2> QED BY <2>1, <2>4, LooksIs, RenderIs
<1>3. Len(TypesUpTo) \in S
  <2> HIDE DEF S
  <2> QED BY <1>1, <1>2, EveryNatural, Levels
<1> QED BY <1>3, Levels

LEMMA ArgumentsStand ==
  ASSUME NEW t \in Types, NEW n \in 1..Len(t.args)
  PROVE  t.args[n] \in Types /\ Stands(render[t.args[n]], render[t])
<1>1. \A m \in 1..Len(t.args) : t.args[m] \in Types
  BY Shape
<1>2. Parts(render, t) \in Seq(Text) /\ Len(Parts(render, t)) = Len(t.args) /\ Parts(render, t)[n] = render[t.args[n]]
  BY <1>1, RenderedText, PartsOf
<1> QED BY <1>1, <1>2, LooksIs, RenderIs
-----------------------------------------------------------------------------
(* The way down to what conflicts.                                            *)
Topmost(p) == p[1].k # p[2].k \/ p[1].args = <<>> \/ Len(p[1].args) # Len(p[2].args)
Unlike(p) == {m \in DOMAIN p[1].args : p[1].args[m] # p[2].args[m]}
Down(p) == <<p[1].args[Min(Unlike(p))], p[2].args[Min(Unlike(p))]>>
Ends(f, p) == IF Topmost(p) THEN p ELSE f[Down(p)]

LEMMA LeastOf ==
  ASSUME NEW S \in SUBSET Nat, S # {}
  PROVE  Min(S) \in S /\ \A m \in S : Min(S) <= m
<1>1. \E n \in S : \A m \in S : n <= m
  BY LeastNatural
<1> QED BY <1>1 DEF Min

LEMMA Deeper ==
  ASSUME NEW p \in Different, ~Topmost(p)
  PROVE  /\ Down(p) \in Different
         /\ \E n \in Nat : n \in 1..Len(p[1].args) /\ n \in 1..Len(p[2].args)
                           /\ Down(p)[1] = p[1].args[n] /\ Down(p)[2] = p[2].args[n]
<1>1. p[1] \in Types /\ p[2] \in Types /\ p[1] # p[2]
  BY DEF Different
<1>2. Len(p[1].args) = Len(p[2].args) /\ p[1].k = p[2].k /\ p[1].args # <<>>
  BY DEF Topmost
<1>3. /\ p[1].args \in Seq(Types) /\ p[2].args \in Seq(Types)
      /\ DOMAIN p[1].args = 1..Len(p[1].args) /\ Len(p[1].args) \in Nat
  BY <1>1, Shape
<1>4. Unlike(p) # {}
  <2> SUFFICES ASSUME Unlike(p) = {} PROVE FALSE
    OBVIOUS
  <2>1. \A m \in 1..Len(p[1].args) : p[1].args[m] = p[2].args[m]
    BY <1>3 DEF Unlike
  <2>2. p[1].args = p[2].args
    BY <1>2, <1>3, <2>1
  <2>3. p[1].k # "Name" /\ p[2].k # "Name"
    BY <1>1, <1>2, Shape
  <2>4. p[1].name = <<>> /\ p[2].name = <<>>
    BY <1>1, <2>3, Shape
  <2>5. p[1] = [k |-> p[1].k, name |-> p[1].name, args |-> p[1].args]
    BY <1>1, Shape
  <2>6. p[2] = [k |-> p[2].k, name |-> p[2].name, args |-> p[2].args]
    BY <1>1, Shape
  <2>7. p[1] = p[2]
    BY <1>2, <2>2, <2>4, <2>5, <2>6
  <2> QED BY <1>1, <2>7
<1>5. Unlike(p) \in SUBSET Nat
  BY <1>3 DEF Unlike
<1> DEFINE n == Min(Unlike(p))
<1>6. n \in Unlike(p)
  BY <1>4, <1>5, LeastOf
<1> HIDE DEF n
<1>7. n \in 1..Len(p[1].args) /\ n \in Nat /\ p[1].args[n] # p[2].args[n]
  BY <1>3, <1>6 DEF Unlike
<1>8. p[1].args[n] \in Types /\ p[2].args[n] \in Types
  BY <1>2, <1>3, <1>7
<1>9. Down(p) = <<p[1].args[n], p[2].args[n]>>
  BY DEF Down, n
<1> QED BY <1>2, <1>7, <1>8, <1>9 DEF Different

LEMMA DeeperIsBelow ==
  ASSUME NEW h \in Nat, h + 1 <= Len(TypesUpTo), NEW p \in Different, p[1] \in Below(h + 1), ~Topmost(p)
  PROVE  Down(p)[1] \in Below(h)
<1>1. p[1] \in Types
  BY DEF Different
<1> QED BY <1>1, Deeper, Shape, Levels

LEMMA SomethingConflicts == \E f : f = [p \in Different |-> Ends(f, p)]
<1> DEFINE S == {h \in Nat : h <= Len(TypesUpTo) =>
                   \E f : \A p \in Different : p[1] \in Below(h) => f[p] = Ends(f, p)}
<1>1. 0 \in S
  BY Levels
<1>2. ASSUME NEW h \in Nat, h \in S PROVE h + 1 \in S
  <2> SUFFICES ASSUME h + 1 <= Len(TypesUpTo)
               PROVE  \E f : \A p \in Different : p[1] \in Below(h + 1) => f[p] = Ends(f, p)
    OBVIOUS
  <2>1. PICK f : \A p \in Different : p[1] \in Below(h) => f[p] = Ends(f, p)
    BY <1>2, Levels
  <2> DEFINE g == [p \in Different |-> IF p[1] \in Below(h) THEN f[p] ELSE Ends(f, p)]
  <2>2. \A p \in Different : g[p] = Ends(f, p)
    BY <2>1
  <2>3. \A p \in Different : p[1] \in Below(h) => g[p] = f[p]
    OBVIOUS
  <2> HIDE DEF g
  <2>4. ASSUME NEW p \in Different, p[1] \in Below(h + 1) PROVE g[p] = Ends(g, p)
    <3>1. CASE Topmost(p)
      BY <2>2, <3>1 DEF Ends
    <3>2. CASE ~Topmost(p)
      <4>1. Down(p) \in Different /\ Down(p)[1] \in Below(h)
        BY <2>4, <3>2, Deeper, DeeperIsBelow
      <4> QED BY <2>2, <2>3, <3>2, <4>1 DEF Ends
    <3> QED BY <3>1, <3>2
  <2> QED BY <2>4
<1>3. Len(TypesUpTo) \in S
  <2> HIDE DEF S
  <2> QED BY <1>1, <1>2, EveryNatural, Levels
<1>4. PICK f : \A p \in Different : f[p] = Ends(f, p)
  BY <1>3, Levels DEF Different
<1> DEFINE g == [p \in Different |-> f[p]]
<1>5. ASSUME NEW p \in Different PROVE f[p] = Ends(g, p)
  BY <1>4, Deeper DEF Ends
<1>6. g = [p \in Different |-> Ends(g, p)]
  BY <1>5
<1> HIDE DEF g
<1> QED BY <1>6

LEMMA ConflictIs == \A p \in Different : Conflict[p] = Ends(Conflict, p)
<1>1. Conflict = CHOOSE f : f = [p \in Different |-> Ends(f, p)]
  BY DEF Conflict, Ends, Topmost, Down, Unlike
<1>2. Conflict = [p \in Different |-> Ends(Conflict, p)]
  BY <1>1, SomethingConflicts
<1> QED BY <1>2

(* What conflicts are parts of the two types, and stand in their texts.       *)
Inside(c, p) ==
  /\ c \in Types \X Types
  /\ Stands(render[c[1]], render[p[1]]) /\ Stands(render[c[2]], render[p[2]])

LEMMA ConflictStands == \A p \in Different : Inside(Conflict[p], p)
<1> DEFINE S == {h \in Nat : h <= Len(TypesUpTo) =>
                   \A p \in Different : p[1] \in Below(h) => Inside(Conflict[p], p)}
<1>1. 0 \in S
  BY Levels
<1>2. ASSUME NEW h \in Nat, h \in S PROVE h + 1 \in S
  <2> SUFFICES ASSUME h + 1 <= Len(TypesUpTo), NEW p \in Different, p[1] \in Below(h + 1)
               PROVE  Inside(Conflict[p], p)
    OBVIOUS
  <2>1. p \in Types \X Types /\ p[1] \in Types /\ p[2] \in Types
    BY DEF Different
  <2>2. CASE Topmost(p)
    <3>1. Conflict[p] = p
      BY <2>2, ConflictIs DEF Ends
    <3>2. ASSUME NEW a \in Text PROVE Stands(a, a)
      <4>1. StandsAt(0, a, a)
        BY DEF StandsAt, Text
      <4> QED BY <4>1 DEF Stands
    <3> QED BY <2>1, <3>1, <3>2, RenderedText DEF Inside
  <2>3. CASE ~Topmost(p)
    <3> DEFINE c == Conflict[p]
               d == Down(p)
    <3>1. d \in Different /\ d[1] \in Below(h)
      BY <2>3, Deeper, DeeperIsBelow
    <3>2. c = Conflict[d]
      BY <2>3, ConflictIs DEF Ends
    <3>3. Inside(c, d)
      BY <1>2, <3>1, <3>2, Levels
    <3>4. /\ d[1] \in Types /\ Stands(render[d[1]], render[p[1]])
          /\ d[2] \in Types /\ Stands(render[d[2]], render[p[2]])
      BY <2>1, <2>3, Deeper, ArgumentsStand
    <3> HIDE DEF c, d
    <3>5. c \in Types \X Types /\ c[1] \in Types /\ c[2] \in Types
      BY <3>3 DEF Inside
    <3>6. Stands(render[c[1]], render[p[1]])
      BY <2>1, <3>3, <3>4, <3>5, RenderedText, StandsIsTransitive DEF Inside
    <3>7. Stands(render[c[2]], render[p[2]])
      BY <2>1, <3>3, <3>4, <3>5, RenderedText, StandsIsTransitive DEF Inside
    <3> QED BY <3>5, <3>6, <3>7 DEF Inside, c
  <2> QED BY <2>2, <2>3
<1>3. Len(TypesUpTo) \in S
  <2> HIDE DEF S
  <2> QED BY <1>1, <1>2, EveryNatural, Levels
<1> QED BY <1>3, Levels DEF Different
-----------------------------------------------------------------------------
(* The search for a part in the message.                                      *)
Ranges == [start : Nat, end : Nat]
Reads(r, part, text) == r \in Ranges /\ r.end = r.start + Len(part) /\ StandsAt(r.start, part, text)
Apart(r, s) == r.end <= s.start \/ s.end <= r.start

LEMMA Overlapping ==
  ASSUME NEW claimed, NEW r
  PROVE  overlaps(claimed, r) <=> \E c \in claimed : c.start < r.end /\ r.start < c.end
BY DEF overlaps

(* A part is found when its container stands somewhere in the message where   *)
(* it meets nothing that is claimed, and no later than there.                 *)
LEMMA LocateFinds ==
  ASSUME NEW container \in Text, NEW fragment \in Text, NEW claimed \in SUBSET Ranges, NEW m \in Nat,
         message \in Text, Stands(fragment, container), StandsAt(m, container, message),
         \A c \in claimed : c.end <= m
  PROVE  LET r == locate(container, fragment, claimed)
         IN  /\ Reads(r, fragment, message) /\ r.end <= m + Len(container)
             /\ \A c \in claimed : ~(c.start < r.end /\ r.start < c.end)
<1> DEFINE k == Min(Occurrences(container, fragment))
           In(start) == Range0(start + k, fragment)
           open == {s \in Occurrences(message, container) :
                      ~overlaps(claimed, Range0(s, container)) /\ ~overlaps(claimed, In(s))}
<1>0. Len(container) \in Nat /\ Len(fragment) \in Nat
  BY DEF Text
<1>1. Occurrences(container, fragment) = {n \in Nat : StandsAt(n, fragment, container)}
  BY WhereItStands
<1>2. Occurrences(container, fragment) \in SUBSET Nat /\ Occurrences(container, fragment) # {}
  BY <1>1 DEF Stands
<1>3. k \in Nat /\ StandsAt(k, fragment, container)
  BY <1>1, <1>2, LeastOf
<1>4. k + Len(fragment) <= Len(container)
  BY <1>0, <1>3 DEF StandsAt
<1> HIDE DEF k
<1>5. Occurrences(message, container) = {n \in Nat : StandsAt(n, container, message)}
  BY WhereItStands
<1>6. \A s \in Nat : In(s) = [start |-> s + k, end |-> (s + k) + Len(fragment)]
  BY DEF Range0
<1>7. m \in open
  <2>1. m \in Occurrences(message, container)
    BY <1>5
  <2>2. \A c \in claimed : c.end \in Nat /\ c.start \in Nat
    BY DEF Ranges
  <2>3. ~overlaps(claimed, Range0(m, container))
    BY <1>0, <2>2, Overlapping DEF Range0
  <2>4. ~overlaps(claimed, In(m))
    <3>1. In(m).start = m + k
      BY DEF Range0
    <3>2. \A c \in claimed : ~(In(m).start < c.end)
      BY <1>3, <2>2, <3>1
    <3> QED BY <3>2, Overlapping
  <2> QED BY <2>1, <2>3, <2>4
<1>8. open \in SUBSET Nat
  BY <1>5
<1>9. locate(container, fragment, claimed) = In(Min(open))
  BY <1>2, <1>7 DEF locate, k
<1>10. Min(open) \in open /\ Min(open) <= m
  BY <1>7, <1>8, LeastOf
<1>11. PICK s \in Nat : s = Min(open)
  BY <1>8, <1>10
<1> DEFINE r == In(s)
<1>12. StandsAt(s, container, message) /\ ~overlaps(claimed, r) /\ s <= m
  BY <1>5, <1>10, <1>11
<1> HIDE DEF open
<1>13. r = [start |-> s + k, end |-> (s + k) + Len(fragment)]
  BY <1>6
<1>14. StandsAt(s + k, fragment, message)
  BY <1>3, <1>12, StandsWithin
<1> HIDE DEF In, r
<1>15. Reads(r, fragment, message)
  BY <1>0, <1>3, <1>13, <1>14 DEF Reads, Ranges
<1>16. r.end <= m + Len(container)
  BY <1>0, <1>3, <1>4, <1>12, <1>13
<1>17. locate(container, fragment, claimed) = r
  BY <1>9, <1>11 DEF r
<1> QED BY <1>12, <1>15, <1>16, <1>17, Overlapping
-----------------------------------------------------------------------------
(* The message on the command line: painted up to k, coloured at coloured.    *)
Painted(out, text, k, coloured) ==
  /\ out \in Seq(Characters \X BOOLEAN) /\ Len(out) = k
  /\ \A i \in 1..k : out[i] = <<text[i], i \in coloured>>
Paint(text, from, to, colour) == [n \in 1..(to - from) |-> <<text[from + n], colour>>]

LEMMA PaintOn ==
  ASSUME NEW text \in Text, NEW coloured, NEW out, NEW k \in 0..Len(text), NEW to \in k..Len(text),
         NEW colour \in BOOLEAN, Painted(out, text, k, coloured),
         \A i \in (k + 1)..to : (i \in coloured) = colour
  PROVE  Painted(out \o Paint(text, k, to, colour), text, to, coloured)
<1> DEFINE S == Characters \X BOOLEAN
           more == Paint(text, k, to, colour)
<1>1. k \in Nat /\ to \in Nat /\ to - k \in Nat /\ Len(text) \in Nat
  BY DEF Text
<1>2. \A n \in 1..(to - k) : k + n \in (k + 1)..to /\ k + n \in 1..Len(text) /\ text[k + n] \in Characters
  BY <1>1 DEF Text
<1>3. more \in [1..(to - k) -> S] /\ \A n \in 1..(to - k) : more[n] = <<text[k + n], colour>>
  BY <1>2 DEF Paint
<1> HIDE DEF more
<1>4. more \in Seq(S) /\ Len(more) = to - k
  BY <1>1, <1>3, SequenceOf
<1>5. out \in Seq(S) /\ Len(out) = k /\ \A i \in 1..k : out[i] = <<text[i], i \in coloured>>
  BY DEF Painted
<1> HIDE DEF S
<1>6. /\ out \o more \in Seq(S) /\ Len(out \o more) = to
      /\ \A i \in 1..to : (out \o more)[i] = IF i <= k THEN out[i] ELSE more[i - k]
  BY <1>1, <1>4, <1>5
<1>7. ASSUME NEW i \in 1..to PROVE (out \o more)[i] = <<text[i], i \in coloured>>
  <2>1. CASE i <= k
    BY <1>5, <1>6, <2>1
  <2>2. CASE ~(i <= k)
    <3>1. i - k \in 1..(to - k) /\ k + (i - k) = i /\ i \in (k + 1)..to
      BY <1>1, <2>2
    <3>2. (out \o more)[i] = <<text[i], colour>>
      BY <1>3, <1>6, <2>2, <3>1
    <3> QED BY <3>1, <3>2
  <2> QED BY <2>1, <2>2
<1> QED BY <1>6, <1>7 DEF Painted, S, more

(* Two ranges that share nothing, the earlier one first.                      *)
Places(a, b, text) ==
  /\ a \in Ranges /\ b \in Ranges
  /\ a.start < a.end /\ a.end <= b.start /\ b.start < b.end /\ b.end <= Len(text)

LEMMA TheirOrder ==
  ASSUME NEW a \in Ranges, NEW b \in Ranges, a.start < b.start
  PROVE  Cardinality({a, b}) = 2 /\ InOrder({a, b})[1] = a /\ InOrder({a, b})[2] = b
<1>1. a # b /\ a.start \in Nat /\ b.start \in Nat
  BY DEF Ranges
<1>2. Cardinality({a, b}) = 2
  <2>1. Cardinality({a}) = 1 /\ IsFiniteSet({a})
    BY FS_Singleton
  <2>2. Cardinality({a} \cup {b}) = Cardinality({a}) + 1
    BY <1>1, <2>1, FS_AddElement
  <2>3. {a} \cup {b} = {a, b}
    OBVIOUS
  <2> QED BY <2>1, <2>2, <2>3
<1> DEFINE Ordered(q) == \A m, n \in DOMAIN q : m < n => q[m] # q[n] /\ q[m].start <= q[n].start
           q == InOrder({a, b})
           p == [n \in 1..2 |-> IF n = 1 THEN a ELSE b]
<1>3. p \in [1..2 -> {a, b}] /\ Ordered(p)
  <2>1. p \in [1..2 -> {a, b}] /\ p[1] = a /\ p[2] = b
    OBVIOUS
  <2>2. \A m, n \in 1..2 : m < n => m = 1 /\ n = 2
    OBVIOUS
  <2> HIDE DEF p
  <2> QED BY <1>1, <2>1, <2>2
<1>4. q \in [1..2 -> {a, b}] /\ Ordered(q)
  <2>1. q = CHOOSE r \in [1..2 -> {a, b}] : Ordered(r)
    BY <1>2 DEF InOrder
  <2> HIDE DEF p, q
  <2> QED BY <1>3, <2>1
<1> HIDE DEF q
<1>5. q[1] \in {a, b} /\ q[2] \in {a, b} /\ q[1] # q[2] /\ q[1].start <= q[2].start
  <2>1. 1 \in DOMAIN q /\ 2 \in DOMAIN q
    BY <1>4
  <2> QED BY <1>4, <2>1
<1> QED BY <1>1, <1>2, <1>5 DEF q

LEMMA EmphasizePaints ==
  ASSUME NEW text \in Text, NEW a, NEW b, Places(a, b, text)
  PROVE  Painted(emphasize(text, {a, b}), text, Len(text), ((a.start + 1)..a.end) \cup ((b.start + 1)..b.end))
<1> DEFINE coloured == ((a.start + 1)..a.end) \cup ((b.start + 1)..b.end)
           s == InOrder({a, b})
           On(v, r) == [out |-> v.out \o Paint(text, v.cursor, r.start, FALSE) \o Paint(text, r.start, r.end, TRUE),
                        cursor |-> r.end]
           Next1(v, r) == IF r.start < v.cursor \/ r.end > Len(text) THEN v ELSE On(v, r)
           Shows(f) == f = [n \in 0..2 |-> IF n = 0 THEN [out |-> <<>>, cursor |-> 0] ELSE Next1(f[n - 1], s[n])]
           v0 == [out |-> <<>>, cursor |-> 0]
           v1 == On(v0, a)
           v2 == On(v1, b)
<1>1. /\ a.start \in Nat /\ a.end \in Nat /\ b.start \in Nat /\ b.end \in Nat /\ Len(text) \in Nat
      /\ a.start < a.end /\ a.end <= b.start /\ b.start < b.end /\ b.end <= Len(text)
      /\ a \in Ranges /\ b \in Ranges
  BY DEF Places, Ranges, Text
<1>2. Cardinality({a, b}) = 2 /\ s[1] = a /\ s[2] = b
  <2>1. a.start < b.start
    BY <1>1
  <2> QED BY <1>1, <2>1, TheirOrder
<1> HIDE DEF s
<1>3. v0.cursor = 0 /\ v1.cursor = a.end /\ v2.cursor = b.end
  OBVIOUS
<1>4. Next1(v0, a) = v1 /\ Next1(v1, b) = v2
  BY <1>1, <1>3
<1> HIDE DEF v0, v1, v2, On
<1>5. \A n \in 0..2 : n = 0 \/ n = 1 \/ n = 2
  OBVIOUS
<1>6. \E f : Shows(f)
  <2> DEFINE f == [n \in 0..2 |-> IF n = 0 THEN v0 ELSE IF n = 1 THEN v1 ELSE v2]
  <2>1. f[0] = v0 /\ f[1] = v1 /\ f[2] = v2
    OBVIOUS
  <2>2. ASSUME NEW n \in 0..2
        PROVE  f[n] = IF n = 0 THEN [out |-> <<>>, cursor |-> 0] ELSE Next1(f[n - 1], s[n])
    <3> HIDE DEF f, Next1
    <3>1. CASE n = 0
      BY <2>1, <3>1 DEF v0
    <3>2. CASE n = 1
      BY <1>2, <1>4, <2>1, <3>2
    <3>3. CASE n = 2
      BY <1>2, <1>4, <2>1, <3>3
    <3> QED BY <1>5, <3>1, <3>2, <3>3
  <2>3. f = [n \in 0..2 |-> f[n]]
    OBVIOUS
  <2> HIDE DEF f, Next1
  <2>4. Shows(f)
    BY <2>2, <2>3
  <2> HIDE DEF Shows
  <2> QED BY <2>4
<1> DEFINE f == CHOOSE f : Shows(f)
<1>7. Shows(f)
  <2> HIDE DEF Shows
  <2> QED BY <1>6
<1>8. emphasize(text, {a, b}) = f[2].out \o Paint(text, f[2].cursor, Len(text), FALSE)
  <2> DEFINE N == Cardinality({a, b})
             g == CHOOSE h : h = [n \in 0..N |-> IF n = 0 THEN [out |-> <<>>, cursor |-> 0] ELSE Next1(h[n - 1], s[n])]
  <2>1. emphasize(text, {a, b}) = g[N].out \o Paint(text, g[N].cursor, Len(text), FALSE)
    BY DEF emphasize, Paint, On, s
  <2>2. N = 2
    BY <1>2
  <2> HIDE DEF N, Next1
  <2>3. g = f
    BY <2>2
  <2> HIDE DEF g, f
  <2> QED BY <2>1, <2>2, <2>3
<1> HIDE DEF f
<1>9. f[2] = v2
  <2> HIDE DEF Next1
  <2>1. f[0] = v0
    BY <1>7 DEF v0
  <2>2. f[1] = Next1(f[0], s[1])
    BY <1>7
  <2>3. f[2] = Next1(f[1], s[2])
    BY <1>7
  <2> QED BY <1>2, <1>4, <2>1, <2>2, <2>3
<1> HIDE DEF Next1
<1>10. Painted(<<>>, text, 0, coloured)
  BY DEF Painted
<1> DEFINE o1 == <<>> \o Paint(text, 0, a.start, FALSE)
           o2 == o1 \o Paint(text, a.start, a.end, TRUE)
           o3 == o2 \o Paint(text, a.end, b.start, FALSE)
           o4 == o3 \o Paint(text, b.start, b.end, TRUE)
<1>11. v1.out = o2 /\ v2.out = o4
  <2>1. v1.out = o2
    BY <1>3 DEF v0, v1, On
  <2> QED BY <1>3, <2>1 DEF v2, On
<1> HIDE DEF o1, o2, o3, o4
<1>12. Painted(o1, text, a.start, coloured)
  <2>1. \A i \in (0 + 1)..a.start : (i \in coloured) = FALSE
    BY <1>1
  <2>2. 0 \in 0..Len(text) /\ a.start \in 0..Len(text)
    BY <1>1
  <2> HIDE DEF coloured
  <2> QED BY <1>10, <2>1, <2>2, PaintOn DEF o1
<1>13. Painted(o2, text, a.end, coloured)
  <2>1. \A i \in (a.start + 1)..a.end : (i \in coloured) = TRUE
    BY <1>1
  <2>2. a.start \in 0..Len(text) /\ a.end \in a.start..Len(text)
    BY <1>1
  <2> HIDE DEF coloured
  <2> QED BY <1>12, <2>1, <2>2, PaintOn DEF o2
<1>14. Painted(o3, text, b.start, coloured)
  <2>1. \A i \in (a.end + 1)..b.start : (i \in coloured) = FALSE
    BY <1>1
  <2>2. a.end \in 0..Len(text) /\ b.start \in a.end..Len(text)
    BY <1>1
  <2> HIDE DEF coloured
  <2> QED BY <1>13, <2>1, <2>2, PaintOn DEF o3
<1>15. Painted(o4, text, b.end, coloured)
  <2>1. \A i \in (b.start + 1)..b.end : (i \in coloured) = TRUE
    BY <1>1
  <2>2. b.start \in 0..Len(text) /\ b.end \in b.start..Len(text)
    BY <1>1
  <2> HIDE DEF coloured
  <2> QED BY <1>14, <2>1, <2>2, PaintOn DEF o4
<1>16. Painted(o4 \o Paint(text, b.end, Len(text), FALSE), text, Len(text), coloured)
  <2>1. \A i \in (b.end + 1)..Len(text) : (i \in coloured) = FALSE
    BY <1>1
  <2>2. b.end \in 0..Len(text) /\ Len(text) \in b.end..Len(text)
    BY <1>1
  <2> HIDE DEF coloured
  <2> QED BY <1>15, <2>1, <2>2, PaintOn
<1> HIDE DEF coloured
<1> QED BY <1>3, <1>8, <1>9, <1>11, <1>16 DEF coloured
-----------------------------------------------------------------------------
(* Where the two types stand in the message.                                  *)
First == 2
Second == First + Len(render[expected]) + 3

LEMMA MessageIs ==
  ASSUME expected \in Types, found \in Types
  PROVE  /\ message \in Text
         /\ First \in Nat /\ StandsAt(First, render[expected], message)
         /\ Second \in Nat /\ StandsAt(Second, render[found], message)
         /\ First + Len(render[expected]) <= Second
<1> DEFINE open == <<"e", "|">>
           between == <<"|", "f", "|">>
           close == <<"|">>
           R == render[expected]
           S == render[found]
           m1 == open \o R
           m2 == m1 \o between
           m3 == m2 \o S
<1>1. R \in Text /\ S \in Text /\ Len(R) \in Nat /\ Len(S) \in Nat
  BY RenderedText DEF Text
<1>2. open \in Text /\ Len(open) = 2 /\ close \in Text
  BY ShortTexts, CharactersAssumption
<1>3. between \in Text /\ Len(between) = 3
  BY ShortTexts, CharactersAssumption
<1>4. message = m3 \o close
  BY DEF message
<1> HIDE DEF open, between, close, R, S
<1>5. m1 \in Text /\ Len(m1) = 2 + Len(R) /\ StandsAt(2, R, m1)
  <2>1. m1 \in Text /\ Len(m1) = Len(open) + Len(R) /\ StandsAt(Len(open), R, m1)
    BY <1>1, <1>2, InAConcatenation
  <2> QED BY <1>2, <2>1
<1> HIDE DEF m1
<1>6. m2 \in Text /\ Len(m2) = 2 + Len(R) + 3 /\ StandsAt(0, m1, m2)
  <2>1. m2 \in Text /\ Len(m2) = Len(m1) + Len(between) /\ StandsAt(0, m1, m2)
    BY <1>3, <1>5, InAConcatenation
  <2> QED BY <1>3, <1>5, <2>1
<1> HIDE DEF m2
<1>7. m3 \in Text /\ StandsAt(0, m2, m3) /\ StandsAt(2 + Len(R) + 3, S, m3)
  BY <1>1, <1>6, InAConcatenation
<1> HIDE DEF m3
<1>8. message \in Text /\ StandsAt(0, m3, message)
  BY <1>2, <1>4, <1>7, InAConcatenation
<1>9. StandsAt(0 + 2, R, m2)
  BY <1>1, <1>5, <1>6, StandsWithin
<1>10. StandsAt(0 + (0 + 2), R, m3)
  BY <1>1, <1>6, <1>7, <1>9, StandsWithin
<1>11. StandsAt(0 + (0 + (0 + 2)), R, message)
  BY <1>1, <1>7, <1>8, <1>10, StandsWithin
<1>12. StandsAt(0 + (2 + Len(R) + 3), S, message)
  BY <1>1, <1>7, <1>8, StandsWithin
<1>13. 0 + (0 + (0 + 2)) = 2 /\ 0 + (2 + Len(R) + 3) = 2 + Len(R) + 3
  BY <1>1
<1> QED BY <1>1, <1>8, <1>11, <1>12, <1>13 DEF First, Second, R, S
-----------------------------------------------------------------------------
(* The inductive invariant: after each search its part reads right, the first *)
(* no later than the first type and so apart from anything found for the      *)
(* second, which at the latest is found in the second type itself.            *)
Shown(r, part) == Reads(r, render[part], message)

NothingYet ==
  /\ todo = <<<<expected, conflict[1]>>, <<found, conflict[2]>>>>
  /\ emphasis = {} /\ printed = None
FirstShown ==
  /\ todo = <<<<found, conflict[2]>>>> /\ printed = None
  /\ \E r \in Ranges : /\ emphasis = {r} /\ Shown(r, conflict[1])
                       /\ r.end <= First + Len(render[expected])
BothShown ==
  /\ todo = <<>> /\ printed \in {None, emphasize(message, emphasis)}
  /\ \E r, s \in Ranges : /\ emphasis = {r, s} /\ Shown(r, conflict[1]) /\ Shown(s, conflict[2])
                          /\ Apart(r, s)
EmphasisInv ==
  /\ expected \in Types /\ found \in Types /\ expected # found
  /\ NothingYet \/ FirstShown \/ BothShown

LEMMA PartsStand ==
  ASSUME expected \in Types, found \in Types, expected # found
  PROVE  /\ conflict[1] \in Types /\ conflict[2] \in Types
         /\ Stands(render[conflict[1]], render[expected]) /\ Stands(render[conflict[2]], render[found])
<1>1. <<expected, found>> \in Different
  BY DEF Different
<1>2. Inside(conflict, <<expected, found>>)
  BY <1>1, ConflictStands DEF conflict
<1> QED BY <1>2 DEF Inside

LEMMA NotNone == \A r \in Ranges : r # None
BY NoneAssumption DEF Ranges

(* Each search finds its part.                                                *)
LEMMA FirstIsFound ==
  ASSUME expected \in Types, found \in Types, expected # found
  PROVE  LET r == locate(render[expected], render[conflict[1]], {})
         IN  r \in Ranges /\ Shown(r, conflict[1]) /\ r.end <= First + Len(render[expected])
<1>1. render[expected] \in Text /\ render[conflict[1]] \in Text /\ Stands(render[conflict[1]], render[expected])
  BY PartsStand, RenderedText
<1>2. message \in Text /\ First \in Nat /\ StandsAt(First, render[expected], message)
  BY MessageIs
<1> DEFINE r == locate(render[expected], render[conflict[1]], {})
<1>3. Reads(r, render[conflict[1]], message) /\ r.end <= First + Len(render[expected])
  <2>1. {} \in SUBSET Ranges /\ \A c \in {} : c.end <= First
    OBVIOUS
  <2> QED BY <1>1, <1>2, <2>1, LocateFinds
<1> QED BY <1>3 DEF Shown, Reads

LEMMA SecondIsFound ==
  ASSUME expected \in Types, found \in Types, expected # found,
         NEW r \in Ranges, Shown(r, conflict[1]), r.end <= First + Len(render[expected])
  PROVE  LET s == locate(render[found], render[conflict[2]], {r})
         IN  s \in Ranges /\ Shown(s, conflict[2]) /\ Apart(r, s)
<1>1. render[found] \in Text /\ render[conflict[2]] \in Text /\ Stands(render[conflict[2]], render[found])
  BY PartsStand, RenderedText
<1>2. /\ message \in Text /\ Second \in Nat /\ StandsAt(Second, render[found], message)
      /\ First + Len(render[expected]) <= Second /\ First \in Nat
  BY MessageIs
<1>3. {r} \in SUBSET Ranges /\ \A c \in {r} : c.end <= Second
  <2>1. Len(render[expected]) \in Nat /\ r.end \in Nat
    BY RenderedText DEF Text, Ranges
  <2> QED BY <1>2, <2>1
<1> DEFINE s == locate(render[found], render[conflict[2]], {r})
<1>4. Reads(s, render[conflict[2]], message) /\ \A c \in {r} : ~(c.start < s.end /\ s.start < c.end)
  BY <1>1, <1>2, <1>3, LocateFinds
<1> HIDE DEF s
<1>5. s \in Ranges
  BY <1>4 DEF Reads
<1>6. Apart(r, s)
  BY <1>4, <1>5 DEF Apart, Ranges
<1> QED BY <1>4, <1>5, <1>6 DEF Shown, s

LEMMA EmphasisInit == Init => EmphasisInv
BY DEF Init, EmphasisInv, NothingYet

LEMMA EmphasisStep == EmphasisInv /\ [Next]_vars => EmphasisInv'
<1> SUFFICES ASSUME EmphasisInv, [Next]_vars PROVE EmphasisInv'
  OBVIOUS
<1>1. expected \in Types /\ found \in Types /\ expected # found
  BY DEF EmphasisInv
<1>2. CASE Emphasize
  <2>1. expected' = expected /\ found' = found /\ printed' = printed
    BY <1>2 DEF Emphasize
  <2>2. message' = message /\ conflict' = conflict /\ First' = First
    BY <2>1 DEF message, conflict, First
  <2>3. CASE NothingYet
    <3> DEFINE r == locate(render[expected], render[conflict[1]], {})
    <3>1. Head(todo)[1] = expected /\ Head(todo)[2] = conflict[1] /\ Tail(todo) = <<<<found, conflict[2]>>>>
      BY <2>3 DEF NothingYet
    <3>2. r \in Ranges /\ Shown(r, conflict[1]) /\ r.end <= First + Len(render[expected])
      BY <1>1, FirstIsFound
    <3>3. emphasis' = emphasis \cup {r} /\ todo' = <<<<found, conflict[2]>>>>
      BY <1>2, <2>3, <3>1, <3>2, NotNone DEF Emphasize, NothingYet
    <3> HIDE DEF r
    <3>4. FirstShown'
      BY <2>1, <2>2, <2>3, <3>2, <3>3 DEF NothingYet, FirstShown, Shown
    <3> QED BY <1>1, <2>1, <3>4 DEF EmphasisInv
  <2>4. CASE FirstShown
    <3>1. PICK r \in Ranges : emphasis = {r} /\ Shown(r, conflict[1]) /\ r.end <= First + Len(render[expected])
      BY <2>4 DEF FirstShown
    <3> DEFINE s == locate(render[found], render[conflict[2]], {r})
    <3>2. Head(todo)[1] = found /\ Head(todo)[2] = conflict[2] /\ Tail(todo) = <<>>
      BY <2>4 DEF FirstShown
    <3>3. s \in Ranges /\ Shown(s, conflict[2]) /\ Apart(r, s)
      BY <1>1, <3>1, SecondIsFound
    <3>4. emphasis' = emphasis \cup {s} /\ todo' = <<>>
      BY <1>2, <3>1, <3>2, <3>3, NotNone DEF Emphasize
    <3> HIDE DEF s
    <3>5. emphasis' = {r, s}
      BY <3>1, <3>4
    <3>6. BothShown'
      BY <2>1, <2>2, <2>4, <3>1, <3>3, <3>4, <3>5 DEF FirstShown, BothShown, Shown
    <3> QED BY <1>1, <2>1, <3>6 DEF EmphasisInv
  <2>5. CASE BothShown
    BY <1>2, <2>5 DEF Emphasize, BothShown
  <2> QED BY <2>3, <2>4, <2>5 DEF EmphasisInv
<1>3. CASE Report
  <2>1. /\ expected' = expected /\ found' = found /\ todo' = todo /\ emphasis' = emphasis
        /\ printed' = emphasize(message, emphasis)
    BY <1>3 DEF Report
  <2>2. message' = message /\ conflict' = conflict
    BY <2>1 DEF message, conflict
  <2>3. BothShown
    BY <1>3 DEF Report, EmphasisInv, NothingYet, FirstShown
  <2>4. BothShown'
    <3>1. emphasize(message, emphasis)' = emphasize(message, emphasis)
      BY <2>1, <2>2
    <3> QED BY <2>1, <2>2, <2>3, <3>1 DEF BothShown, Shown
  <2> QED BY <1>1, <2>1, <2>4 DEF EmphasisInv
<1>4. CASE UNCHANGED vars
  <2>1. /\ expected' = expected /\ found' = found /\ todo' = todo /\ emphasis' = emphasis /\ printed' = printed
    BY <1>4 DEF vars
  <2>2. message' = message /\ conflict' = conflict /\ First' = First
    BY <2>1 DEF message, conflict, First
  <2>3. emphasize(message, emphasis)' = emphasize(message, emphasis)
    BY <2>1, <2>2
  <2> QED BY <2>1, <2>2, <2>3 DEF EmphasisInv, NothingYet, FirstShown, BothShown, Shown
<1> QED BY <1>2, <1>3, <1>4 DEF Next

LEMMA ReadsBack ==
  ASSUME NEW text \in Text, NEW part \in Text, NEW r, Reads(r, part, text)
  PROVE  SubSeq(text, r.start + 1, r.end) = part /\ r.end <= Len(text)
<1>1. r.start \in Nat /\ r.end = r.start + Len(part) /\ Len(text) \in Nat /\ Len(part) \in Nat
  BY DEF Reads, Ranges, Text
<1>2. r.start \in Occurrences(text, part)
  BY <1>1, WhereItStands DEF Reads
<1>3. SubSeq(text, r.start + 1, r.start + Len(part)) = part /\ r.start \in 0..(Len(text) - Len(part))
  BY <1>2 DEF Occurrences
<1> QED BY <1>1, <1>3

LEMMA EmphasisFollows == EmphasisInv => EmphasisShown
<1> SUFFICES ASSUME EmphasisInv PROVE EmphasisShown
  OBVIOUS
<1>1. expected \in Types /\ found \in Types /\ expected # found
  BY DEF EmphasisInv
<1>2. CASE NothingYet
  <2>1. Cardinality({}) = 0 /\ Len(todo) = 2 /\ todo # <<>> /\ printed = None /\ emphasis = {}
    BY <1>2, FS_EmptySet DEF NothingYet
  <2> QED BY <2>1 DEF EmphasisShown, EachHasItsPlace, EmphasisReadsRight, PrintsTheMessage
<1>3. CASE FirstShown
  <2>1. PICK r \in Ranges : emphasis = {r}
    BY <1>3 DEF FirstShown
  <2>2. Cardinality({r}) = 1
    BY FS_Singleton
  <2>3. Len(todo) = 1 /\ todo # <<>> /\ printed = None
    BY <1>3 DEF FirstShown
  <2> QED BY <2>1, <2>2, <2>3 DEF EmphasisShown, EachHasItsPlace, EmphasisReadsRight, PrintsTheMessage
<1>4. CASE BothShown
  <2>1. PICK r \in Ranges, s \in Ranges :
           emphasis = {r, s} /\ Shown(r, conflict[1]) /\ Shown(s, conflict[2]) /\ Apart(r, s)
    BY <1>4 DEF BothShown
  <2>2. message \in Text /\ render[conflict[1]] \in Text /\ render[conflict[2]] \in Text
    BY <1>1, MessageIs, PartsStand, RenderedText
  <2>3. /\ SubSeq(message, r.start + 1, r.end) = render[conflict[1]] /\ r.end <= Len(message)
        /\ SubSeq(message, s.start + 1, s.end) = render[conflict[2]] /\ s.end <= Len(message)
    BY <2>1, <2>2, ReadsBack DEF Shown
  <2>4. r.start < r.end /\ s.start < s.end
    <3>1. Len(render[conflict[1]]) > 0 /\ Len(render[conflict[2]]) > 0
      <4>1. render[conflict[1]] # <<>> /\ render[conflict[2]] # <<>>
        BY <1>1, PartsStand, RenderedText
      <4> QED BY <2>2, <4>1 DEF Text
    <3> QED BY <2>1, <3>1 DEF Shown, Reads, Ranges
  <2>5. \E a, b \in Ranges : {r, s} = {a, b} /\ Places(a, b, message)
    <3>1. CASE r.end <= s.start
      <4>1. Places(r, s, message)
        BY <2>3, <2>4, <3>1 DEF Places
      <4> QED BY <4>1
    <3>2. CASE s.end <= r.start
      <4>1. Places(s, r, message) /\ {r, s} = {s, r}
        BY <2>3, <2>4, <3>2 DEF Places
      <4> QED BY <4>1
    <3> QED BY <2>1, <3>1, <3>2 DEF Apart
  <2>6. PICK a \in Ranges, b \in Ranges : emphasis = {a, b} /\ Places(a, b, message)
    BY <2>1, <2>5
  <2>7. EachHasItsPlace
    <3>1. a.start \in Nat /\ b.start \in Nat /\ a.end \in Nat /\ b.end \in Nat
      BY DEF Ranges
    <3>2. Cardinality({a, b}) = 2
      <4>1. a.start < b.start
        BY <2>6, <3>1 DEF Places
      <4> QED BY <4>1, TheirOrder
    <3>3. Len(todo) = 0
      BY <1>4 DEF BothShown
    <3> QED BY <2>6, <3>2, <3>3 DEF EachHasItsPlace, Places
  <2>8. EmphasisReadsRight
    BY <2>1, <2>3 DEF EmphasisReadsRight
  <2>9. PrintsTheMessage
    <3> SUFFICES ASSUME printed # None
                 PROVE  /\ [n \in DOMAIN printed |-> printed[n][1]] = message
                        /\ {n \in DOMAIN printed : printed[n][2]} = UNION {(q.start + 1)..q.end : q \in emphasis}
      BY DEF PrintsTheMessage
    <3> DEFINE coloured == ((a.start + 1)..a.end) \cup ((b.start + 1)..b.end)
    <3>1. Painted(printed, message, Len(message), coloured)
      <4>1. printed = emphasize(message, {a, b})
        BY <1>4, <2>6 DEF BothShown
      <4>2. Painted(emphasize(message, {a, b}), message, Len(message), coloured)
        BY <2>2, <2>6, EmphasizePaints
      <4> QED BY <4>1, <4>2
    <3>2. UNION {(q.start + 1)..q.end : q \in emphasis} = coloured
      BY <2>6
    <3>3. coloured \subseteq 1..Len(message)
      BY <2>2, <2>6 DEF Places, Ranges, Text
    <3> HIDE DEF coloured
    <3>4. DOMAIN printed = 1..Len(message)
      BY <3>1 DEF Painted
    <3>5. \A n \in 1..Len(message) : printed[n][1] = message[n] /\ (printed[n][2] <=> n \in coloured)
      BY <3>1 DEF Painted
    <3>6. message = [n \in 1..Len(message) |-> message[n]]
      BY <2>2 DEF Text
    <3>7. [n \in DOMAIN printed |-> printed[n][1]] = message
      BY <3>4, <3>5, <3>6
    <3>8. {n \in DOMAIN printed : printed[n][2]} = coloured
      BY <3>3, <3>4, <3>5
    <3> QED BY <3>2, <3>7, <3>8
  <2> QED BY <2>7, <2>8, <2>9 DEF EmphasisShown
<1> QED BY <1>2, <1>3, <1>4 DEF EmphasisInv

(* For all types, a mismatch is reported with both conflicting parts in       *)
(* colour, each in a place of its own, and with every other character of the  *)
(* message: locate always finds what Catalog::render asks it for.             *)
THEOREM BothPartsEmphasised == Spec => []EmphasisShown
<1>1. Init => EmphasisInv
  BY EmphasisInit
<1>2. EmphasisInv /\ [Next]_vars => EmphasisInv'
  BY EmphasisStep
<1>3. EmphasisInv => EmphasisShown
  BY EmphasisFollows
<1> QED BY <1>1, <1>2, <1>3, PTL DEF Spec
=============================================================================
