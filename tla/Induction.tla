------------------------------- MODULE Induction -------------------------------
(***************************************************************************)
(* Induction over the natural numbers, for the proofs about what the       *)
(* modules define by recursion: a property is the set of the numbers that  *)
(* have it, and a number that lacks it is led to a least one.              *)
(***************************************************************************)
EXTENDS Integers, WellFoundedInduction, TLAPS

LEMMA NaturalsLess == OpToRel(<, Nat) = {p \in Nat \X Nat : p[1] < p[2]}
BY DEF OpToRel

LEMMA LeastNatural ==
  ASSUME NEW S \in SUBSET Nat, S # {}
  PROVE  \E n \in S : \A m \in S : n <= m
<1> DEFINE R == {p \in Nat \X Nat : p[1] < p[2]}
<1>1. IsWellFoundedOn(R, Nat)
  BY NatLessThanWellFounded, NaturalsLess
<1>2. \E x \in S : \A y \in S : ~(<<y, x>> \in R)
  <2> HIDE DEF R
  <2> QED BY <1>1, WFMin
<1>3. PICK n \in S : \A m \in S : ~(m < n)
  <2>1. \A m, n \in Nat : <<m, n>> \in R <=> m < n
    OBVIOUS
  <2> HIDE DEF R
  <2> QED BY <1>2, <2>1
<1> QED BY <1>3

LEMMA EveryNatural ==
  ASSUME NEW S, 0 \in S, \A n \in Nat : n \in S => n + 1 \in S
  PROVE  \A n \in Nat : n \in S
<1>1. SUFFICES ASSUME Nat \ S # {} PROVE FALSE
  OBVIOUS
<1>2. PICK n \in Nat \ S : \A m \in Nat \ S : n <= m
  BY <1>1, LeastNatural
<1> QED BY <1>2, n = 0 \/ n - 1 \in Nat

(* The same up to a number: most properties are of the places of a sequence.  *)
LEMMA UpTo ==
  ASSUME NEW from \in Nat, NEW to \in Nat, NEW S, from \in S,
         \A n \in from..(to - 1) : n \in S => n + 1 \in S
  PROVE  \A n \in from..to : n \in S
<1> DEFINE T == {k \in Nat : from + k <= to => from + k \in S}
<1>1. 0 \in T
  OBVIOUS
<1>2. ASSUME NEW k \in Nat, k \in T PROVE k + 1 \in T
  <2> SUFFICES ASSUME from + (k + 1) <= to PROVE from + (k + 1) \in S
    OBVIOUS
  <2>1. from + k \in S /\ from + k \in from..(to - 1)
    BY <1>2
  <2> QED BY <2>1
<1>3. \A k \in Nat : k \in T
  <2> HIDE DEF T
  <2> QED BY <1>1, <1>2, EveryNatural
<1> SUFFICES ASSUME NEW n \in from..to PROVE n \in S
  OBVIOUS
<1>4. n - from \in Nat /\ from + (n - from) = n /\ n <= to
  OBVIOUS
<1>5. n - from \in T
  BY <1>3, <1>4
<1> QED BY <1>4, <1>5

LEMMA GreatestBelow ==
  ASSUME NEW N \in Nat, NEW S \in SUBSET (0..N), S # {}
  PROVE  \E n \in S : \A m \in S : m <= n
<1> DEFINE T == {N - m : m \in S}
<1>1. T \in SUBSET Nat /\ T # {}
  <2>1. \A m \in S : N - m \in Nat
    OBVIOUS
  <2> QED BY <2>1
<1>2. PICK k \in T : \A m \in T : k <= m
  <2> HIDE DEF T
  <2> QED BY <1>1, LeastNatural
<1>3. PICK n \in S : k = N - n
  OBVIOUS
<1>4. \A m \in S : N - n <= N - m
  BY <1>2, <1>3
<1> QED BY <1>4

(* A function defined by recursion exists: what it says of a number is given  *)
(* by what it says of the one before.                                         *)
ByRecursion(N, T, base, step) ==
  {f \in [0..N -> T] : f[0] = base /\ \A n \in 1..N : f[n] = step[<<n, f[n - 1]>>]}

LEMMA Recursion ==
  ASSUME NEW N \in Nat, NEW T, NEW base \in T, NEW step,
         \A n \in 1..N : \A v \in T : step[<<n, v>>] \in T
  PROVE  ByRecursion(N, T, base, step) # {}
<1> DEFINE Defines(f, m) == f[0] = base /\ \A n \in 1..m : f[n] = step[<<n, f[n - 1]>>]
           S == {m \in Nat : m <= N => \E f \in [0..m -> T] : Defines(f, m)}
<1>1. 0 \in S
  <2>1. [n \in 0..0 |-> base] \in [0..0 -> T] /\ Defines([n \in 0..0 |-> base], 0)
    OBVIOUS
  <2> QED BY <2>1
<1>2. ASSUME NEW m \in Nat, m \in S PROVE m + 1 \in S
  <2> SUFFICES ASSUME m + 1 <= N PROVE \E f \in [0..(m + 1) -> T] : Defines(f, m + 1)
    OBVIOUS
  <2>1. PICK f \in [0..m -> T] : Defines(f, m)
    BY <1>2
  <2> DEFINE g == [n \in 0..(m + 1) |-> IF n = m + 1 THEN step[<<m + 1, f[m]>>] ELSE f[n]]
  <2>2. g \in [0..(m + 1) -> T]
    <3>1. step[<<m + 1, f[m]>>] \in T
      OBVIOUS
    <3> QED BY <3>1
  <2>3. \A n \in 0..m : g[n] = f[n]
    OBVIOUS
  <2>4. g[m + 1] = step[<<m + 1, g[m]>>]
    OBVIOUS
  <2>5. Defines(g, m + 1)
    <3> HIDE DEF g
    <3>1. g[0] = base
      BY <2>1, <2>3
    <3>2. ASSUME NEW n \in 1..(m + 1) PROVE g[n] = step[<<n, g[n - 1]>>]
      <4>1. CASE n = m + 1
        BY <4>1, <2>4
      <4>2. CASE n # m + 1
        <5>1. n \in 1..m /\ n \in 0..m /\ n - 1 \in 0..m
          BY <4>2
        <5> QED BY <5>1, <2>1, <2>3
      <4> QED BY <4>1, <4>2
    <3> QED BY <3>1, <3>2
  <2> HIDE DEF g
  <2> QED BY <2>2, <2>5
<1>3. N \in S
  <2> HIDE DEF S
  <2> QED BY <1>1, <1>2, EveryNatural
<1> QED BY <1>3 DEF ByRecursion

(* The same downwards, for a function of places that looks at later places    *)
(* only: among the functions of G there is one that is as step says.          *)
EndsAsIn(N, G, step) == \E f \in G : \A i \in Nat : i > N => f[i] = step[<<i, f>>]
StepsStayIn(N, G, step) == \A i \in 0..N : \A f \in G : [f EXCEPT ![i] = step[<<i, f>>]] \in G
LooksLater(G, step) ==
  \A i \in Nat : \A f, g \in G :
    (\A k \in Nat : k > i => f[k] = g[k]) => step[<<i, f>>] = step[<<i, g>>]
Fulfilments(G, step) == {f \in G : \A i \in Nat : f[i] = step[<<i, f>>]}

LEMMA Later ==
  ASSUME NEW N \in Nat, NEW T, NEW G \in SUBSET [Nat -> T], NEW step,
         EndsAsIn(N, G, step), StepsStayIn(N, G, step), LooksLater(G, step)
  PROVE  Fulfilments(G, step) # {}
<1> USE DEF EndsAsIn, StepsStayIn, LooksLater
<1> SUFFICES \E f \in G : \A i \in Nat : f[i] = step[<<i, f>>]
  BY DEF Fulfilments
<1> DEFINE S == {m \in Nat : m <= N + 1 => \E f \in G : \A i \in Nat : i + m > N => f[i] = step[<<i, f>>]}
<1>1. 0 \in S
  OBVIOUS
<1>2. ASSUME NEW m \in Nat, m \in S PROVE m + 1 \in S
  <2> SUFFICES ASSUME m + 1 <= N + 1
               PROVE  \E f \in G : \A i \in Nat : i + (m + 1) > N => f[i] = step[<<i, f>>]
    OBVIOUS
  <2>1. PICK f \in G : \A i \in Nat : i + m > N => f[i] = step[<<i, f>>]
    BY <1>2
  <2> DEFINE g == [f EXCEPT ![N - m] = step[<<N - m, f>>]]
  <2>2. N - m \in 0..N /\ g \in G
    OBVIOUS
  <2>3. \A k \in Nat : k > N - m => f[k] = g[k]
    OBVIOUS
  <2>4. f \in [Nat -> T] /\ g[N - m] = step[<<N - m, f>>]
    BY <2>2
  <2> HIDE DEF g
  <2>5. ASSUME NEW i \in Nat, i + (m + 1) > N PROVE g[i] = step[<<i, g>>]
    <3>1. \A k \in Nat : k > i => k > N - m
      BY <2>5
    <3>2. step[<<i, f>>] = step[<<i, g>>]
      BY <2>2, <2>3, <3>1
    <3>3. CASE i = N - m
      BY <2>4, <3>2, <3>3
    <3>4. CASE i # N - m
      <4>1. i > N - m /\ i + m > N
        BY <2>2, <2>5, <3>4
      <4> QED BY <2>1, <2>3, <3>2, <4>1
    <3> QED BY <3>3, <3>4
  <2> QED BY <2>2, <2>5
<1>3. N + 1 \in S
  <2> HIDE DEF S
  <2> QED BY <1>1, <1>2, EveryNatural
<1> QED BY <1>3

(* Induction downwards, for places up to the end of a text.                   *)
LEMMA Downwards ==
  ASSUME NEW N \in Nat, NEW S,
         \A i \in Nat : i > N => i \in S,
         \A i \in 0..N : (\A k \in Nat : k > i => k \in S) => i \in S
  PROVE  \A i \in Nat : i \in S
<1> DEFINE Known == {m \in Nat : \A i \in Nat : i + m > N => i \in S}
<1>1. 0 \in Known
  OBVIOUS
<1>2. ASSUME NEW m \in Nat, m \in Known PROVE m + 1 \in Known
  <2> SUFFICES ASSUME NEW i \in Nat, i + (m + 1) > N PROVE i \in S
    OBVIOUS
  <2>1. \A k \in Nat : k > i => k \in S
    BY <1>2
  <2>2. i > N \/ i \in 0..N
    OBVIOUS
  <2> QED BY <2>1, <2>2
<1>3. N + 1 \in Known
  <2> HIDE DEF Known
  <2> QED BY <1>1, <1>2, EveryNatural
<1> QED BY <1>3

(* A function up to a number whose values are given by the values before.     *)
StepsGiveValues(N, T, step) == \A n \in 0..N : \A f \in [0..N -> T] : step[<<n, f>>] \in T
LooksEarlier(N, T, step) ==
  \A n \in 0..N : \A f, g \in [0..N -> T] :
    (\A k \in 0..(n - 1) : f[k] = g[k]) => step[<<n, f>>] = step[<<n, g>>]

LEMMA Earlier ==
  ASSUME NEW N \in Nat, NEW T, NEW v \in T, NEW step,
         StepsGiveValues(N, T, step), LooksEarlier(N, T, step)
  PROVE  \E f \in [0..N -> T] : \A n \in 0..N : f[n] = step[<<n, f>>]
<1> USE DEF StepsGiveValues, LooksEarlier
<1> DEFINE S == {m \in Nat : m <= N + 1 => \E f \in [0..N -> T] : \A n \in 0..(m - 1) : f[n] = step[<<n, f>>]}
<1>1. 0 \in S
  <2>1. [n \in 0..N |-> v] \in [0..N -> T]
    OBVIOUS
  <2>2. \A n \in 0..(0 - 1) : FALSE
    OBVIOUS
  <2> QED BY <2>1, <2>2
<1>2. ASSUME NEW m \in Nat, m \in S PROVE m + 1 \in S
  <2> SUFFICES ASSUME m + 1 <= N + 1
               PROVE  \E f \in [0..N -> T] : \A n \in 0..m : f[n] = step[<<n, f>>]
    OBVIOUS
  <2>1. PICK f \in [0..N -> T] : \A n \in 0..(m - 1) : f[n] = step[<<n, f>>]
    BY <1>2
  <2> DEFINE g == [f EXCEPT ![m] = step[<<m, f>>]]
  <2>2. m \in 0..N /\ g \in [0..N -> T]
    OBVIOUS
  <2>3. \A k \in 0..(m - 1) : f[k] = g[k]
    OBVIOUS
  <2>4. g[m] = step[<<m, f>>]
    BY <2>2
  <2> HIDE DEF g
  <2>5. ASSUME NEW n \in 0..m PROVE g[n] = step[<<n, g>>]
    <3>1. \A k \in 0..(n - 1) : k \in 0..(m - 1)
      OBVIOUS
    <3>2. step[<<n, f>>] = step[<<n, g>>]
      BY <2>2, <2>3, <3>1
    <3> QED BY <2>1, <2>3, <2>4, <3>2
  <2> QED BY <2>2, <2>5
<1>3. N + 1 \in S
  <2> HIDE DEF S
  <2> QED BY <1>1, <1>2, EveryNatural
<1> QED BY <1>3
=============================================================================
