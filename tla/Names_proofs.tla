---------------------------- MODULE Names_proofs ----------------------------
(***************************************************************************)
(* Theorems about Names, for programs of any size over any forms.          *)
(***************************************************************************)
EXTENDS Names, Induction

(***************************************************************************)
(* What a context is: records of records, every number in it a scope or a  *)
(* definition there is.                                                    *)
(***************************************************************************)
DefKinds == {"fn", "alias", "enum", "struct", "trait", "mod", "generic", "variant"}
Words == Symbols \cup {SELF_TYPE}
Ids == 1..MaxItems

ScopeRecords == [parent : Nat, entries : [Entries -> Nat]]
TyRecords == [tag : {"var", "def", "err"}, def : Nat]
DefRecords ==
  [kind : DefKinds, symbol : Words, item : Nat, scope : Nat, of : TyRecords, bounds : Seq(TyRecords),
   record : BOOLEAN, self : BOOLEAN, collected : Nat, checked : Nat]
ImplRecords == [target : Nat, scope : Nat, trait : Nat, item : Nat]
Reports ==
  {"AlreadyDefined", "UnresolvedType", "UnresolvedImport", "InvalidGlobTarget", "MissingTraitItem",
   "MissingSelfParam", "UnexpectedSelfParam"}
Contexts ==
  [scopes : Seq(ScopeRecords), defs : Seq(DefRecords), diags : SUBSET (Reports \X Nat),
   impls : Seq(ImplRecords), panicked : BOOLEAN, own : [Ids -> Nat], def : [Ids -> Nat],
   at : [Ids -> Nat], fill : [Ids -> Nat], taken : BOOLEAN, globs : SUBSET (Nat \X Nat \X Nat)]

(* What a definition may be entered as: types apart from values, and a         *)
(* generic parameter at home.                                                  *)
Fits(def, s, e) ==
  /\ e[2] = "values" => def.kind \in {"fn", "variant"} \/ (def.kind = "struct" /\ ~def.record)
  /\ e[2] = "types" => def.kind \notin {"fn", "variant"}
  /\ def.kind = "generic" => def.scope = s

ScopeOK(c, s) ==
  /\ c.scopes[s].parent < s
  /\ \A e \in Entries : /\ c.scopes[s].entries[e] <= Len(c.defs)
                        /\ c.scopes[s].entries[e] # NoDef => Fits(c.defs[c.scopes[s].entries[e]], s, e)

TyOK(c, ty) == ty \in TyRecords /\ ty.def <= Len(c.defs) /\ (ty.tag # "err" => ty.def # NoDef)

\* Self is the type of an impl or the parameter of a trait.
SelfRight(def) == def.symbol = SELF_TYPE => def.kind \in {"alias", "generic"}

DefOK(c, def) ==
  /\ def \in DefRecords
  /\ def.scope <= Len(c.scopes) /\ (def.kind # "variant" => def.scope # NoScope)
  /\ SelfRight(def) /\ TyOK(c, def.of)

ImplOK(c, m) ==
  /\ m.scope \in 1..Len(c.scopes) /\ m.target <= Len(c.defs) /\ m.trait <= Len(c.defs)
  /\ m.trait # NoDef => c.defs[m.trait].kind = "trait"

Arena(c) ==
  /\ c \in Contexts /\ Len(c.scopes) >= 1
  /\ \A s \in 1..Len(c.scopes) : ScopeOK(c, s)
  /\ \A d \in 1..Len(c.defs) : DefOK(c, c.defs[d])
  /\ \A k \in 1..Len(c.impls) : ImplOK(c, c.impls[k])
  /\ \A i \in Ids : c.own[i] <= Len(c.scopes) /\ c.at[i] <= Len(c.scopes) /\ c.def[i] <= Len(c.defs)

(***************************************************************************)
(* Looking names up.                                                       *)
(***************************************************************************)
LEMMA Sizes ==
  ASSUME NEW c \in Contexts
  PROVE  /\ Len(c.scopes) \in Nat /\ Len(c.defs) \in Nat /\ Len(c.impls) \in Nat
         /\ DOMAIN c.scopes = 1..Len(c.scopes) /\ DOMAIN c.defs = 1..Len(c.defs)
         /\ DOMAIN c.impls = 1..Len(c.impls)
         /\ \A s \in 1..Len(c.scopes) : c.scopes[s] \in ScopeRecords
         /\ \A d \in 1..Len(c.defs) : c.defs[d] \in DefRecords
BY DEF Contexts

LEMMA LookupIs ==
  ASSUME NEW c, Arena(c), NEW s \in 1..Len(c.scopes), NEW symbol \in Words, NEW ns \in Spaces
  PROVE  /\ <<symbol, ns>> \in Entries
         /\ Lookup(c, s, symbol, ns) = c.scopes[s].entries[<<symbol, ns>>]
         /\ Lookup(c, s, symbol, ns) \in 0..Len(c.defs)
<1>1. <<symbol, ns>> \in Entries
  BY DEF Entries, Words
<1>2. c.scopes[s] \in ScopeRecords /\ ScopeOK(c, s)
  BY Sizes DEF Arena
<1>3. c.scopes[s].entries[<<symbol, ns>>] \in Nat
  BY <1>1, <1>2 DEF ScopeRecords
<1>4. c.scopes[s].entries[<<symbol, ns>>] <= Len(c.defs)
  BY <1>1, <1>2 DEF ScopeOK
<1>5. Len(c.defs) \in Nat
  BY Sizes DEF Arena
<1> QED BY <1>1, <1>3, <1>4, <1>5 DEF Lookup

Upwards(c, f, symbol, ns) ==
  \A t \in 0..Len(c.scopes) :
    f[t] = IF t = NoScope THEN NoDef
           ELSE IF Lookup(c, t, symbol, ns) # NoDef THEN Lookup(c, t, symbol, ns)
           ELSE f[c.scopes[t].parent]

LEMMA LookupUpChainIs ==
  ASSUME NEW c, Arena(c), NEW s \in 0..Len(c.scopes), NEW symbol \in Words, NEW ns \in Spaces
  PROVE  LookupUpChain(c, s, symbol, ns) \in 0..Len(c.defs)
<1> DEFINE N == Len(c.scopes)
           T == 0..Len(c.defs)
           Value(t, f) == IF t = NoScope THEN NoDef
                          ELSE IF Lookup(c, t, symbol, ns) # NoDef THEN Lookup(c, t, symbol, ns)
                          ELSE f[c.scopes[t].parent]
           step == [p \in (0..N) \X [0..N -> T] |-> Value(p[1], p[2])]
<1>1. N \in Nat /\ 0 \in T
  BY Sizes DEF Arena
<1>2. \A t \in 1..N : Lookup(c, t, symbol, ns) \in T
  BY LookupIs
<1>3. \A t \in 1..N : c.scopes[t].parent \in 0..(t - 1) /\ c.scopes[t].parent \in 0..N
  <2> SUFFICES ASSUME NEW t \in 1..N PROVE c.scopes[t].parent \in 0..(t - 1) /\ c.scopes[t].parent \in 0..N
    OBVIOUS
  <2>1. c.scopes[t].parent \in Nat /\ c.scopes[t].parent < t
    BY Sizes DEF Arena, ScopeRecords, ScopeOK
  <2> QED BY <2>1, <1>1
<1>4. \A t \in 0..N : \A f \in [0..N -> T] : step[<<t, f>>] = Value(t, f)
  OBVIOUS
<1> HIDE DEF step
<1>5. StepsGiveValues(N, T, step)
  <2> SUFFICES ASSUME NEW t \in 0..N, NEW f \in [0..N -> T] PROVE Value(t, f) \in T
    BY <1>4 DEF StepsGiveValues
  <2>1. CASE t = 0
    BY <2>1, <1>1 DEF NoScope, NoDef
  <2>2. CASE t # 0
    <3>1. t \in 1..N
      BY <2>2
    <3>2. f[c.scopes[t].parent] \in T
      BY <1>3, <3>1
    <3> QED BY <3>1, <3>2, <1>2, <2>2 DEF NoScope
  <2> QED BY <2>1, <2>2
<1>6. LooksEarlier(N, T, step)
  <2>1. ASSUME NEW t \in 0..N, NEW f \in [0..N -> T], NEW g \in [0..N -> T],
               \A k \in 0..(t - 1) : f[k] = g[k]
        PROVE  Value(t, f) = Value(t, g)
    <3>1. CASE t = 0
      BY <3>1 DEF NoScope
    <3>2. CASE t # 0
      <4>1. t \in 1..N
        BY <3>2
      <4>2. f[c.scopes[t].parent] = g[c.scopes[t].parent]
        BY <1>3, <4>1, <2>1
      <4> QED BY <4>2
    <3> QED BY <3>1, <3>2
  <2> HIDE DEF N, T, Value
  <2> SUFFICES ASSUME NEW t \in 0..N, NEW f \in [0..N -> T], NEW g \in [0..N -> T],
                      \A k \in 0..(t - 1) : f[k] = g[k]
               PROVE  step[<<t, f>>] = step[<<t, g>>]
    BY DEF LooksEarlier
  <2>2. Value(t, f) = Value(t, g)
    BY <2>1
  <2>3. step[<<t, f>>] = Value(t, f) /\ step[<<t, g>>] = Value(t, g)
    BY <1>4
  <2> QED BY <2>2, <2>3
<1>7. PICK f \in [0..N -> T] : \A t \in 0..N : f[t] = step[<<t, f>>]
  <2> HIDE DEF N, T, Value
  <2> QED BY <1>1, <1>5, <1>6, Earlier
<1>8. f = [t \in 0..N |-> Value(t, f)]
  BY <1>4, <1>7
<1> DEFINE found == CHOOSE g : g = [t \in 0..N |-> Value(t, g)]
<1>9. found = [t \in 0..N |-> Value(t, found)]
  BY <1>8, Zenon
<1>10. LookupUpChain(c, s, symbol, ns) = found[s]
  BY DEF LookupUpChain
<1> HIDE DEF found
<1>11. \A t \in 0..N : found[t] = Value(t, found)
  BY <1>9
<1> DEFINE S == {t \in Nat : \A k \in 0..t : k <= N => found[k] \in T}
<1>12. 0 \in S
  BY <1>1, <1>11 DEF NoScope, NoDef
<1>13. ASSUME NEW t \in Nat, t \in S PROVE t + 1 \in S
  <2> SUFFICES ASSUME t + 1 <= N PROVE found[t + 1] \in T
    BY <1>13
  <2>1. t + 1 \in 1..N /\ c.scopes[t + 1].parent \in 0..t
    BY <1>3
  <2>2. found[c.scopes[t + 1].parent] \in T
    BY <1>13, <2>1
  <2>3. found[t + 1] = Value(t + 1, found)
    BY <1>11
  <2>4. Lookup(c, t + 1, symbol, ns) \in T
    BY <1>2, <2>1
  <2> QED BY <2>1, <2>2, <2>3, <2>4 DEF NoScope
<1>14. s \in S
  <2> HIDE DEF S
  <2> QED BY <1>12, <1>13, <1>1, EveryNatural
<1> QED BY <1>10, <1>14

LEMMA TyOfDef ==
  ASSUME NEW c, Arena(c), NEW d \in 1..Len(c.defs)
  PROVE  c.defs[d] \in DefRecords /\ TyOK(c, c.defs[d].of) /\ DefOK(c, c.defs[d])
BY DEF Arena, DefOK

LEMMA ResolveTyIs ==
  ASSUME NEW c, Arena(c), NEW ty, TyOK(c, ty)
  PROVE  TyOK(c, ResolveTy(c, ty))
<1> DEFINE T == {u \in TyRecords : TyOK(c, u)}
           Step(v) == IF v.tag = "var" THEN c.defs[v.def].of ELSE v
           step == [p \in (1..MaxItems) \X T |-> Step(p[2])]
<1>1. ty \in T /\ MaxItems \in Nat
  BY NamesAssumption DEF TyOK
<1>2. \A v \in T : Step(v) \in T
  <2> SUFFICES ASSUME NEW v \in T, v.tag = "var" PROVE c.defs[v.def].of \in T
    OBVIOUS
  <2>1. v.def \in 1..Len(c.defs)
    BY Sizes DEF TyOK, TyRecords, Arena, NoDef
  <2> QED BY <2>1, TyOfDef DEF TyOK
<1> HIDE DEF T, Step
<1>3. \A k \in 1..MaxItems : \A v \in T : step[<<k, v>>] = Step(v) /\ step[<<k, v>>] \in T
  BY <1>2
<1> HIDE DEF step
<1>4. PICK f \in [0..MaxItems -> T] : f[0] = ty /\ \A n \in 1..MaxItems : f[n] = step[<<n, f[n - 1]>>]
  <2>1. ByRecursion(MaxItems, T, ty, step) # {}
    BY <1>1, <1>3, Recursion
  <2> QED BY <2>1 DEF ByRecursion
<1>5. f = [n \in 0..MaxItems |-> IF n = 0 THEN ty ELSE Step(f[n - 1])]
  <2> SUFFICES ASSUME NEW n \in 0..MaxItems PROVE f[n] = IF n = 0 THEN ty ELSE Step(f[n - 1])
    OBVIOUS
  <2>1. CASE n = 0
    BY <1>4, <2>1
  <2>2. CASE n # 0
    <3>1. n \in 1..MaxItems /\ f[n - 1] \in T
      BY <1>1, <1>4, <2>2
    <3> QED BY <3>1, <1>3, <1>4, <2>2
  <2> QED BY <2>1, <2>2
<1> DEFINE end == CHOOSE g : g = [n \in 0..MaxItems |-> IF n = 0 THEN ty ELSE Step(g[n - 1])]
<1>6. end = [n \in 0..MaxItems |-> IF n = 0 THEN ty ELSE Step(end[n - 1])]
  BY <1>5
<1>7. ResolveTy(c, ty) = end[MaxItems]
  BY DEF ResolveTy, Step
<1> HIDE DEF end
<1> DEFINE S == {n \in Nat : n <= MaxItems => end[n] \in T}
<1>8. 0 \in S
  BY <1>1, <1>6
<1>9. ASSUME NEW n \in Nat, n \in S PROVE n + 1 \in S
  <2> SUFFICES ASSUME n + 1 <= MaxItems PROVE end[n + 1] \in T
    OBVIOUS
  <2>1. n + 1 \in 0..MaxItems /\ end[n] \in T /\ (n + 1) - 1 = n /\ n + 1 # 0
    BY <1>1, <1>9
  <2>2. end[n + 1] = Step(end[n])
    BY <1>6, <2>1
  <2> QED BY <1>2, <2>1, <2>2
<1>10. MaxItems \in S
  <2> HIDE DEF S
  <2> QED BY <1>1, <1>8, <1>9, EveryNatural
<1> QED BY <1>1, <1>7, <1>10 DEF T

LEMMA ImplTargetIs ==
  ASSUME NEW c, Arena(c)
  PROVE  /\ \A ty : TyOK(c, ty) => ImplTargetOf(c, ty) \in 0..Len(c.defs)
         /\ \A d \in 1..Len(c.defs) : ImplTargetOfDef(c, d) \in 0..Len(c.defs)
<1>1. Len(c.defs) \in Nat
  BY Sizes DEF Arena
<1>2. ASSUME NEW ty, TyOK(c, ty) PROVE ImplTargetOf(c, ty) \in 0..Len(c.defs)
  <2>1. TyOK(c, ResolveTy(c, ty))
    BY <1>2, ResolveTyIs
  <2>2. ResolveTy(c, ty).def \in 0..Len(c.defs)
    BY <2>1, <1>1 DEF TyOK, TyRecords
  <2> QED BY <1>1, <2>2 DEF ImplTargetOf, NoDef
<1>3. ASSUME NEW d \in 1..Len(c.defs) PROVE ImplTargetOfDef(c, d) \in 0..Len(c.defs)
  <2>1. ImplTargetOf(c, c.defs[d].of) \in 0..Len(c.defs)
    BY <1>2, TyOfDef
  <2> QED BY <2>1, <1>1 DEF ImplTargetOfDef, NoDef
<1> QED BY <1>2, <1>3

LEMMA ResolveInImplsIs ==
  ASSUME NEW c, Arena(c), NEW target, NEW symbol \in Words, NEW ns \in Spaces
  PROVE  ResolveInImpls(c, target, symbol, ns) \in 0..Len(c.defs)
<1>1. \A k \in DOMAIN c.impls : Lookup(c, c.impls[k].scope, symbol, ns) \in 0..Len(c.defs)
  <2> SUFFICES ASSUME NEW k \in DOMAIN c.impls PROVE Lookup(c, c.impls[k].scope, symbol, ns) \in 0..Len(c.defs)
    OBVIOUS
  <2>1. c.impls[k].scope \in 1..Len(c.scopes)
    BY Sizes DEF Arena, ImplOK
  <2> QED BY <2>1, LookupIs
<1>2. NoDef \in 0..Len(c.defs)
  BY Sizes DEF Arena, NoDef
<1> DEFINE found == {k \in DOMAIN c.impls : /\ c.impls[k].target \in {target, NoDef}
                                            /\ Lookup(c, c.impls[k].scope, symbol, ns) # NoDef}
<1>3. ASSUME NEW k \in DOMAIN c.impls, found = {k}
      PROVE  (CHOOSE l \in found : TRUE) \in DOMAIN c.impls
  BY <1>3
<1> HIDE DEF found
<1>4. ResolveInImpls(c, target, symbol, ns) =
        IF \E k \in DOMAIN c.impls : found = {k}
        THEN Lookup(c, c.impls[CHOOSE k \in found : TRUE].scope, symbol, ns) ELSE NoDef
  BY DEF ResolveInImpls, found
<1> QED BY <1>1, <1>2, <1>3, <1>4

LEMMA ResolvePathSegmentIs ==
  ASSUME NEW c, Arena(c), NEW d \in 1..Len(c.defs), NEW symbol \in Words, NEW ns \in Spaces
  PROVE  ResolvePathSegment(c, d, symbol, ns) \in 0..Len(c.defs)
<1>1. NoDef \in 0..Len(c.defs)
  BY Sizes DEF Arena, NoDef
<1>2. ResolveInDefScope(c, d, symbol, ns) \in 0..Len(c.defs)
  <2>1. CASE KindOf(c, d) \in {"mod", "enum"}
    <3>1. c.defs[d].scope \in 1..Len(c.scopes)
      BY <2>1, Sizes, TyOfDef DEF Arena, DefOK, DefRecords, KindOf, NoScope
    <3> QED BY <3>1, <2>1, LookupIs DEF ResolveInDefScope
  <2> QED BY <1>1, <2>1 DEF ResolveInDefScope
<1>3. ResolveInTarget(c, ImplTargetOfDef(c, d), symbol, ns) \in 0..Len(c.defs)
  BY <1>1, ResolveInImplsIs DEF ResolveInTarget
<1> QED BY <1>2, <1>3 DEF ResolvePathSegment, OrElse

LEMMA ResolvePathIs ==
  ASSUME NEW c, Arena(c), NEW s \in 0..Len(c.scopes), NEW path \in Seq(Words), path # <<>>,
         NEW ns \in Spaces
  PROVE  ResolvePath(c, s, path, ns) \in 0..Len(c.defs)
<1> DEFINE N == Len(path) - 1
           T == 0..Len(c.defs)
           In(k) == SegmentNamespace(path, k + 1, ns)
           Base == LookupUpChain(c, s, path[1], In(0))
           Step(k, v) == IF v = NoDef THEN NoDef ELSE ResolvePathSegment(c, v, path[k + 1], In(k))
           step == [p \in (1..N) \X T |-> Step(p[1], p[2])]
<1>1. N \in Nat /\ N + 1 = Len(path) /\ 0 \in T
  <2>1. Len(c.defs) \in Nat
    BY Sizes DEF Arena
  <2>2. Len(path) \in Nat /\ Len(path) # 0
    OBVIOUS
  <2> QED BY <2>1, <2>2
<1>2. \A k \in 0..N : path[k + 1] \in Words /\ In(k) \in Spaces
  <2> SUFFICES ASSUME NEW k \in 0..N PROVE path[k + 1] \in Words /\ In(k) \in Spaces
    OBVIOUS
  <2>1. k + 1 \in 1..Len(path)
    BY <1>1
  <2>2. path[k + 1] \in Words
    BY <2>1
  <2> QED BY <2>2 DEF SegmentNamespace, Spaces
<1>3. Base \in T
  <2>1. path[0 + 1] \in Words /\ In(0) \in Spaces
    BY <1>1, <1>2
  <2> QED BY <2>1, LookupUpChainIs
<1>4. \A k \in 1..N : \A v \in T : Step(k, v) \in T
  <2> SUFFICES ASSUME NEW k \in 1..N, NEW v \in T, v # NoDef
               PROVE  ResolvePathSegment(c, v, path[k + 1], In(k)) \in T
    BY <1>1 DEF NoDef
  <2>1. v \in 1..Len(c.defs)
    BY DEF NoDef
  <2>2. path[k + 1] \in Words /\ In(k) \in Spaces
    BY <1>2
  <2> QED BY <2>1, <2>2, ResolvePathSegmentIs
<1> HIDE DEF T, Step, Base, N
<1>5. \A k \in 1..N : \A v \in T : step[<<k, v>>] = Step(k, v) /\ step[<<k, v>>] \in T
  BY <1>4
<1> HIDE DEF step
<1>6. PICK f \in [0..N -> T] : f[0] = Base /\ \A n \in 1..N : f[n] = step[<<n, f[n - 1]>>]
  <2>1. ByRecursion(N, T, Base, step) # {}
    BY <1>1, <1>3, <1>5, Recursion
  <2> QED BY <2>1 DEF ByRecursion
<1>7. f = [k \in 0..N |-> IF k = 0 THEN Base ELSE Step(k, f[k - 1])]
  <2> SUFFICES ASSUME NEW n \in 0..N PROVE f[n] = IF n = 0 THEN Base ELSE Step(n, f[n - 1])
    OBVIOUS
  <2>1. CASE n = 0
    BY <1>6, <2>1
  <2>2. CASE n # 0
    <3>1. n \in 1..N /\ f[n - 1] \in T
      BY <1>1, <1>6, <2>2
    <3> QED BY <3>1, <1>5, <1>6, <2>2
  <2> QED BY <2>1, <2>2
<1> DEFINE named == CHOOSE g : g = [k \in 0..N |-> IF k = 0 THEN Base ELSE Step(k, g[k - 1])]
<1>8. named = [k \in 0..N |-> IF k = 0 THEN Base ELSE Step(k, named[k - 1])]
  BY <1>7
<1>9. ResolvePath(c, s, path, ns) = named[N]
  <2> USE DEF Base, Step, N
  <2>1. named = CHOOSE g : g = [k \in 0..(Len(path) - 1) |->
          IF k = 0 THEN LookupUpChain(c, s, path[1], SegmentNamespace(path, k + 1, ns))
          ELSE IF g[k - 1] = NoDef THEN NoDef
          ELSE ResolvePathSegment(c, g[k - 1], path[k + 1], SegmentNamespace(path, k + 1, ns))]
    <3>1. ASSUME NEW g
          PROVE [k \in 0..(Len(path) - 1) |-> IF k = 0 THEN Base ELSE Step(k, g[k - 1])]
                = [k \in 0..(Len(path) - 1) |->
                     IF k = 0 THEN LookupUpChain(c, s, path[1], SegmentNamespace(path, k + 1, ns))
                     ELSE IF g[k - 1] = NoDef THEN NoDef
                     ELSE ResolvePathSegment(c, g[k - 1], path[k + 1], SegmentNamespace(path, k + 1, ns))]
      OBVIOUS
    <3> QED BY <3>1
  <2> QED BY <2>1 DEF ResolvePath
<1> HIDE DEF named
<1> DEFINE S == {n \in Nat : n <= N => named[n] \in T}
<1>10. 0 \in S
  BY <1>1, <1>3, <1>8
<1>11. ASSUME NEW n \in Nat, n \in S PROVE n + 1 \in S
  <2> SUFFICES ASSUME n + 1 <= N PROVE named[n + 1] \in T
    OBVIOUS
  <2>1. n + 1 \in 1..N /\ n + 1 \in 0..N /\ named[n] \in T /\ (n + 1) - 1 = n /\ n + 1 # 0
    BY <1>1, <1>11
  <2>2. named[n + 1] = Step(n + 1, named[n])
    BY <1>8, <2>1
  <2> QED BY <1>4, <2>1, <2>2
<1>12. N \in S
  <2> HIDE DEF S
  <2> QED BY <1>1, <1>10, <1>11, EveryNatural
<1> QED BY <1>1, <1>9, <1>12 DEF T

LEMMA ResolvePathFromIs ==
  ASSUME NEW c, Arena(c), NEW d \in 0..Len(c.defs), NEW path \in Seq(Words), NEW ns \in Spaces
  PROVE  ResolvePathFrom(c, d, path, ns) \in 0..Len(c.defs)
<1> DEFINE N == Len(path)
           T == 0..Len(c.defs)
           In(k) == SegmentNamespace(path, k, ns)
           Step(k, v) == IF v = NoDef \/ KindOf(c, v) # "mod" THEN NoDef
                         ELSE Lookup(c, c.defs[v].scope, path[k], In(k))
           step == [p \in (1..N) \X T |-> Step(p[1], p[2])]
<1>1. N \in Nat /\ 0 \in T
  BY Sizes DEF Arena
<1>2. \A k \in 1..N : \A v \in T : Step(k, v) \in T
  <2> SUFFICES ASSUME NEW k \in 1..N, NEW v \in T, v # NoDef, KindOf(c, v) = "mod"
               PROVE  Lookup(c, c.defs[v].scope, path[k], In(k)) \in T
    BY <1>1 DEF NoDef
  <2>1. v \in 1..Len(c.defs)
    BY DEF NoDef
  <2>2. c.defs[v].scope \in 1..Len(c.scopes)
    BY <2>1, Sizes, TyOfDef DEF Arena, DefOK, DefRecords, KindOf, NoScope
  <2>3. path[k] \in Words
    OBVIOUS
  <2>4. In(k) \in Spaces
    BY DEF SegmentNamespace, Spaces
  <2> QED BY <2>2, <2>3, <2>4, LookupIs
<1> HIDE DEF T, Step, N
<1>3. \A k \in 1..N : \A v \in T : step[<<k, v>>] = Step(k, v) /\ step[<<k, v>>] \in T
  BY <1>2
<1> HIDE DEF step
<1>4. d \in T
  BY DEF T
<1>5. PICK f \in [0..N -> T] : f[0] = d /\ \A n \in 1..N : f[n] = step[<<n, f[n - 1]>>]
  <2>1. ByRecursion(N, T, d, step) # {}
    BY <1>1, <1>3, <1>4, Recursion
  <2> QED BY <2>1 DEF ByRecursion
<1>6. f = [k \in 0..N |-> IF k = 0 THEN d ELSE Step(k, f[k - 1])]
  <2> SUFFICES ASSUME NEW n \in 0..N PROVE f[n] = IF n = 0 THEN d ELSE Step(n, f[n - 1])
    OBVIOUS
  <2>1. CASE n = 0
    BY <1>5, <2>1
  <2>2. CASE n # 0
    <3>1. n \in 1..N /\ f[n - 1] \in T
      BY <1>1, <1>5, <2>2
    <3> QED BY <3>1, <1>3, <1>5, <2>2
  <2> QED BY <2>1, <2>2
<1> DEFINE named == CHOOSE g : g = [k \in 0..N |-> IF k = 0 THEN d ELSE Step(k, g[k - 1])]
<1>7. named = [k \in 0..N |-> IF k = 0 THEN d ELSE Step(k, named[k - 1])]
  BY <1>6
<1>8. ResolvePathFrom(c, d, path, ns) = named[N]
  BY DEF ResolvePathFrom, Step, N
<1> HIDE DEF named
<1> DEFINE S == {n \in Nat : n <= N => named[n] \in T}
<1>9. 0 \in S
  BY <1>1, <1>4, <1>7
<1>10. ASSUME NEW n \in Nat, n \in S PROVE n + 1 \in S
  <2> SUFFICES ASSUME n + 1 <= N PROVE named[n + 1] \in T
    OBVIOUS
  <2>1. n + 1 \in 1..N /\ n + 1 \in 0..N /\ named[n] \in T /\ (n + 1) - 1 = n /\ n + 1 # 0
    BY <1>1, <1>10
  <2>2. named[n + 1] = Step(n + 1, named[n])
    BY <1>7, <2>1
  <2> QED BY <1>2, <2>1, <2>2
<1>11. N \in S
  <2> HIDE DEF S
  <2> QED BY <1>1, <1>9, <1>10, EveryNatural
<1> QED BY <1>1, <1>8, <1>11 DEF T

(* What lowering the type of a path does to a context: it is told, or not.     *)
Untouched(c, d) ==
  /\ d.scopes = c.scopes /\ d.defs = c.defs /\ d.impls = c.impls /\ d.own = c.own /\ d.def = c.def
  /\ d.at = c.at /\ d.fill = c.fill /\ d.taken = c.taken /\ d.globs = c.globs
SameReports(c, d) == \A i : <<"AlreadyDefined", i>> \in d.diags <=> <<"AlreadyDefined", i>> \in c.diags

LEMMA ArenaIsOfItsParts ==
  ASSUME NEW c, Arena(c), NEW d \in Contexts, Untouched(c, d)
  PROVE  Arena(d)
<1>1. \A s \in 1..Len(c.scopes) : ScopeOK(c, s) => ScopeOK(d, s)
  BY DEF Untouched, ScopeOK
<1>2. \A x : DefOK(c, x) => DefOK(d, x)
  BY DEF Untouched, DefOK, TyOK
<1>3. \A m : ImplOK(c, m) => ImplOK(d, m)
  BY DEF Untouched, ImplOK
<1> QED BY <1>1, <1>2, <1>3 DEF Arena, Untouched

LEMMA DiagnoseIs ==
  ASSUME NEW c \in Contexts, NEW what \in Reports, NEW i \in Nat
  PROVE  /\ Diagnose(c, what, i) \in Contexts /\ Untouched(c, Diagnose(c, what, i))
         /\ Diagnose(c, what, i).panicked = c.panicked
         /\ Diagnose(c, what, i).diags = c.diags \cup {<<what, i>>}
<1>1. c.diags \in SUBSET (Reports \X Nat)
  BY DEF Contexts
<1>2. c.diags \cup {<<what, i>>} \in SUBSET (Reports \X Nat)
  BY <1>1
<1>3. Diagnose(c, what, i) = [c EXCEPT !.diags = c.diags \cup {<<what, i>>}]
  BY DEF Diagnose
<1> QED BY <1>2, <1>3 DEF Contexts, Untouched

LEMMA LowerPathTyIs ==
  ASSUME NEW c, Arena(c), NEW s \in 0..Len(c.scopes), NEW path \in Seq(Words), path # <<>>, NEW i \in Nat
  PROVE  LET l == LowerPathTy(c, s, path, i)
         IN  /\ Arena(l.cx) /\ Untouched(c, l.cx) /\ SameReports(c, l.cx) /\ TyOK(c, l.ty)
             /\ c.panicked => l.cx.panicked
<1> DEFINE d == ResolvePath(c, s, path, "types")
           l == InstantiateDefTy(c, d, i)
<1>1. d \in 0..Len(c.defs) /\ c \in Contexts
  <2>1. "types" \in Spaces
    BY DEF Spaces
  <2> QED BY <2>1, ResolvePathIs DEF Arena
<1>2. LowerPathTy(c, s, path, i) = l
  BY DEF LowerPathTy
<1> HIDE DEF d
<1>3. TyOK(c, ErrTy)
  BY Sizes, <1>1 DEF TyOK, ErrTy, TyRecords, NoDef
<1>4. CASE d = NoDef
  <2>1. l = [cx |-> Diagnose(c, "UnresolvedType", i), ty |-> ErrTy]
    BY <1>4 DEF InstantiateDefTy
  <2>2. l.cx = Diagnose(c, "UnresolvedType", i) /\ l.ty = ErrTy
    BY <2>1
  <2> HIDE DEF l
  <2>3. l.cx \in Contexts /\ Untouched(c, l.cx) /\ l.cx.panicked = c.panicked
        /\ l.cx.diags = c.diags \cup {<<"UnresolvedType", i>>}
    <3>1. "UnresolvedType" \in Reports
      BY DEF Reports
    <3>2. Diagnose(c, "UnresolvedType", i) \in Contexts /\ Untouched(c, Diagnose(c, "UnresolvedType", i))
          /\ Diagnose(c, "UnresolvedType", i).panicked = c.panicked
          /\ Diagnose(c, "UnresolvedType", i).diags = c.diags \cup {<<"UnresolvedType", i>>}
      BY <3>1, <1>1, DiagnoseIs
    <3> QED BY <3>2, <2>2
  <2>4. SameReports(c, l.cx)
    BY <2>3 DEF SameReports
  <2> QED BY <1>2, <1>3, <2>2, <2>3, <2>4, ArenaIsOfItsParts
<1>5. CASE d # NoDef /\ KindOf(c, d) = "mod"
  <2>1. l = [cx |-> [c EXCEPT !.panicked = TRUE], ty |-> ErrTy]
    BY <1>5 DEF InstantiateDefTy
  <2>2. l.cx = [c EXCEPT !.panicked = TRUE] /\ l.ty = ErrTy
    BY <2>1
  <2> HIDE DEF l
  <2>3. l.cx \in Contexts /\ Untouched(c, l.cx) /\ l.cx.panicked /\ l.cx.diags = c.diags
    BY <1>1, <2>2 DEF Contexts, Untouched
  <2>4. SameReports(c, l.cx)
    BY <2>3 DEF SameReports
  <2> QED BY <1>2, <1>3, <2>2, <2>3, <2>4, ArenaIsOfItsParts
<1>6. CASE d # NoDef /\ KindOf(c, d) # "mod"
  <2>1. d \in 1..Len(c.defs)
    BY <1>1, <1>6 DEF NoDef
  <2>2. l.cx = c /\ l.ty \in {c.defs[d].of, TheDef(d)}
    BY <1>6 DEF InstantiateDefTy
  <2>3. TyOK(c, TheDef(d))
    BY <2>1 DEF TyOK, TheDef, TyRecords, NoDef
  <2>4. TyOK(c, l.ty)
    BY <2>1, <2>2, <2>3, TyOfDef
  <2>5. Untouched(c, c) /\ SameReports(c, c)
    BY DEF Untouched, SameReports
  <2> HIDE DEF l
  <2> QED BY <1>2, <2>2, <2>4, <2>5
<1> QED BY <1>4, <1>5, <1>6

(***************************************************************************)
(* Declaring names: definitions are appended, and entered where W says.    *)
(***************************************************************************)
SameOwn(c, d) == d.own = c.own /\ d.def = c.def
SameRest(c, d) ==
  /\ d.impls = c.impls /\ d.at = c.at /\ d.fill = c.fill /\ d.taken = c.taken /\ d.globs = c.globs
  /\ c.panicked => d.panicked

Longer(c, d) ==
  /\ Len(d.defs) >= Len(c.defs)
  /\ \A k \in 1..Len(c.defs) : d.defs[k] = c.defs[k]

NewDef(def, i) == def.item = i /\ def.collected = NoItem /\ def.checked = NoItem
NewDefs(c, d, i) == \A k \in (Len(c.defs) + 1)..Len(d.defs) : NewDef(d.defs[k], i)

EntersOnly(c, d, W) ==
  /\ Len(d.scopes) = Len(c.scopes)
  /\ \A t \in 1..Len(c.scopes) :
       /\ d.scopes[t].parent = c.scopes[t].parent
       /\ \A e \in Entries :
            IF <<t, e>> \in W THEN d.scopes[t].entries[e] \in (Len(c.defs) + 1)..Len(d.defs)
            ELSE d.scopes[t].entries[e] = c.scopes[t].entries[e]

Reported(c, d, i, R) ==
  \A k : <<"AlreadyDefined", k>> \in d.diags <=> (<<"AlreadyDefined", k>> \in c.diags \/ (k = i /\ R))

Adds(c, d, W, i, R) ==
  /\ Arena(d) /\ Longer(c, d) /\ NewDefs(c, d, i) /\ EntersOnly(c, d, W) /\ SameRest(c, d)
  /\ Reported(c, d, i, R)

LEMMA AddsNothing ==
  ASSUME NEW c, Arena(c), NEW i
  PROVE  Adds(c, c, {}, i, FALSE)
<1>1. Len(c.defs) \in Nat
  BY Sizes DEF Arena
<1> QED BY <1>1 DEF Adds, Longer, NewDefs, EntersOnly, SameRest, Reported

LEMMA AddsMore ==
  ASSUME NEW c, NEW d, NEW e, NEW V, NEW W, NEW i, NEW Q, NEW R, NEW P,
         Arena(c), Adds(c, d, V, i, Q), Adds(d, e, W, i, R), P <=> (Q \/ R)
  PROVE  Adds(c, e, V \cup W, i, P)
<1>1. Len(c.defs) \in Nat /\ Len(d.defs) \in Nat /\ Len(e.defs) \in Nat
      /\ Len(c.scopes) \in Nat /\ Len(d.scopes) \in Nat /\ Len(e.scopes) \in Nat
  BY Sizes DEF Arena, Adds
<1>2. Longer(c, e)
  BY <1>1 DEF Adds, Longer
<1>3. NewDefs(c, e, i)
  <2> SUFFICES ASSUME NEW k \in (Len(c.defs) + 1)..Len(e.defs) PROVE NewDef(e.defs[k], i)
    BY DEF NewDefs
  <2>1. CASE k <= Len(d.defs)
    <3>1. k \in (Len(c.defs) + 1)..Len(d.defs) /\ k \in 1..Len(d.defs)
      BY <1>1, <2>1
    <3> QED BY <3>1 DEF Adds, NewDefs, Longer
  <2>2. CASE k > Len(d.defs)
    <3>1. k \in (Len(d.defs) + 1)..Len(e.defs)
      BY <1>1, <2>2
    <3> QED BY <3>1 DEF Adds, NewDefs
  <2> QED BY <1>1, <2>1, <2>2
<1>4. EntersOnly(c, e, V \cup W)
  <2>1. Len(e.scopes) = Len(c.scopes) /\ Len(d.scopes) = Len(c.scopes)
    BY DEF Adds, EntersOnly
  <2>2. ASSUME NEW t \in 1..Len(c.scopes)
        PROVE  /\ e.scopes[t].parent = c.scopes[t].parent
               /\ \A x \in Entries :
                    IF <<t, x>> \in V \cup W THEN e.scopes[t].entries[x] \in (Len(c.defs) + 1)..Len(e.defs)
                    ELSE e.scopes[t].entries[x] = c.scopes[t].entries[x]
    <3>1. e.scopes[t].parent = c.scopes[t].parent
      BY <2>1 DEF Adds, EntersOnly
    <3>2. ASSUME NEW x \in Entries
          PROVE  IF <<t, x>> \in V \cup W THEN e.scopes[t].entries[x] \in (Len(c.defs) + 1)..Len(e.defs)
                 ELSE e.scopes[t].entries[x] = c.scopes[t].entries[x]
      <4>1. IF <<t, x>> \in V THEN d.scopes[t].entries[x] \in (Len(c.defs) + 1)..Len(d.defs)
            ELSE d.scopes[t].entries[x] = c.scopes[t].entries[x]
        BY DEF Adds, EntersOnly
      <4>2. IF <<t, x>> \in W THEN e.scopes[t].entries[x] \in (Len(d.defs) + 1)..Len(e.defs)
            ELSE e.scopes[t].entries[x] = d.scopes[t].entries[x]
        BY <2>1 DEF Adds, EntersOnly
      <4>3. Len(d.defs) >= Len(c.defs) /\ Len(e.defs) >= Len(d.defs)
        BY DEF Adds, Longer
      <4>4. CASE <<t, x>> \in W
        <5>1. e.scopes[t].entries[x] \in (Len(d.defs) + 1)..Len(e.defs)
          BY <4>2, <4>4
        <5>2. e.scopes[t].entries[x] \in (Len(c.defs) + 1)..Len(e.defs)
          BY ONLY <1>1, <4>3, <5>1
        <5> QED BY <4>4, <5>2
      <4>5. CASE <<t, x>> \notin W /\ <<t, x>> \in V
        <5>1. e.scopes[t].entries[x] = d.scopes[t].entries[x]
          BY <4>2, <4>5
        <5>2. d.scopes[t].entries[x] \in (Len(c.defs) + 1)..Len(d.defs)
          BY <4>1, <4>5
        <5>3. d.scopes[t].entries[x] \in (Len(c.defs) + 1)..Len(e.defs)
          BY ONLY <1>1, <4>3, <5>2
        <5> QED BY <4>5, <5>1, <5>3
      <4>6. CASE <<t, x>> \notin V \cup W
        BY <4>1, <4>2, <4>6
      <4> QED BY <4>4, <4>5, <4>6
    <3> QED BY <3>1, <3>2
  <2> QED BY <2>1, <2>2 DEF EntersOnly
<1>5. SameRest(c, e)
  BY DEF Adds, SameRest
<1>6. Reported(c, e, i, P)
  <2> SUFFICES ASSUME NEW k
               PROVE  <<"AlreadyDefined", k>> \in e.diags
                        <=> (<<"AlreadyDefined", k>> \in c.diags \/ (k = i /\ P))
    BY DEF Reported
  <2>1. <<"AlreadyDefined", k>> \in d.diags <=> (<<"AlreadyDefined", k>> \in c.diags \/ (k = i /\ Q))
    BY DEF Adds, Reported
  <2>2. <<"AlreadyDefined", k>> \in e.diags <=> (<<"AlreadyDefined", k>> \in d.diags \/ (k = i /\ R))
    BY DEF Adds, Reported
  <2> QED BY <2>1, <2>2
<1> QED BY <1>2, <1>3, <1>4, <1>5, <1>6 DEF Adds

Inserted(c, d, s, symbol, ns, k) ==
  /\ d \in Contexts /\ Len(d.scopes) = Len(c.scopes)
  /\ \A t \in 1..Len(c.scopes) :
       /\ d.scopes[t].parent = c.scopes[t].parent
       /\ \A e \in Entries : d.scopes[t].entries[e] =
            IF t = s /\ e = <<symbol, ns>> THEN k ELSE c.scopes[t].entries[e]
  /\ d.defs = c.defs /\ SameOwn(c, d) /\ SameRest(c, d) /\ d.diags = c.diags
  /\ d.panicked = c.panicked

LEMMA InsertIs ==
  ASSUME NEW c \in Contexts, NEW s \in 1..Len(c.scopes), NEW symbol \in Words, NEW ns \in Spaces,
         NEW k \in Nat
  PROVE  Inserted(c, Insert(c, s, symbol, k, ns), s, symbol, ns, k)
<1> DEFINE x == <<symbol, ns>>
           r == [c.scopes[s] EXCEPT !.entries = [c.scopes[s].entries EXCEPT ![x] = k]]
           d == [c EXCEPT !.scopes = [c.scopes EXCEPT ![s] = r]]
<1>1. Insert(c, s, symbol, k, ns) = d
  BY DEF Insert
<1>2. x \in Entries /\ c.scopes[s] \in ScopeRecords /\ c.scopes \in Seq(ScopeRecords)
  BY Sizes DEF Entries, Words, Contexts
<1>3. r \in ScopeRecords /\ r.parent = c.scopes[s].parent
      /\ \A e \in Entries : r.entries[e] = IF e = x THEN k ELSE c.scopes[s].entries[e]
  BY <1>2 DEF ScopeRecords
<1> HIDE DEF r
<1>4. [c.scopes EXCEPT ![s] = r] \in Seq(ScopeRecords) /\ Len([c.scopes EXCEPT ![s] = r]) = Len(c.scopes)
  BY <1>2, <1>3
<1>5. d \in Contexts
  BY <1>4 DEF Contexts
<1>6. d.scopes = [c.scopes EXCEPT ![s] = r] /\ d.defs = c.defs /\ SameOwn(c, d) /\ SameRest(c, d)
      /\ d.diags = c.diags /\ d.panicked = c.panicked
  BY DEF Contexts, SameOwn, SameRest
<1> HIDE DEF d
<1>7. ASSUME NEW t \in 1..Len(c.scopes)
      PROVE  /\ d.scopes[t].parent = c.scopes[t].parent
             /\ \A e \in Entries : d.scopes[t].entries[e] =
                  IF t = s /\ e = x THEN k ELSE c.scopes[t].entries[e]
  <2>1. d.scopes[t] = IF t = s THEN r ELSE c.scopes[t]
    BY <1>2, <1>6
  <2> QED BY <1>3, <2>1
<1> QED BY <1>1, <1>4, <1>5, <1>6, <1>7 DEF Inserted

(* What is needed of a context with more definitions or scopes.                *)
LEMMA ArenaGrows ==
  ASSUME NEW c, Arena(c), NEW d \in Contexts, Longer(c, d), Len(d.scopes) >= Len(c.scopes),
         \A s \in 1..Len(d.scopes) : ScopeOK(d, s),
         \A k \in (Len(c.defs) + 1)..Len(d.defs) : DefOK(d, d.defs[k]),
         d.impls = c.impls,
         \A i \in Ids : d.own[i] <= Len(d.scopes) /\ d.at[i] <= Len(d.scopes) /\ d.def[i] <= Len(d.defs)
  PROVE  Arena(d)
<1>1. Len(c.defs) \in Nat /\ Len(d.defs) \in Nat /\ Len(c.scopes) \in Nat /\ Len(d.scopes) \in Nat
      /\ Len(d.defs) >= Len(c.defs) /\ c \in Contexts
  BY Sizes DEF Arena, Longer
<1>2. ASSUME NEW k \in 1..Len(d.defs) PROVE DefOK(d, d.defs[k])
  <2>1. CASE k <= Len(c.defs)
    <3>1. k \in 1..Len(c.defs)
      BY <2>1, <1>1
    <3>2. d.defs[k] = c.defs[k] /\ DefOK(c, c.defs[k])
      BY <3>1 DEF Longer, Arena
    <3>3. c.defs[k].scope \in Nat /\ c.defs[k].of.def \in Nat
      BY <3>2 DEF DefOK, DefRecords, TyRecords
    <3> QED BY <1>1, <3>2, <3>3, SMTT(30) DEF DefOK, TyOK
  <2>2. CASE k > Len(c.defs)
    <3>1. k \in (Len(c.defs) + 1)..Len(d.defs)
      BY <2>2, <1>1
    <3> QED BY <3>1
  <2> QED BY <1>1, <2>1, <2>2
<1>3. ASSUME NEW k \in 1..Len(d.impls) PROVE ImplOK(d, d.impls[k])
  <2>1. ImplOK(c, c.impls[k]) /\ c.impls[k] \in ImplRecords
    BY <1>1, <1>3 DEF Arena, Contexts
  <2>2. c.impls[k].target \in Nat /\ c.impls[k].trait \in Nat /\ c.impls[k].scope \in Nat
    BY <2>1 DEF ImplRecords
  <2>3. c.impls[k].trait # NoDef => c.impls[k].trait \in 1..Len(c.defs)
    BY <1>1, <2>1, <2>2 DEF ImplOK, NoDef
  <2>4. c.impls[k].trait # NoDef => d.defs[c.impls[k].trait] = c.defs[c.impls[k].trait]
    BY <2>3 DEF Longer
  <2>5. d.impls[k] = c.impls[k]
    OBVIOUS
  <2>6. c.impls[k].scope \in 1..Len(d.scopes) /\ c.impls[k].target <= Len(d.defs)
        /\ c.impls[k].trait <= Len(d.defs)
    BY <1>1, <2>1, <2>2, SMTT(30) DEF ImplOK
  <2>7. c.impls[k].trait # NoDef => d.defs[c.impls[k].trait].kind = "trait"
    BY <2>1, <2>4 DEF ImplOK
  <2> QED BY <2>5, <2>6, <2>7 DEF ImplOK
<1>4. Len(d.scopes) >= 1
  BY <1>1 DEF Arena
<1> QED BY <1>2, <1>3, <1>4 DEF Arena

Declarable(c, def) ==
  /\ def \in DefRecords
  /\ def.scope <= Len(c.scopes) /\ (def.kind # "variant" => def.scope # NoScope)
  /\ def.of.def <= Len(c.defs) + 1 /\ (def.of.tag # "err" => def.of.def # NoDef) /\ SelfRight(def)

NameOf(symbol, def) == <<symbol, Namespace(def.kind)>>

EnteredAs(c, d, s, symbol, def) ==
  /\ Len(d.defs) = Len(c.defs) + 1 /\ d.defs[Len(c.defs) + 1] = def
  /\ d.scopes[s].entries[NameOf(symbol, def)] = Len(c.defs) + 1

LEMMA AddIs ==
  ASSUME NEW c, Arena(c), NEW s \in 1..Len(c.scopes), NEW symbol \in Words, NEW def, NEW i,
         Declarable(c, def), NewDef(def, i), Fits(def, s, NameOf(symbol, def))
  PROVE  LET d == Add(c, s, symbol, def)
         IN  /\ Adds(c, d, {<<s, NameOf(symbol, def)>>}, i, FALSE) /\ SameOwn(c, d)
             /\ EnteredAs(c, d, s, symbol, def) /\ d.diags = c.diags
<1> DEFINE ns == Namespace(def.kind)
           n == Len(c.defs) + 1
           m == [c EXCEPT !.defs = Append(c.defs, def)]
           d == Insert(m, s, symbol, n, ns)
<1>1. Add(c, s, symbol, def) = d
  BY DEF Add
<1>2. ns \in Spaces /\ def \in DefRecords /\ c \in Contexts /\ n \in Nat /\ Len(c.scopes) \in Nat
      /\ Len(c.defs) \in Nat
  BY Sizes DEF Namespace, Spaces, Declarable, Arena
<1>3. m \in Contexts /\ m.scopes = c.scopes /\ m.defs = Append(c.defs, def) /\ SameOwn(c, m)
      /\ SameRest(c, m) /\ m.diags = c.diags
  <2>1. c.defs \in Seq(DefRecords)
    BY <1>2 DEF Contexts
  <2>2. Append(c.defs, def) \in Seq(DefRecords)
    BY <1>2, <2>1
  <2> QED BY <1>2, <2>2 DEF Contexts, SameOwn, SameRest
<1>4. Len(m.defs) = n /\ m.defs[n] = def /\ \A k \in 1..Len(c.defs) : m.defs[k] = c.defs[k]
  <2>1. c.defs \in Seq(DefRecords)
    BY <1>2 DEF Contexts
  <2> QED BY <1>2, <1>3, <2>1
<1> HIDE DEF m, ns
<1>5. /\ d \in Contexts /\ Len(d.scopes) = Len(c.scopes)
      /\ \A t \in 1..Len(c.scopes) :
           /\ d.scopes[t].parent = c.scopes[t].parent
           /\ \A e \in Entries : d.scopes[t].entries[e] =
                IF t = s /\ e = <<symbol, ns>> THEN n ELSE c.scopes[t].entries[e]
      /\ d.defs = m.defs /\ SameOwn(m, d) /\ SameRest(m, d) /\ d.diags = m.diags
  <2>1. s \in 1..Len(m.scopes)
    BY <1>3
  <2>2. /\ d \in Contexts /\ Len(d.scopes) = Len(m.scopes)
        /\ \A t \in 1..Len(m.scopes) :
             /\ d.scopes[t].parent = m.scopes[t].parent
             /\ \A e \in Entries : d.scopes[t].entries[e] =
                  IF t = s /\ e = <<symbol, ns>> THEN n ELSE m.scopes[t].entries[e]
        /\ d.defs = m.defs /\ SameOwn(m, d) /\ SameRest(m, d) /\ d.diags = m.diags
    <3>1. Inserted(m, d, s, symbol, ns, n)
      BY <1>2, <1>3, <2>1, InsertIs
    <3> HIDE DEF d, n
    <3> QED BY <3>1 DEF Inserted
  <2> QED BY <1>3, <2>2
<1>6. NameOf(symbol, def) = <<symbol, ns>> /\ <<symbol, ns>> \in Entries
  BY <1>2 DEF NameOf, ns, Entries, Words
<1> HIDE DEF d
<1>7. Longer(c, d) /\ Len(d.defs) = n /\ d.defs[n] = def /\ n > Len(c.defs)
  BY <1>2, <1>4, <1>5 DEF Longer
<1>8. EntersOnly(c, d, {<<s, <<symbol, ns>>>>})
  BY <1>2, <1>5, <1>7 DEF EntersOnly
<1>9. SameOwn(c, d) /\ SameRest(c, d) /\ d.diags = c.diags
  BY <1>3, <1>5 DEF SameOwn, SameRest
<1>10. NewDefs(c, d, i)
  <2>1. \A k \in (Len(c.defs) + 1)..Len(d.defs) : k = n
    BY <1>2, <1>7
  <2> QED BY <2>1, <1>7 DEF NewDefs
<1>11. \A t \in 1..Len(d.scopes) : ScopeOK(d, t)
  <2> SUFFICES ASSUME NEW t \in 1..Len(c.scopes) PROVE ScopeOK(d, t)
    BY <1>5
  <2>1. d.scopes[t].parent < t /\ ScopeOK(c, t) /\ c.scopes[t] \in ScopeRecords
    BY <1>5, <1>2, Sizes DEF Arena, ScopeOK
  <2>2. ASSUME NEW e \in Entries
        PROVE  /\ d.scopes[t].entries[e] <= Len(d.defs)
               /\ d.scopes[t].entries[e] # NoDef => Fits(d.defs[d.scopes[t].entries[e]], t, e)
    <3>1. CASE t = s /\ e = <<symbol, ns>>
      BY <3>1, <1>2, <1>5, <1>6, <1>7
    <3>2. CASE ~(t = s /\ e = <<symbol, ns>>)
      <4>1. d.scopes[t].entries[e] = c.scopes[t].entries[e] /\ c.scopes[t].entries[e] \in Nat
            /\ c.scopes[t].entries[e] <= Len(c.defs)
        BY <3>2, <1>5, <2>1 DEF ScopeOK, ScopeRecords
      <4>2. c.scopes[t].entries[e] # NoDef => c.scopes[t].entries[e] \in 1..Len(c.defs)
        BY <4>1, <1>2 DEF NoDef
      <4>3. c.scopes[t].entries[e] <= Len(d.defs)
        BY <4>1, <1>2, <1>7
      <4>4. c.scopes[t].entries[e] # NoDef
              => d.defs[c.scopes[t].entries[e]] = c.defs[c.scopes[t].entries[e]]
                 /\ Fits(c.defs[c.scopes[t].entries[e]], t, e)
        BY <4>2, <1>7, <2>1 DEF ScopeOK, Longer
      <4> QED BY <4>1, <4>3, <4>4
    <3> QED BY <3>1, <3>2
  <2> QED BY <2>1, <2>2 DEF ScopeOK
<1>12. Arena(d)
  <2>1. \A k \in (Len(c.defs) + 1)..Len(d.defs) : DefOK(d, d.defs[k])
    <3>1. \A k \in (Len(c.defs) + 1)..Len(d.defs) : k = n
      BY <1>2, <1>7
    <3>2. DefOK(d, def)
      BY <1>2, <1>5, <1>7 DEF Declarable, DefOK, TyOK, DefRecords
    <3> QED BY <3>1, <3>2, <1>7
  <2>2. d.impls = c.impls
    BY <1>9 DEF SameRest
  <2>3. \A x \in Ids : d.own[x] <= Len(d.scopes) /\ d.at[x] <= Len(d.scopes) /\ d.def[x] <= Len(d.defs)
    <3>1. \A x \in Ids : c.own[x] <= Len(c.scopes) /\ c.at[x] <= Len(c.scopes) /\ c.def[x] <= Len(c.defs)
                         /\ c.def[x] \in Nat
      BY <1>2 DEF Arena, Contexts
    <3> QED BY <3>1, <1>2, <1>5, <1>7, <1>9 DEF SameOwn, SameRest
  <2>4. Len(d.scopes) >= Len(c.scopes)
    BY <1>2, <1>5
  <2> QED BY <1>5, <1>7, <1>11, <2>1, <2>2, <2>3, <2>4, ArenaGrows
<1>13. Reported(c, d, i, FALSE)
  BY <1>9 DEF Reported
<1>14. EnteredAs(c, d, s, symbol, def)
  BY <1>5, <1>6, <1>7 DEF EnteredAs
<1>15. Adds(c, d, {<<s, NameOf(symbol, def)>>}, i, FALSE)
  BY <1>6, <1>7, <1>8, <1>9, <1>10, <1>12, <1>13 DEF Adds
<1> QED BY <1>1, <1>9, <1>14, <1>15

Opens(c, d, parent) ==
  /\ Len(d.scopes) = Len(c.scopes) + 1 /\ \A t \in 1..Len(c.scopes) : d.scopes[t] = c.scopes[t]
  /\ d.scopes[Len(c.scopes) + 1] = [parent |-> parent, entries |-> NoEntries]
  /\ d.defs = c.defs /\ SameOwn(c, d) /\ SameRest(c, d) /\ d.diags = c.diags

LEMMA NewScopeIs ==
  ASSUME NEW c, Arena(c), NEW parent \in 0..Len(c.scopes)
  PROVE  Arena(NewScope(c, parent)) /\ Opens(c, NewScope(c, parent), parent)
<1> DEFINE r == [parent |-> parent, entries |-> NoEntries]
           n == Len(c.scopes) + 1
           d == [c EXCEPT !.scopes = Append(c.scopes, r)]
<1>1. NewScope(c, parent) = d
  BY DEF NewScope
<1>2. c \in Contexts /\ Len(c.scopes) \in Nat /\ n \in Nat /\ Len(c.defs) \in Nat
  BY Sizes DEF Arena
<1>3. r \in ScopeRecords /\ r.parent = parent /\ \A e \in Entries : r.entries[e] = NoDef
  BY DEF ScopeRecords, NoEntries, NoDef
<1>4. c.scopes \in Seq(ScopeRecords) /\ Append(c.scopes, r) \in Seq(ScopeRecords)
  BY <1>2, <1>3 DEF Contexts
<1> HIDE DEF r
<1>5. d \in Contexts /\ d.scopes = Append(c.scopes, r) /\ d.defs = c.defs /\ SameOwn(c, d) /\ SameRest(c, d)
      /\ d.diags = c.diags
  BY <1>2, <1>4 DEF Contexts, SameOwn, SameRest
<1> HIDE DEF d
<1>6. Len(d.scopes) = n /\ d.scopes[n] = r /\ \A t \in 1..Len(c.scopes) : d.scopes[t] = c.scopes[t]
  BY <1>4, <1>5
<1>7. Opens(c, d, parent)
  BY <1>5, <1>6 DEF Opens, r
<1>8. \A t \in 1..Len(d.scopes) : ScopeOK(d, t)
  <2> SUFFICES ASSUME NEW t \in 1..n PROVE ScopeOK(d, t)
    BY <1>6
  <2>1. CASE t = n
    BY <2>1, <1>2, <1>3, <1>5, <1>6 DEF ScopeOK, NoDef
  <2>2. CASE t # n
    <3>1. t \in 1..Len(c.scopes)
      BY <2>2, <1>2
    <3>2. ScopeOK(c, t) /\ d.scopes[t] = c.scopes[t]
      BY <3>1, <1>6 DEF Arena
    <3> QED BY <3>2, <1>5 DEF ScopeOK
  <2> QED BY <2>1, <2>2
<1>9. Longer(c, d)
  BY <1>2, <1>5 DEF Longer
<1>10. Len(d.scopes) >= Len(c.scopes) /\ d.impls = c.impls
  BY <1>2, <1>5, <1>6 DEF SameRest
<1>11. \A k \in (Len(c.defs) + 1)..Len(d.defs) : DefOK(d, d.defs[k])
  BY <1>2, <1>5
<1>12. \A x \in Ids : d.own[x] <= Len(d.scopes) /\ d.at[x] <= Len(d.scopes) /\ d.def[x] <= Len(d.defs)
  <2>1. \A x \in Ids : c.own[x] <= Len(c.scopes) /\ c.at[x] <= Len(c.scopes) /\ c.def[x] <= Len(c.defs)
                       /\ c.own[x] \in Nat /\ c.at[x] \in Nat
    BY <1>2 DEF Arena, Contexts
  <2> QED BY <2>1, <1>2, <1>5, <1>6 DEF SameOwn, SameRest
<1>13. Arena(d)
  BY <1>5, <1>8, <1>9, <1>10, <1>11, <1>12, ArenaGrows
<1> QED BY <1>1, <1>7, <1>13

Held(c, s, e) == c.scopes[s].entries[e] # NoDef

LEMMA CheckRedeclarationIs ==
  ASSUME NEW c, Arena(c), NEW s \in 1..Len(c.scopes), NEW symbol \in Words, NEW ns \in Spaces, NEW i \in Nat
  PROVE  LET d == CheckRedeclaration(c, s, symbol, ns, i)
         IN  Arena(d) /\ Untouched(c, d) /\ d.panicked = c.panicked
             /\ Reported(c, d, i, Held(c, s, <<symbol, ns>>))
<1> DEFINE d == CheckRedeclaration(c, s, symbol, ns, i)
<1>1. Lookup(c, s, symbol, ns) = c.scopes[s].entries[<<symbol, ns>>] /\ c \in Contexts
  BY DEF Lookup, Arena
<1>2. CASE ~Held(c, s, <<symbol, ns>>)
  <2>1. d = c
    BY <1>1, <1>2 DEF CheckRedeclaration, Held
  <2> QED BY <2>1, <1>2 DEF Untouched, Reported
<1>3. CASE Held(c, s, <<symbol, ns>>)
  <2>1. d = Diagnose(c, "AlreadyDefined", i)
    BY <1>1, <1>3 DEF CheckRedeclaration, Held
  <2>2. "AlreadyDefined" \in Reports
    BY DEF Reports
  <2>3. Diagnose(c, "AlreadyDefined", i) \in Contexts /\ Untouched(c, Diagnose(c, "AlreadyDefined", i))
        /\ Diagnose(c, "AlreadyDefined", i).panicked = c.panicked
        /\ Diagnose(c, "AlreadyDefined", i).diags = c.diags \cup {<<"AlreadyDefined", i>>}
    BY <1>1, <2>2, DiagnoseIs
  <2> HIDE DEF d
  <2>4. d \in Contexts /\ Untouched(c, d) /\ d.panicked = c.panicked
        /\ d.diags = c.diags \cup {<<"AlreadyDefined", i>>}
    BY <2>1, <2>3
  <2>5. Arena(d)
    BY <2>4, ArenaIsOfItsParts
  <2>6. Reported(c, d, i, Held(c, s, <<symbol, ns>>))
    BY <2>4, <1>3 DEF Reported
  <2> QED BY <2>4, <2>5, <2>6 DEF d
<1> QED BY <1>2, <1>3

(* After a step that only reports, the rest of a declaration.                  *)
LEMMA AddsAfterReport ==
  ASSUME NEW c, NEW m, NEW d, NEW W, NEW i, NEW R \in BOOLEAN,
         Untouched(c, m), c.panicked => m.panicked, Reported(c, m, i, R),
         Adds(m, d, W, i, FALSE)
  PROVE  Adds(c, d, W, i, R)
<1>1. Longer(c, d) /\ NewDefs(c, d, i) /\ EntersOnly(c, d, W) /\ SameRest(c, d)
  BY DEF Adds, Untouched, Longer, NewDefs, EntersOnly, SameRest
<1>2. Reported(c, d, i, R)
  BY DEF Adds, Reported
<1> QED BY <1>1, <1>2 DEF Adds

LEMMA DeclareIs ==
  ASSUME NEW c, Arena(c), NEW s \in 1..Len(c.scopes), NEW symbol \in Words, NEW def, NEW i \in Nat,
         Declarable(c, def), NewDef(def, i), Fits(def, s, NameOf(symbol, def))
  PROVE  LET d == Declare(c, s, symbol, i, def)
         IN  /\ Adds(c, d, {<<s, NameOf(symbol, def)>>}, i, Held(c, s, NameOf(symbol, def)))
             /\ SameOwn(c, d) /\ EnteredAs(c, d, s, symbol, def)
<1> DEFINE ns == Namespace(def.kind)
           m == CheckRedeclaration(c, s, symbol, ns, i)
           d == Add(m, s, symbol, def)
<1>1. Declare(c, s, symbol, i, def) = d
  BY DEF Declare
<1>2. ns \in Spaces
  BY DEF Namespace, Spaces
<1>3. Arena(m) /\ Untouched(c, m) /\ m.panicked = c.panicked /\ Reported(c, m, i, Held(c, s, <<symbol, ns>>))
  BY <1>2, CheckRedeclarationIs
<1> HIDE DEF m
<1>4. s \in 1..Len(m.scopes) /\ Declarable(m, def)
  BY <1>3 DEF Untouched, Declarable
<1>5. /\ Adds(m, d, {<<s, NameOf(symbol, def)>>}, i, FALSE) /\ SameOwn(m, d)
      /\ EnteredAs(m, d, s, symbol, def) /\ d.diags = m.diags
  BY <1>3, <1>4, AddIs
<1> HIDE DEF d
<1>6. Adds(c, d, {<<s, NameOf(symbol, def)>>}, i, Held(c, s, NameOf(symbol, def)))
  <2>1. Held(c, s, NameOf(symbol, def)) \in BOOLEAN /\ NameOf(symbol, def) = <<symbol, ns>>
    BY DEF Held, NameOf
  <2> QED BY <1>3, <1>5, <2>1, AddsAfterReport
<1>7. SameOwn(c, d) /\ EnteredAs(c, d, s, symbol, def)
  BY <1>3, <1>5 DEF Untouched, SameOwn, EnteredAs
<1> QED BY <1>1, <1>6, <1>7

MayDefine(c, kind, symbol, i, scope) ==
  /\ kind \in DefKinds /\ symbol \in Words /\ i \in Nat /\ scope \in Nat /\ Len(c.defs) \in Nat
  /\ scope <= Len(c.scopes) /\ (kind # "variant" => scope # NoScope)
  /\ symbol = SELF_TYPE => kind \in {"alias", "generic"}

LEMMA DefForIs ==
  ASSUME NEW c, NEW kind, NEW symbol, NEW i, NEW scope, MayDefine(c, kind, symbol, i, scope)
  PROVE  /\ Declarable(c, DefFor(kind, symbol, i, scope)) /\ NewDef(DefFor(kind, symbol, i, scope), i)
         /\ DefFor(kind, symbol, i, scope).kind = kind /\ DefFor(kind, symbol, i, scope).scope = scope
         /\ DefFor(kind, symbol, i, scope).symbol = symbol /\ ~DefFor(kind, symbol, i, scope).record
<1>1. ErrTy \in TyRecords /\ ErrTy.def = 0 /\ ErrTy.tag = "err"
  BY DEF ErrTy, TyRecords, NoDef
<1>2. <<>> \in Seq(TyRecords)
  OBVIOUS
<1>3. DefFor(kind, symbol, i, scope) \in DefRecords
  BY <1>1, <1>2 DEF MayDefine, DefFor, DefRecords, NoItem
<1> QED BY <1>1, <1>3 DEF MayDefine, DefFor, Declarable, NewDef, SelfRight

(* All that is new is a generic parameter or a variant.                        *)
Plain(c, d) == \A k \in (Len(c.defs) + 1)..Len(d.defs) : d.defs[k].kind \in {"generic", "variant"}

LEMMA OnePlain ==
  ASSUME NEW c, NEW d, Len(c.defs) \in Nat, Len(d.defs) = Len(c.defs) + 1,
         d.defs[Len(c.defs) + 1].kind \in {"generic", "variant"}
  PROVE  Plain(c, d)
<1>1. \A k \in (Len(c.defs) + 1)..Len(d.defs) : k = Len(c.defs) + 1
  OBVIOUS
<1> QED BY <1>1 DEF Plain

LEMMA PlainMore ==
  ASSUME NEW c, NEW d, NEW e, Len(c.defs) \in Nat, Len(d.defs) \in Nat, Len(e.defs) \in Nat,
         Longer(d, e), Plain(c, d), Plain(d, e)
  PROVE  Plain(c, e)
<1> SUFFICES ASSUME NEW k \in (Len(c.defs) + 1)..Len(e.defs) PROVE e.defs[k].kind \in {"generic", "variant"}
  BY DEF Plain
<1>1. CASE k <= Len(d.defs)
  <2>1. k \in (Len(c.defs) + 1)..Len(d.defs) /\ k \in 1..Len(d.defs)
    BY <1>1
  <2> QED BY <2>1 DEF Longer, Plain
<1>2. CASE k > Len(d.defs)
  <2>1. k \in (Len(d.defs) + 1)..Len(e.defs)
    BY <1>2
  <2> QED BY <2>1 DEF Plain
<1> QED BY <1>1, <1>2

LEMMA DeclareGenericIs ==
  ASSUME NEW c, Arena(c), NEW s \in 1..Len(c.scopes), NEW g \in Generics, NEW i \in Nat
  PROVE  LET d == DeclareGeneric(c, s, g, i)
         IN  Adds(c, d, {<<s, <<g.name, "types">>>>}, i, FALSE) /\ SameOwn(c, d) /\ Plain(c, d)
<1> DEFINE def == DefFor("generic", g.name, i, s)
<1>1. g.name \in Words /\ g.bound \in Seq(Words) /\ c \in Contexts
  BY DEF Generics, Paths, Words, Arena
<1>2. /\ Declarable(c, def) /\ NewDef(def, i) /\ def.kind = "generic" /\ def.scope = s /\ def.symbol = g.name
  <2>1. "generic" \in DefKinds
    BY DEF DefKinds
  <2>2. Len(c.defs) \in Nat /\ s \in Nat /\ s <= Len(c.scopes) /\ s # NoScope
    BY <1>1, Sizes DEF NoScope
  <2>3. MayDefine(c, "generic", g.name, i, s)
    BY <1>1, <2>1, <2>2 DEF MayDefine
  <2> QED BY <2>3, DefForIs
<1> HIDE DEF def
<1>3. ASSUME NEW x, x.kind = "generic", x.scope = s
      PROVE  NameOf(g.name, x) = <<g.name, "types">> /\ Fits(x, s, NameOf(g.name, x))
  BY <1>3 DEF NameOf, Namespace, Fits
<1>4. CASE g.bound = <<>>
  <2>1. DeclareGeneric(c, s, g, i) = Add(c, s, g.name, def)
    BY <1>4 DEF DeclareGeneric, def
  <2>2. Fits(def, s, NameOf(g.name, def)) /\ NameOf(g.name, def) = <<g.name, "types">>
    BY <1>2, <1>3
  <2>3. /\ Adds(c, Add(c, s, g.name, def), {<<s, NameOf(g.name, def)>>}, i, FALSE)
        /\ SameOwn(c, Add(c, s, g.name, def)) /\ EnteredAs(c, Add(c, s, g.name, def), s, g.name, def)
    BY <1>1, <1>2, <2>2, AddIs
  <2>4. Plain(c, Add(c, s, g.name, def))
    <3>1. Len(c.defs) \in Nat
      BY <1>1, Sizes
    <3> QED BY <1>2, <2>3, <3>1, OnePlain DEF EnteredAs
  <2> QED BY <2>1, <2>2, <2>3, <2>4
<1>5. CASE g.bound # <<>>
  <2> DEFINE l == LowerPathTy(c, s, g.bound, i)
             x == [def EXCEPT !.bounds = <<l.ty>>]
             d == Add(l.cx, s, g.name, x)
  <2>1. DeclareGeneric(c, s, g, i) = d
    BY <1>2, <1>5 DEF DeclareGeneric, AddBounded, def
  <2>2. Arena(l.cx) /\ Untouched(c, l.cx) /\ SameReports(c, l.cx) /\ TyOK(c, l.ty)
        /\ (c.panicked => l.cx.panicked)
    <3>1. s \in 0..Len(c.scopes)
      OBVIOUS
    <3> QED BY <1>1, <1>5, <3>1, LowerPathTyIs
  <2> HIDE DEF l
  <2>3. /\ x \in DefRecords /\ x.kind = "generic" /\ x.scope = s /\ x.of = def.of
        /\ x.item = def.item /\ x.collected = def.collected /\ x.checked = def.checked
    <3>1. <<l.ty>> \in Seq(TyRecords)
      BY <2>2 DEF TyOK
    <3> QED BY <1>2, <3>1 DEF DefRecords, Declarable
  <2> HIDE DEF x
  <2>4. Declarable(l.cx, x) /\ NewDef(x, i)
    BY <1>2, <2>2, <2>3 DEF Declarable, NewDef, Untouched, SelfRight
  <2>5. Fits(x, s, NameOf(g.name, x)) /\ NameOf(g.name, x) = <<g.name, "types">> /\ s \in 1..Len(l.cx.scopes)
    BY <1>3, <2>2, <2>3 DEF Untouched
  <2>6. Adds(l.cx, d, {<<s, NameOf(g.name, x)>>}, i, FALSE) /\ SameOwn(l.cx, d)
        /\ EnteredAs(l.cx, d, s, g.name, x)
    BY <1>1, <2>2, <2>4, <2>5, AddIs
  <2> HIDE DEF d
  <2>7. Reported(c, l.cx, i, FALSE)
    BY <2>2 DEF SameReports, Reported
  <2>8. Adds(c, d, {<<s, NameOf(g.name, x)>>}, i, FALSE)
    BY <2>2, <2>6, <2>7, AddsAfterReport
  <2>9. SameOwn(c, d)
    BY <2>2, <2>6 DEF SameOwn, Untouched
  <2>10. Plain(c, d)
    <3>1. Len(c.defs) \in Nat
      BY <1>1, Sizes
    <3>2. Len(d.defs) = Len(c.defs) + 1 /\ d.defs[Len(c.defs) + 1] = x
      BY <2>2, <2>6 DEF EnteredAs, Untouched
    <3> QED BY <2>3, <3>1, <3>2, OnePlain
  <2> QED BY <2>1, <2>5, <2>8, <2>9, <2>10
<1> QED BY <1>4, <1>5

GenericNames(s, generics, k) == {<<s, <<generics[j].name, "types">>>> : j \in 1..k}

LEMMA DeclareGenericParamsIs ==
  ASSUME NEW c, Arena(c), NEW s \in 1..Len(c.scopes), NEW generics \in Seq(Generics), NEW i \in Nat
  PROVE  LET d == DeclareGenericParams(c, s, generics, i)
         IN  Adds(c, d, GenericNames(s, generics, Len(generics)), i, FALSE) /\ SameOwn(c, d) /\ Plain(c, d)
<1> DEFINE N == Len(generics)
           T == {v \in Contexts : Arena(v) /\ Len(v.scopes) = Len(c.scopes)}
           Step(k, v) == DeclareGeneric(v, s, generics[k], i)
           step == [p \in (1..N) \X T |-> Step(p[1], p[2])]
<1>1. N \in Nat /\ c \in T
  BY DEF Arena
<1>2. ASSUME NEW k \in 1..N, NEW v \in T
      PROVE  /\ Adds(v, Step(k, v), {<<s, <<generics[k].name, "types">>>>}, i, FALSE) /\ SameOwn(v, Step(k, v))
             /\ Step(k, v) \in T /\ Plain(v, Step(k, v))
  <2>1. s \in 1..Len(v.scopes) /\ generics[k] \in Generics
    OBVIOUS
  <2>2. Adds(v, Step(k, v), {<<s, <<generics[k].name, "types">>>>}, i, FALSE) /\ SameOwn(v, Step(k, v))
        /\ Plain(v, Step(k, v))
    BY <2>1, DeclareGenericIs
  <2> HIDE DEF Step
  <2>3. Arena(Step(k, v)) /\ Len(Step(k, v).scopes) = Len(v.scopes) /\ Step(k, v) \in Contexts
    BY <2>2 DEF Adds, EntersOnly, Arena
  <2> QED BY <2>2, <2>3
<1>3. \A v \in T : Arena(v)
  OBVIOUS
<1> HIDE DEF T, Step, N
<1>4. \A k \in 1..N : \A v \in T : step[<<k, v>>] = Step(k, v) /\ step[<<k, v>>] \in T
  BY <1>2
<1> HIDE DEF step
<1>5. PICK f \in [0..N -> T] : f[0] = c /\ \A n \in 1..N : f[n] = step[<<n, f[n - 1]>>]
  <2>1. ByRecursion(N, T, c, step) # {}
    BY <1>1, <1>4, Recursion
  <2> QED BY <2>1 DEF ByRecursion
<1>6. f = [k \in 0..N |-> IF k = 0 THEN c ELSE Step(k, f[k - 1])]
  <2> SUFFICES ASSUME NEW n \in 0..N PROVE f[n] = IF n = 0 THEN c ELSE Step(n, f[n - 1])
    OBVIOUS
  <2>1. CASE n = 0
    BY <1>5, <2>1
  <2>2. CASE n # 0
    <3>1. n \in 1..N /\ f[n - 1] \in T
      BY <1>1, <1>5, <2>2
    <3> QED BY <3>1, <1>4, <1>5, <2>2
  <2> QED BY <2>1, <2>2
<1> DEFINE cxs == CHOOSE g : g = [k \in 0..N |-> IF k = 0 THEN c ELSE Step(k, g[k - 1])]
<1>7. cxs = [k \in 0..N |-> IF k = 0 THEN c ELSE Step(k, cxs[k - 1])]
  BY <1>6
<1>8. DeclareGenericParams(c, s, generics, i) = cxs[N]
  BY DEF DeclareGenericParams, After, Step, N
<1> HIDE DEF cxs
<1> DEFINE Right(n) == /\ cxs[n] \in T /\ SameOwn(c, cxs[n]) /\ Plain(c, cxs[n])
                       /\ Adds(c, cxs[n], GenericNames(s, generics, n), i, FALSE)
<1>9. Right(0)
  <2>1. cxs[0] = c
    BY <1>1, <1>7
  <2>2. GenericNames(s, generics, 0) = {}
    BY DEF GenericNames
  <2>3. Plain(c, c)
    BY <1>1, Sizes DEF Plain
  <2> QED BY <1>1, <2>1, <2>2, <2>3, AddsNothing DEF SameOwn
<1>10. ASSUME NEW n \in Nat, n + 1 <= N, Right(n) PROVE Right(n + 1)
  <2>1. n + 1 \in 1..N /\ n + 1 \in 0..N /\ (n + 1) - 1 = n /\ n + 1 # 0
    BY <1>1, <1>10
  <2>2. /\ cxs[n] \in T /\ SameOwn(c, cxs[n]) /\ Plain(c, cxs[n])
        /\ Adds(c, cxs[n], GenericNames(s, generics, n), i, FALSE)
    BY <1>10
  <2>3. cxs[n + 1] = Step(n + 1, cxs[n])
    BY <1>7, <2>1
  <2>4. /\ Adds(cxs[n], cxs[n + 1], {<<s, <<generics[n + 1].name, "types">>>>}, i, FALSE)
        /\ SameOwn(cxs[n], cxs[n + 1]) /\ cxs[n + 1] \in T /\ Plain(cxs[n], cxs[n + 1])
    BY <1>2, <2>1, <2>2, <2>3
  <2>5. Adds(c, cxs[n + 1], GenericNames(s, generics, n) \cup {<<s, <<generics[n + 1].name, "types">>>>},
             i, FALSE)
    BY <2>2, <2>4, AddsMore
  <2>6. GenericNames(s, generics, n) \cup {<<s, <<generics[n + 1].name, "types">>>>}
          = GenericNames(s, generics, n + 1)
    <3>1. 1..(n + 1) = (1..n) \cup {n + 1}
      OBVIOUS
    <3> QED BY <3>1 DEF GenericNames
  <2>8. SameOwn(c, cxs[n + 1])
    BY <2>2, <2>4 DEF SameOwn
  <2>9. Plain(c, cxs[n + 1])
    <3>1. Len(c.defs) \in Nat /\ Len(cxs[n].defs) \in Nat /\ Len(cxs[n + 1].defs) \in Nat
      BY <1>1, <1>3, <2>2, <2>4, Sizes DEF Arena
    <3> QED BY <2>2, <2>4, <3>1, PlainMore DEF Adds
  <2> QED BY <2>4, <2>5, <2>6, <2>8, <2>9
<1>11. Right(N)
  <2> HIDE DEF Right
  <2> DEFINE S == {n \in Nat : n <= N => Right(n)}
  <2>1. 0 \in S
    BY <1>9
  <2>2. \A n \in Nat : n \in S => n + 1 \in S
    BY <1>1, <1>10
  <2>3. N \in S
    <3> HIDE DEF S
    <3> QED BY <1>1, <2>1, <2>2, EveryNatural
  <2> QED BY <1>1, <2>3
<1> QED BY <1>8, <1>11 DEF N

(* A scope has a name once it was entered there.                               *)
LEMMA HeldAfter ==
  ASSUME NEW c, Arena(c), NEW d, NEW W, NEW i, NEW R, Adds(c, d, W, i, R),
         NEW s \in 1..Len(c.scopes), NEW e \in Entries
  PROVE  Held(d, s, e) <=> (Held(c, s, e) \/ <<s, e>> \in W)
<1>1. Len(c.defs) \in Nat
  BY Sizes DEF Arena
<1>2. IF <<s, e>> \in W THEN d.scopes[s].entries[e] \in (Len(c.defs) + 1)..Len(d.defs)
      ELSE d.scopes[s].entries[e] = c.scopes[s].entries[e]
  BY DEF Adds, EntersOnly
<1>3. CASE <<s, e>> \in W
  <2>1. d.scopes[s].entries[e] \in (Len(c.defs) + 1)..Len(d.defs)
    BY <1>2, <1>3
  <2>2. d.scopes[s].entries[e] # 0
    BY ONLY <2>1, <1>1
  <2> QED BY <2>2, <1>3 DEF Held, NoDef
<1>4. CASE <<s, e>> \notin W
  BY <1>2, <1>4 DEF Held
<1> QED BY <1>3, <1>4

VariantNames(s, variants, k) == {<<s, <<variants[j], "values">>>> : j \in 1..k}
VariantsRepeat(variants, k) == \E v, w \in 1..k : v # w /\ variants[v] = variants[w]

LEMMA DeclareVariantsIs ==
  ASSUME NEW c, Arena(c), NEW s \in 1..Len(c.scopes), NEW variants \in Seq(Symbols), NEW i \in Nat,
         \A symbol \in Words : ~Held(c, s, <<symbol, "values">>)
  PROVE  LET d == DeclareVariants(c, s, variants, i)
         IN  /\ Adds(c, d, VariantNames(s, variants, Len(variants)), i, VariantsRepeat(variants, Len(variants)))
             /\ SameOwn(c, d) /\ Plain(c, d)
<1> DEFINE N == Len(variants)
           T == {v \in Contexts : Arena(v) /\ Len(v.scopes) = Len(c.scopes)}
           Def(k) == DefFor("variant", variants[k], i, NoScope)
           Step(k, v) == Declare(v, s, variants[k], i, Def(k))
           step == [p \in (1..N) \X T |-> Step(p[1], p[2])]
           Name(k) == <<variants[k], "values">>
<1>1. N \in Nat /\ c \in T
  BY DEF Arena
<1>2. ASSUME NEW k \in 1..N PROVE variants[k] \in Words /\ Name(k) \in Entries
  BY DEF Words, Entries, Spaces
<1>3. ASSUME NEW k \in 1..N, NEW v \in T
      PROVE  /\ Adds(v, Step(k, v), {<<s, Name(k)>>}, i, Held(v, s, Name(k))) /\ SameOwn(v, Step(k, v))
             /\ Step(k, v) \in T /\ Plain(v, Step(k, v))
  <2>1. s \in 1..Len(v.scopes) /\ variants[k] \in Words /\ Len(v.defs) \in Nat /\ NoScope \in Nat
        /\ NoScope <= Len(v.scopes) /\ "variant" \in DefKinds /\ variants[k] # SELF_TYPE
    <3>1. s \in 1..Len(v.scopes) /\ Len(v.defs) \in Nat /\ Len(v.scopes) \in Nat
      BY Sizes
    <3>2. "variant" \in DefKinds
      BY DEF DefKinds
    <3>3. variants[k] \in Words
      BY <1>2
    <3>4. variants[k] # SELF_TYPE
      BY NamesAssumption
    <3> QED BY <3>1, <3>2, <3>3, <3>4 DEF NoScope
  <2>2. Declarable(v, Def(k)) /\ NewDef(Def(k), i) /\ Def(k).kind = "variant"
    <3>1. MayDefine(v, "variant", variants[k], i, NoScope)
      BY <2>1 DEF MayDefine
    <3> QED BY <3>1, DefForIs
  <2> HIDE DEF Def
  <2>3. NameOf(variants[k], Def(k)) = Name(k) /\ Fits(Def(k), s, NameOf(variants[k], Def(k)))
    BY <2>2 DEF NameOf, Namespace, Fits
  <2>4. /\ Adds(v, Step(k, v), {<<s, NameOf(variants[k], Def(k))>>}, i, Held(v, s, NameOf(variants[k], Def(k))))
        /\ SameOwn(v, Step(k, v)) /\ EnteredAs(v, Step(k, v), s, variants[k], Def(k))
    BY <2>1, <2>2, <2>3, DeclareIs
  <2> HIDE DEF Step
  <2>6. Plain(v, Step(k, v))
    BY <2>1, <2>2, <2>4, OnePlain DEF EnteredAs
  <2>5. Arena(Step(k, v)) /\ Len(Step(k, v).scopes) = Len(v.scopes) /\ Step(k, v) \in Contexts
    BY <2>4 DEF Adds, EntersOnly, Arena
  <2> QED BY <2>3, <2>4, <2>5, <2>6
<1>4. \A v \in T : Arena(v) /\ Len(v.scopes) = Len(c.scopes)
  OBVIOUS
<1> HIDE DEF T, Step, N
<1>5. \A k \in 1..N : \A v \in T : step[<<k, v>>] = Step(k, v) /\ step[<<k, v>>] \in T
  BY <1>3
<1> HIDE DEF step
<1>6. PICK f \in [0..N -> T] : f[0] = c /\ \A n \in 1..N : f[n] = step[<<n, f[n - 1]>>]
  <2>1. ByRecursion(N, T, c, step) # {}
    BY <1>1, <1>5, Recursion
  <2> QED BY <2>1 DEF ByRecursion
<1>7. f = [k \in 0..N |-> IF k = 0 THEN c ELSE Step(k, f[k - 1])]
  <2> SUFFICES ASSUME NEW n \in 0..N PROVE f[n] = IF n = 0 THEN c ELSE Step(n, f[n - 1])
    OBVIOUS
  <2>1. CASE n = 0
    BY <1>6, <2>1
  <2>2. CASE n # 0
    <3>1. n \in 1..N /\ f[n - 1] \in T
      BY <1>1, <1>6, <2>2
    <3> QED BY <3>1, <1>5, <1>6, <2>2
  <2> QED BY <2>1, <2>2
<1> DEFINE cxs == CHOOSE g : g = [k \in 0..N |-> IF k = 0 THEN c ELSE Step(k, g[k - 1])]
<1>8. cxs = [k \in 0..N |-> IF k = 0 THEN c ELSE Step(k, cxs[k - 1])]
  BY <1>7
<1>9. DeclareVariants(c, s, variants, i) = cxs[N]
  BY DEF DeclareVariants, After, Step, N
<1> HIDE DEF cxs
<1> DEFINE Right(n) == /\ cxs[n] \in T /\ SameOwn(c, cxs[n]) /\ Plain(c, cxs[n])
                       /\ Adds(c, cxs[n], VariantNames(s, variants, n), i, VariantsRepeat(variants, n))
<1>10. Right(0)
  <2>1. cxs[0] = c
    BY <1>1, <1>8
  <2>2. VariantNames(s, variants, 0) = {} /\ VariantsRepeat(variants, 0) = FALSE
    BY DEF VariantNames, VariantsRepeat
  <2>3. Plain(c, c)
    BY <1>1, Sizes DEF Plain
  <2> QED BY <1>1, <2>1, <2>2, <2>3, AddsNothing DEF SameOwn
<1>11. ASSUME NEW n \in Nat, n + 1 <= N, Right(n) PROVE Right(n + 1)
  <2>1. n + 1 \in 1..N /\ n + 1 \in 0..N /\ (n + 1) - 1 = n /\ n + 1 # 0
    BY <1>1, <1>11
  <2>2. /\ cxs[n] \in T /\ SameOwn(c, cxs[n]) /\ Plain(c, cxs[n])
        /\ Adds(c, cxs[n], VariantNames(s, variants, n), i, VariantsRepeat(variants, n))
    BY <1>11
  <2>3. cxs[n + 1] = Step(n + 1, cxs[n])
    BY <1>8, <2>1
  <2>4. /\ Adds(cxs[n], cxs[n + 1], {<<s, Name(n + 1)>>}, i, Held(cxs[n], s, Name(n + 1)))
        /\ SameOwn(cxs[n], cxs[n + 1]) /\ cxs[n + 1] \in T /\ Plain(cxs[n], cxs[n + 1])
    BY <1>3, <2>1, <2>2, <2>3
  <2>5. Held(cxs[n], s, Name(n + 1)) <=> \E j \in 1..n : variants[j] = variants[n + 1]
    <3>1. Name(n + 1) \in Entries /\ ~Held(c, s, Name(n + 1))
      BY <1>2, <2>1
    <3>2. Held(cxs[n], s, Name(n + 1)) <=> <<s, Name(n + 1)>> \in VariantNames(s, variants, n)
      <4> HIDE DEF Name
      <4> QED BY <2>2, <3>1, HeldAfter
    <3> QED BY <3>2 DEF VariantNames
  <2>6. VariantsRepeat(variants, n + 1)
          <=> (VariantsRepeat(variants, n) \/ Held(cxs[n], s, Name(n + 1)))
    <3>1. 1..(n + 1) = (1..n) \cup {n + 1} /\ n + 1 \notin 1..n
      OBVIOUS
    <3> QED BY <3>1, <2>5 DEF VariantsRepeat
  <2>7. VariantNames(s, variants, n) \cup {<<s, Name(n + 1)>>} = VariantNames(s, variants, n + 1)
    <3>1. 1..(n + 1) = (1..n) \cup {n + 1}
      OBVIOUS
    <3> QED BY <3>1 DEF VariantNames
  <2>8. Adds(c, cxs[n + 1], VariantNames(s, variants, n) \cup {<<s, Name(n + 1)>>},
             i, VariantsRepeat(variants, n + 1))
    <3> HIDE DEF Name
    <3> QED BY <2>2, <2>4, <2>6, AddsMore
  <2>9. SameOwn(c, cxs[n + 1])
    BY <2>2, <2>4 DEF SameOwn
  <2>10. Plain(c, cxs[n + 1])
    <3>1. Len(c.defs) \in Nat /\ Len(cxs[n].defs) \in Nat /\ Len(cxs[n + 1].defs) \in Nat
      BY <1>1, <1>4, <2>2, <2>4, Sizes DEF Arena
    <3> QED BY <2>2, <2>4, <3>1, PlainMore DEF Adds
  <2> QED BY <2>4, <2>7, <2>8, <2>9, <2>10
<1>12. Right(N)
  <2> HIDE DEF Right
  <2> DEFINE S == {n \in Nat : n <= N => Right(n)}
  <2>1. 0 \in S
    BY <1>10
  <2>2. \A n \in Nat : n \in S => n + 1 \in S
    BY <1>1, <1>11
  <2>3. N \in S
    <3> HIDE DEF S
    <3> QED BY <1>1, <2>1, <2>2, EveryNatural
  <2> QED BY <1>1, <2>3
<1> QED BY <1>9, <1>12 DEF N

(***************************************************************************)
(* Resolving an item.                                                      *)
(***************************************************************************)
(* What item i is given: the scope n and the definition k.                     *)
Owns(c, d, i, n, k) == d.own = [c.own EXCEPT ![i] = n] /\ d.def = [c.def EXCEPT ![i] = k]

LEMMA OwnIs ==
  ASSUME NEW c, Arena(c), NEW i \in Ids
  PROVE  /\ Arena(Own(c, i)) /\ Own(c, i).scopes = c.scopes /\ Own(c, i).defs = c.defs
         /\ SameRest(c, Own(c, i)) /\ Own(c, i).diags = c.diags
         /\ Owns(c, Own(c, i), i, Len(c.scopes), Len(c.defs))
<1> DEFINE d == Own(c, i)
<1>1. c \in Contexts /\ Len(c.scopes) \in Nat /\ Len(c.defs) \in Nat
  BY Sizes DEF Arena
<1>2. c.own \in [Ids -> Nat] /\ c.def \in [Ids -> Nat]
  BY <1>1 DEF Contexts
<1>3. [c.own EXCEPT ![i] = Len(c.scopes)] \in [Ids -> Nat] /\ [c.def EXCEPT ![i] = Len(c.defs)] \in [Ids -> Nat]
  BY <1>1, <1>2
<1>4. /\ d \in Contexts /\ d.scopes = c.scopes /\ d.defs = c.defs /\ d.diags = c.diags /\ SameRest(c, d)
      /\ d.own = [c.own EXCEPT ![i] = Len(c.scopes)] /\ d.def = [c.def EXCEPT ![i] = Len(c.defs)]
  BY <1>1, <1>3 DEF Own, Contexts, SameRest
<1> HIDE DEF d
<1>5. \A s \in 1..Len(d.scopes) : ScopeOK(d, s)
  BY <1>4 DEF Arena, ScopeOK
<1>6. Longer(c, d) /\ Len(d.scopes) >= Len(c.scopes) /\ d.impls = c.impls
  BY <1>1, <1>4 DEF Longer, SameRest
<1>7. \A k \in (Len(c.defs) + 1)..Len(d.defs) : DefOK(d, d.defs[k])
  BY <1>1, <1>4
<1>8. \A x \in Ids : d.own[x] <= Len(d.scopes) /\ d.at[x] <= Len(d.scopes) /\ d.def[x] <= Len(d.defs)
  BY <1>1, <1>2, <1>4 DEF Arena, SameRest
<1>9. Arena(d)
  BY <1>4, <1>5, <1>6, <1>7, <1>8, ArenaGrows
<1> QED BY <1>4, <1>9 DEF d, Owns

LEMMA DeclareItemIs ==
  ASSUME NEW c, Arena(c), NEW s \in 1..Len(c.scopes), NEW f, f.name \in Words, NEW def, NEW i \in Ids,
         Declarable(c, def), NewDef(def, i), Fits(def, s, NameOf(f.name, def))
  PROVE  LET d == DeclareItem(c, s, f, i, def)
         IN  /\ Adds(c, d, {<<s, NameOf(f.name, def)>>}, i, Held(c, s, NameOf(f.name, def)))
             /\ EnteredAs(c, d, s, f.name, def) /\ Owns(c, d, i, Len(c.scopes), Len(c.defs) + 1)
<1> DEFINE m == Declare(c, s, f.name, i, def)
           d == Own(m, i)
           e == NameOf(f.name, def)
<1>1. DeclareItem(c, s, f, i, def) = d
  BY DEF DeclareItem
<1>2. i \in Nat
  BY DEF Ids
<1>3. Adds(c, m, {<<s, e>>}, i, Held(c, s, e)) /\ SameOwn(c, m) /\ EnteredAs(c, m, s, f.name, def)
  BY <1>2, DeclareIs
<1> HIDE DEF m
<1>4. Arena(m)
  BY <1>3 DEF Adds
<1>5. /\ Arena(d) /\ d.scopes = m.scopes /\ d.defs = m.defs /\ SameRest(m, d) /\ d.diags = m.diags
      /\ Owns(m, d, i, Len(m.scopes), Len(m.defs))
  BY <1>4, OwnIs
<1> HIDE DEF d
<1>6. Adds(c, d, {<<s, e>>}, i, Held(c, s, e))
  <2> HIDE DEF e
  <2>1. Longer(c, d) /\ NewDefs(c, d, i) /\ EntersOnly(c, d, {<<s, e>>}) /\ SameRest(c, d)
    BY <1>3, <1>5 DEF Adds, Longer, NewDefs, EntersOnly, SameRest
  <2>2. Reported(c, d, i, Held(c, s, e))
    BY <1>3, <1>5 DEF Adds, Reported
  <2> QED BY <1>5, <2>1, <2>2 DEF Adds
<1>7. EnteredAs(c, d, s, f.name, def)
  BY <1>3, <1>5 DEF EnteredAs
<1>8. Owns(c, d, i, Len(c.scopes), Len(c.defs) + 1)
  BY <1>3, <1>5 DEF Owns, SameOwn, EnteredAs, Adds, EntersOnly
<1> QED BY <1>1, <1>6, <1>7, <1>8

(* A definition that is there entered under another name.                      *)
LEMMA EnterIs ==
  ASSUME NEW c, Arena(c), NEW s \in 1..Len(c.scopes), NEW symbol \in Words, NEW ns \in Spaces,
         NEW k \in 1..Len(c.defs), Fits(c.defs[k], s, <<symbol, ns>>)
  PROVE  Arena(Insert(c, s, symbol, k, ns)) /\ Inserted(c, Insert(c, s, symbol, k, ns), s, symbol, ns, k)
<1> DEFINE d == Insert(c, s, symbol, k, ns)
           x == <<symbol, ns>>
<1>1. c \in Contexts /\ Len(c.scopes) \in Nat /\ Len(c.defs) \in Nat /\ k \in Nat
  BY Sizes DEF Arena
<1>2. Inserted(c, d, s, symbol, ns, k)
  BY <1>1, InsertIs
<1> HIDE DEF d
<1>3. /\ d \in Contexts /\ Len(d.scopes) = Len(c.scopes) /\ d.defs = c.defs /\ SameOwn(c, d) /\ SameRest(c, d)
      /\ \A t \in 1..Len(c.scopes) :
           /\ d.scopes[t].parent = c.scopes[t].parent
           /\ \A e \in Entries : d.scopes[t].entries[e] = IF t = s /\ e = x THEN k ELSE c.scopes[t].entries[e]
  BY <1>2 DEF Inserted
<1>4. \A t \in 1..Len(d.scopes) : ScopeOK(d, t)
  <2> SUFFICES ASSUME NEW t \in 1..Len(c.scopes) PROVE ScopeOK(d, t)
    BY <1>3
  <2>1. ScopeOK(c, t)
    BY DEF Arena
  <2> HIDE DEF x
  <2>2. ASSUME NEW e \in Entries
        PROVE  /\ d.scopes[t].entries[e] <= Len(d.defs)
               /\ d.scopes[t].entries[e] # NoDef => Fits(d.defs[d.scopes[t].entries[e]], t, e)
    <3>1. CASE t = s /\ e = x
      <4>1. d.scopes[t].entries[e] = k
        BY <1>3, <3>1
      <4> QED BY <1>1, <1>3, <3>1, <4>1 DEF x
    <3>2. CASE ~(t = s /\ e = x)
      BY <1>3, <2>1, <3>2 DEF ScopeOK
    <3> QED BY <3>1, <3>2
  <2> QED BY <1>3, <2>1, <2>2 DEF ScopeOK
<1>5. Longer(c, d) /\ Len(d.scopes) >= Len(c.scopes) /\ d.impls = c.impls
  BY <1>1, <1>3 DEF Longer, SameRest
<1>6. \A n \in (Len(c.defs) + 1)..Len(d.defs) : DefOK(d, d.defs[n])
  BY <1>1, <1>3
<1>7. \A j \in Ids : d.own[j] <= Len(d.scopes) /\ d.at[j] <= Len(d.scopes) /\ d.def[j] <= Len(d.defs)
  BY <1>1, <1>3 DEF Arena, SameRest, SameOwn
<1>8. Arena(d)
  BY <1>3, <1>4, <1>5, <1>6, <1>7, ArenaGrows
<1> QED BY <1>2, <1>8 DEF d

(* Whether what an item declares is there already.                             *)
Clashes(c, s, f) == \E e \in NamesOf(f) : Held(c, s, e)
EntersOf(s, f) == {<<s, e>> : e \in NamesOf(f)}

Declared(c, d, s, i, f, def) ==
  /\ Adds(c, d, EntersOf(s, f), i, Clashes(c, s, f))
  /\ Owns(c, d, i, Len(c.scopes), Len(c.defs) + 1)
  /\ Len(d.defs) = Len(c.defs) + 1 /\ d.defs[Len(c.defs) + 1] = def
  /\ \A e \in NamesOf(f) : d.scopes[s].entries[e] = Len(c.defs) + 1

NamedKinds == {"fn", "alias", "enum", "struct", "trait", "mod"}
Constructor(f) == f.kind = "struct" /\ f.shape # "record"

LEMMA DeclaredIs ==
  ASSUME NEW c, Arena(c), NEW s \in 1..Len(c.scopes), NEW f, f.name \in Words, NEW def, NEW i \in Ids,
         Declarable(c, def), NewDef(def, i), f.kind \in NamedKinds, def.kind = f.kind, ~Constructor(f)
  PROVE  Declared(c, DeclareItem(c, s, f, i, def), s, i, f, def)
<1> DEFINE d == DeclareItem(c, s, f, i, def)
           e == NameOf(f.name, def)
<1>1. NamesOf(f) = {e}
  BY DEF NamesOf, NameOf, Namespace, NamedKinds, Constructor
<1>2. Fits(def, s, e)
  BY DEF Fits, NameOf, Namespace, NamedKinds
<1>3. Adds(c, d, {<<s, e>>}, i, Held(c, s, e)) /\ EnteredAs(c, d, s, f.name, def)
      /\ Owns(c, d, i, Len(c.scopes), Len(c.defs) + 1)
  BY <1>2, DeclareItemIs
<1> HIDE DEF d, e
<1>4. EntersOf(s, f) = {<<s, e>>} /\ (Clashes(c, s, f) <=> Held(c, s, e))
  BY <1>1 DEF EntersOf, Clashes
<1>5. Adds(c, d, EntersOf(s, f), i, Clashes(c, s, f))
  <2>1. Reported(c, d, i, Clashes(c, s, f))
    BY <1>3, <1>4 DEF Adds, Reported
  <2> QED BY <1>3, <1>4, <2>1 DEF Adds
<1>6. \A x \in NamesOf(f) : d.scopes[s].entries[x] = Len(c.defs) + 1
  BY <1>1, <1>3 DEF EnteredAs, e
<1> QED BY <1>3, <1>5, <1>6 DEF Declared, EnteredAs, d

LEMMA ConstructorIs ==
  ASSUME NEW c, Arena(c), NEW s \in 1..Len(c.scopes), NEW f, f.name \in Words, NEW def, NEW i \in Ids,
         Declarable(c, def), NewDef(def, i), Constructor(f), def.kind = "struct", ~def.record
  PROVE  Declared(c, AlsoValue(DeclareItem(c, s, f, i, def), s, f.name, i), s, i, f, def)
<1> DEFINE m == DeclareItem(c, s, f, i, def)
           r == CheckRedeclaration(m, s, f.name, "values", i)
           d == Insert(r, s, f.name, Len(m.defs), "values")
           ty == <<f.name, "types">>
           v == <<f.name, "values">>
           k == Len(c.defs) + 1
<1>1. AlsoValue(m, s, f.name, i) = d
  BY DEF AlsoValue
<1>2. NamesOf(f) = {ty, v} /\ ty # v /\ NameOf(f.name, def) = ty
  BY DEF NamesOf, NameOf, Namespace, Constructor
<1>3. Fits(def, s, ty) /\ Fits(def, s, v)
  BY DEF Fits
<1>4. "values" \in Spaces /\ ty \in Entries /\ v \in Entries /\ i \in Nat /\ Len(c.defs) \in Nat
  BY Sizes DEF Spaces, Entries, Words, Ids, Arena
<1>5. Adds(c, m, {<<s, ty>>}, i, Held(c, s, ty)) /\ EnteredAs(c, m, s, f.name, def)
      /\ Owns(c, m, i, Len(c.scopes), k)
  <2> HIDE DEF m
  <2>1. Adds(c, m, {<<s, NameOf(f.name, def)>>}, i, Held(c, s, NameOf(f.name, def)))
        /\ EnteredAs(c, m, s, f.name, def) /\ Owns(c, m, i, Len(c.scopes), Len(c.defs) + 1)
    BY <1>2, <1>3, DeclareItemIs DEF m
  <2> QED BY <1>2, <2>1
<1> HIDE DEF m
<1>6. Arena(m) /\ s \in 1..Len(m.scopes) /\ Len(m.defs) = k /\ m.defs[k] = def /\ m.scopes[s].entries[ty] = k
  BY <1>2, <1>5 DEF Adds, EntersOnly, EnteredAs
<1>7. Arena(r) /\ Untouched(m, r) /\ r.panicked = m.panicked /\ Reported(m, r, i, Held(m, s, v))
  BY <1>4, <1>6, CheckRedeclarationIs
<1> HIDE DEF r
<1>8. Held(m, s, v) <=> Held(c, s, v)
  <2>1. v # ty /\ <<s, v>> \notin {<<s, ty>>}
    BY <1>2
  <2> HIDE DEF v, ty
  <2> QED BY <1>4, <1>5, <2>1, HeldAfter
<1>9. Arena(d) /\ Inserted(r, d, s, f.name, "values", k)
  <2>1. s \in 1..Len(r.scopes) /\ k \in 1..Len(r.defs) /\ Fits(r.defs[k], s, v)
    BY <1>3, <1>4, <1>6, <1>7 DEF Untouched
  <2>2. d = Insert(r, s, f.name, k, "values")
    BY <1>6
  <2> HIDE DEF d, k
  <2> QED BY <1>4, <1>7, <2>1, <2>2, EnterIs
<1> HIDE DEF d
<1>10. /\ Len(d.scopes) = Len(m.scopes) /\ d.defs = m.defs /\ SameOwn(m, d) /\ SameRest(m, d)
       /\ d.diags = r.diags
       /\ \A t \in 1..Len(m.scopes) :
            /\ d.scopes[t].parent = m.scopes[t].parent
            /\ \A e \in Entries : d.scopes[t].entries[e] = IF t = s /\ e = v THEN k ELSE m.scopes[t].entries[e]
  BY <1>7, <1>9 DEF Inserted, Untouched, SameOwn, SameRest
<1> HIDE DEF ty, v
<1>11. EntersOf(s, f) = {<<s, ty>>, <<s, v>>} /\ (Clashes(c, s, f) <=> Held(c, s, ty) \/ Held(c, s, v))
  BY <1>2 DEF EntersOf, Clashes
<1>12. Adds(c, d, EntersOf(s, f), i, Clashes(c, s, f))
  <2>1. Longer(c, d) /\ NewDefs(c, d, i) /\ SameRest(c, d)
    BY <1>5, <1>10 DEF Adds, Longer, NewDefs, SameRest
  <2>2. EntersOnly(c, d, EntersOf(s, f))
    <3>1. Len(m.scopes) = Len(c.scopes) /\ Len(d.scopes) = Len(c.scopes) /\ Len(d.defs) = k
      BY <1>5, <1>6, <1>10 DEF Adds, EntersOnly
    <3>2. ASSUME NEW t \in 1..Len(c.scopes)
          PROVE  /\ d.scopes[t].parent = c.scopes[t].parent
                 /\ \A e \in Entries :
                      IF <<t, e>> \in EntersOf(s, f) THEN d.scopes[t].entries[e] \in (Len(c.defs) + 1)..Len(d.defs)
                      ELSE d.scopes[t].entries[e] = c.scopes[t].entries[e]
      <4>1. d.scopes[t].parent = c.scopes[t].parent
        BY <1>5, <1>10, <3>1 DEF Adds, EntersOnly
      <4>2. ASSUME NEW e \in Entries
            PROVE  IF <<t, e>> \in EntersOf(s, f) THEN d.scopes[t].entries[e] \in (Len(c.defs) + 1)..Len(d.defs)
                   ELSE d.scopes[t].entries[e] = c.scopes[t].entries[e]
        <5>1. d.scopes[t].entries[e] = IF t = s /\ e = v THEN k ELSE m.scopes[t].entries[e]
          BY <1>10, <3>1
        <5>2. IF <<t, e>> \in {<<s, ty>>} THEN m.scopes[t].entries[e] \in (Len(c.defs) + 1)..Len(m.defs)
              ELSE m.scopes[t].entries[e] = c.scopes[t].entries[e]
          BY <1>5 DEF Adds, EntersOnly
        <5>3. k \in (Len(c.defs) + 1)..Len(d.defs)
          BY <1>4, <3>1
        <5>4. <<t, e>> \in EntersOf(s, f) <=> (t = s /\ e = v) \/ <<t, e>> \in {<<s, ty>>}
          BY <1>11
        <5> QED BY <1>10, <5>1, <5>2, <5>3, <5>4
      <4> QED BY <4>1, <4>2
    <3> QED BY <3>1, <3>2 DEF EntersOnly
  <2>3. Reported(c, d, i, Clashes(c, s, f))
    <3> SUFFICES ASSUME NEW x
                 PROVE  <<"AlreadyDefined", x>> \in d.diags
                          <=> (<<"AlreadyDefined", x>> \in c.diags \/ (x = i /\ Clashes(c, s, f)))
      BY DEF Reported
    <3>1. <<"AlreadyDefined", x>> \in m.diags
            <=> (<<"AlreadyDefined", x>> \in c.diags \/ (x = i /\ Held(c, s, ty)))
      BY <1>5 DEF Adds, Reported
    <3>2. <<"AlreadyDefined", x>> \in d.diags
            <=> (<<"AlreadyDefined", x>> \in m.diags \/ (x = i /\ Held(m, s, v)))
      BY <1>7, <1>10 DEF Reported
    <3> QED BY <1>8, <1>11, <3>1, <3>2
  <2> QED BY <1>9, <2>1, <2>2, <2>3 DEF Adds
<1>13. Owns(c, d, i, Len(c.scopes), k)
  BY <1>5, <1>10 DEF Owns, SameOwn
<1>14. \A e \in NamesOf(f) : d.scopes[s].entries[e] = k
  BY <1>2, <1>4, <1>6, <1>10
<1>15. Declared(c, d, s, i, f, def)
  BY <1>6, <1>10, <1>12, <1>13, <1>14 DEF Declared
<1> QED BY <1>1, <1>15 DEF m

LEMMA AddsAfterQuiet ==
  ASSUME NEW c, NEW d, NEW e, NEW V, NEW W, NEW i, NEW R,
         Arena(c), Adds(c, d, V, i, FALSE), Adds(d, e, W, i, R)
  PROVE  Adds(c, e, V \cup W, i, R)
<1>1. PICK Q : Q = FALSE
  OBVIOUS
<1>2. Adds(c, d, V, i, Q) /\ (R <=> (Q \/ R))
  BY <1>1
<1> QED BY <1>2, AddsMore

(* What an item declares in its own scope.                                     *)
InnerNames(f) ==
  {<<f.generics[j].name, "types">> : j \in 1..Len(f.generics)}
  \cup {<<f.variants[j], "values">> : j \in 1..Len(f.variants)}
  \cup (IF f.kind = "trait" THEN {<<SELF_TYPE, "types">>} ELSE {})

Repeating(c, s, f) == Clashes(c, s, f) \/ VariantsRepeat(f.variants, Len(f.variants))

ItsDef(def, f, n, k) ==
  /\ def.kind = f.kind /\ def.symbol = f.name /\ def.scope = n /\ ~def.self
  /\ f.kind = "struct" => def.record = (f.shape = "record")
  /\ def.of = IF f.kind = "alias" THEN TheVar(k) ELSE ErrTy

ResolvedAs(c, d, s, i, f, k) ==
  /\ k \in (Len(c.defs) + 1)..Len(d.defs) /\ Owns(c, d, i, Inner(c), k) /\ ItsDef(d.defs[k], f, Inner(c), k)
  /\ \A x \in (Len(c.defs) + 1)..Len(d.defs) : x = k \/ d.defs[x].kind \in {"generic", "variant"}
  /\ \A t \in 1..Len(c.scopes) : \A e \in Entries :
       d.scopes[t].entries[e] = IF t = s /\ e \in NamesOf(f) THEN k ELSE c.scopes[t].entries[e]

Resolved(c, d, s, i, f) ==
  /\ Arena(d) /\ Longer(c, d) /\ NewDefs(c, d, i) /\ SameRest(c, d)
  /\ Len(d.scopes) = Inner(c) /\ d.scopes[Inner(c)].parent = s
  /\ \A t \in 1..Len(c.scopes) : d.scopes[t].parent = c.scopes[t].parent
  /\ \E k \in Nat : ResolvedAs(c, d, s, i, f, k)
  /\ \A e \in Entries : Held(d, Inner(c), e) <=> e \in InnerNames(f)
  /\ Reported(c, d, i, Repeating(c, s, f))

InnersOf(n, f) == {<<n, e>> : e \in InnerNames(f)}

(* A new scope, what goes in it first, the declaration, what goes in it then.  *)
LEMMA ResolvedIs ==
  ASSUME NEW c, Arena(c), NEW s \in 1..Len(c.scopes), NEW i \in Ids, NEW f, NEW def,
         NEW c1, NEW c2, NEW c3, NEW d, NEW V, NEW W, NEW Q,
         NamesOf(f) \subseteq Entries, InnerNames(f) \subseteq Entries,
         Arena(c1), Opens(c, c1, s),
         Adds(c1, c2, V, i, FALSE), SameOwn(c1, c2), Plain(c1, c2),
         Declared(c2, c3, s, i, f, def), ItsDef(def, f, Inner(c), Len(c2.defs) + 1),
         Adds(c3, d, W, i, Q), SameOwn(c3, d), Plain(c3, d),
         V \cup W = InnersOf(Inner(c), f), Q <=> VariantsRepeat(f.variants, Len(f.variants))
  PROVE  Resolved(c, d, s, i, f)
<1> DEFINE n == Inner(c)
           k == Len(c2.defs) + 1
<1>1. /\ Arena(c2) /\ Arena(c3) /\ Arena(d)
      /\ Adds(c2, c3, EntersOf(s, f), i, Clashes(c2, s, f))
  BY DEF Adds, Declared
<1>2. /\ Len(c.scopes) \in Nat /\ Len(c.defs) \in Nat /\ Len(c1.defs) \in Nat /\ Len(c2.defs) \in Nat
      /\ Len(c3.defs) \in Nat /\ Len(d.defs) \in Nat
  BY <1>1, Sizes DEF Arena
<1>3. /\ Len(c1.scopes) = n /\ Len(c2.scopes) = n /\ Len(c3.scopes) = n /\ Len(d.scopes) = n
      /\ c1.defs = c.defs /\ n = Len(c.scopes) + 1
  BY <1>1 DEF Opens, Adds, EntersOnly, Inner
<1>4. Len(c2.defs) >= Len(c.defs) /\ Len(c3.defs) = k /\ Len(d.defs) >= k /\ d.defs[k] = def
  <2>1. Len(c2.defs) >= Len(c.defs) /\ Len(c3.defs) = k /\ c3.defs[k] = def /\ Len(d.defs) >= k
    BY <1>3 DEF Adds, Longer, Declared
  <2>2. k \in 1..Len(c3.defs)
    BY <1>2, <2>1
  <2> QED BY <2>1, <2>2 DEF Adds, Longer
<1>5. s # n /\ s \in 1..n /\ n \in 1..n
  BY <1>2, <1>3
<1>6. ASSUME NEW t \in 1..Len(c.scopes), NEW e \in Entries
      PROVE  d.scopes[t].entries[e] = IF t = s /\ e \in NamesOf(f) THEN k ELSE c.scopes[t].entries[e]
  <2>1. t \in 1..n /\ t # n
    BY <1>2, <1>3
  <2>2. <<t, e>> \notin V /\ <<t, e>> \notin W
    BY <2>1 DEF InnersOf
  <2>3. c1.scopes[t] = c.scopes[t]
    BY DEF Opens
  <2>4. c2.scopes[t].entries[e] = c1.scopes[t].entries[e]
    BY <1>3, <2>1, <2>2 DEF Adds, EntersOnly
  <2>5. d.scopes[t].entries[e] = c3.scopes[t].entries[e]
    BY <1>3, <2>1, <2>2 DEF Adds, EntersOnly
  <2>6. CASE t = s /\ e \in NamesOf(f)
    <3>1. c3.scopes[s].entries[e] = k
      BY <2>6 DEF Declared
    <3> QED BY <2>5, <2>6, <3>1
  <2>7. CASE ~(t = s /\ e \in NamesOf(f))
    <3>1. <<t, e>> \notin EntersOf(s, f)
      BY <2>7 DEF EntersOf
    <3>2. c3.scopes[t].entries[e] = c2.scopes[t].entries[e]
      BY <1>1, <1>3, <2>1, <3>1, SMTT(30) DEF Adds, EntersOnly
    <3> QED BY <2>3, <2>4, <2>5, <2>7, <3>2
  <2> QED BY <2>6, <2>7
<1>7. ASSUME NEW t \in 1..n
      PROVE  d.scopes[t].parent = c1.scopes[t].parent
  BY <1>1, <1>3 DEF Adds, EntersOnly
<1>8. d.scopes[n].parent = s /\ \A t \in 1..Len(c.scopes) : d.scopes[t].parent = c.scopes[t].parent
  <2>1. c1.scopes[n].parent = s /\ \A t \in 1..Len(c.scopes) : c1.scopes[t] = c.scopes[t]
    BY <1>3 DEF Opens
  <2>2. \A t \in 1..Len(c.scopes) : t \in 1..n
    BY <1>2, <1>3
  <2> QED BY <1>5, <1>7, <2>1, <2>2
<1>9. ASSUME NEW e \in Entries
      PROVE  Held(d, n, e) <=> e \in InnerNames(f)
  <2>1. ~Held(c1, n, e)
    BY <1>3 DEF Opens, Held, NoEntries
  <2>2. Held(c2, n, e) <=> (Held(c1, n, e) \/ <<n, e>> \in V)
    BY <1>3, <1>5, HeldAfter
  <2>3. Held(c3, n, e) <=> (Held(c2, n, e) \/ <<n, e>> \in EntersOf(s, f))
    BY <1>1, <1>3, <1>5, HeldAfter
  <2>4. Held(d, n, e) <=> (Held(c3, n, e) \/ <<n, e>> \in W)
    BY <1>1, <1>3, <1>5, HeldAfter
  <2>5. <<n, e>> \notin EntersOf(s, f)
    BY <1>5 DEF EntersOf
  <2>6. <<n, e>> \in V \cup W <=> e \in InnerNames(f)
    BY DEF InnersOf
  <2> QED BY <2>1, <2>2, <2>3, <2>4, <2>5, <2>6
<1>10. Longer(c, d) /\ NewDefs(c, d, i) /\ SameRest(c, d)
  <2>1. Adds(c1, c3, V \cup EntersOf(s, f), i, Clashes(c2, s, f))
    BY <1>1, AddsAfterQuiet
  <2>2. Longer(c1, d) /\ NewDefs(c1, d, i) /\ SameRest(c1, d)
    <3>1. Adds(c1, d, (V \cup EntersOf(s, f)) \cup W, i, Repeating(c2, s, f))
      BY <2>1, AddsMore DEF Repeating
    <3> QED BY <3>1 DEF Adds
  <2> QED BY <2>2 DEF Opens, Longer, NewDefs, SameRest
<1>11. Reported(c, d, i, Repeating(c, s, f))
  <2>1. ASSUME NEW e \in NamesOf(f) PROVE Held(c2, s, e) <=> Held(c, s, e)
    <3>1. e \in Entries /\ s \in 1..Len(c1.scopes)
      BY <1>3, <1>5
    <3>2. <<s, e>> \notin V
      BY <1>5 DEF InnersOf
    <3>3. Held(c2, s, e) <=> Held(c1, s, e)
      BY <3>1, <3>2, HeldAfter
    <3> QED BY <3>3 DEF Held, Opens
  <2>2. Clashes(c2, s, f) <=> Clashes(c, s, f)
    BY <2>1 DEF Clashes
  <2>3. ASSUME NEW x
        PROVE  <<"AlreadyDefined", x>> \in d.diags
                 <=> (<<"AlreadyDefined", x>> \in c.diags \/ (x = i /\ Repeating(c, s, f)))
    <3>1. <<"AlreadyDefined", x>> \in c2.diags <=> <<"AlreadyDefined", x>> \in c1.diags
      BY DEF Adds, Reported
    <3>2. <<"AlreadyDefined", x>> \in c3.diags
            <=> (<<"AlreadyDefined", x>> \in c2.diags \/ (x = i /\ Clashes(c2, s, f)))
      BY <1>1 DEF Adds, Reported
    <3>3. <<"AlreadyDefined", x>> \in d.diags
            <=> (<<"AlreadyDefined", x>> \in c3.diags \/ (x = i /\ Q))
      BY DEF Adds, Reported
    <3>4. c1.diags = c.diags
      BY DEF Opens
    <3> QED BY <2>2, <3>1, <3>2, <3>3, <3>4 DEF Repeating
  <2> QED BY <2>3 DEF Reported
<1>12. Owns(c, d, i, n, k)
  BY <1>3 DEF Owns, SameOwn, Opens, Declared
<1>13. ASSUME NEW x \in (Len(c.defs) + 1)..Len(d.defs)
       PROVE  x = k \/ d.defs[x].kind \in {"generic", "variant"}
  <2>1. CASE x < k
    <3>1. x \in (Len(c1.defs) + 1)..Len(c2.defs) /\ x \in 1..Len(c2.defs) /\ x \in 1..Len(c3.defs)
      BY <1>2, <1>3, <1>4, <2>1, SMTT(30)
    <3>2. d.defs[x] = c3.defs[x] /\ c3.defs[x] = c2.defs[x]
      BY <1>1, <3>1 DEF Adds, Longer
    <3> QED BY <3>1, <3>2 DEF Plain
  <2>2. CASE x > k
    <3>1. x \in (Len(c3.defs) + 1)..Len(d.defs)
      BY <1>2, <1>4, <2>2
    <3> QED BY <3>1 DEF Plain
  <2> QED BY <1>2, <2>1, <2>2
<1>14. k \in (Len(c.defs) + 1)..Len(d.defs) /\ k \in Nat
  BY <1>2, <1>4
<1>15. ResolvedAs(c, d, s, i, f, k)
  BY <1>4, <1>6, <1>12, <1>13, <1>14 DEF ResolvedAs
<1> HIDE DEF k
<1>16. \E x \in Nat : ResolvedAs(c, d, s, i, f, x)
  BY <1>14, <1>15
<1> QED BY <1>1, <1>3, <1>8, <1>9, <1>10, <1>11, <1>16 DEF Resolved

(* What is needed to know of an item that declares a name.                     *)
NamedItem(f) ==
  /\ f \in Items /\ f.kind \in NamedKinds /\ f.name # NoName
  /\ f.kind # "enum" => f.variants = <<>>
  /\ f.kind = "mod" => f.generics = <<>>

LEMMA NamedItemIs ==
  ASSUME NEW f, NamedItem(f)
  PROVE  /\ f.name \in Symbols /\ f.name \in Words /\ f.name # SELF_TYPE /\ f.generics \in Seq(Generics) /\ f.variants \in Seq(Symbols)
         /\ NamesOf(f) \subseteq Entries /\ InnerNames(f) \subseteq Entries
         /\ f.kind # "enum" => ~VariantsRepeat(f.variants, Len(f.variants))
<1>1. /\ f.name \in Symbols /\ f.generics \in Seq(Generics) /\ f.variants \in Seq(Symbols)
  BY DEF NamedItem, Items
<1>2. f.name \in Words /\ f.name # SELF_TYPE
  BY <1>1, NamesAssumption DEF Words
<1>3. \A symbol \in Words : \A ns \in {"types", "values"} : <<symbol, ns>> \in Entries
  BY DEF Words, Entries, Spaces
<1>4. NamesOf(f) \subseteq Entries
  BY <1>2, <1>3 DEF NamesOf
<1>5. InnerNames(f) \subseteq Entries
  <2>1. SELF_TYPE \in Words
    BY DEF Words
  <2>2. \A j \in 1..Len(f.generics) : f.generics[j].name \in Words
    <3>1. \A j \in 1..Len(f.generics) : f.generics[j] \in Generics
      BY <1>1
    <3> QED BY <3>1 DEF Generics, Words
  <2>3. \A j \in 1..Len(f.variants) : f.variants[j] \in Words
    BY <1>1 DEF Words
  <2> QED BY <1>3, <2>1, <2>2, <2>3 DEF InnerNames
<1>6. f.kind # "enum" => ~VariantsRepeat(f.variants, Len(f.variants))
  BY DEF NamedItem, VariantsRepeat
<1> QED BY <1>1, <1>2, <1>4, <1>5, <1>6

LEMMA OpenedIs ==
  ASSUME NEW c, Arena(c), NEW s \in 1..Len(c.scopes)
  PROVE  /\ Arena(NewScope(c, s)) /\ Opens(c, NewScope(c, s), s)
         /\ Len(NewScope(c, s).scopes) = Inner(c) /\ Inner(c) \in Nat /\ Inner(c) # NoScope
         /\ Inner(c) \in 1..Inner(c) /\ s \in 1..Inner(c)
         /\ NewScope(c, s).defs = c.defs /\ Len(c.defs) \in Nat
<1>1. Len(c.scopes) \in Nat /\ Len(c.defs) \in Nat
  BY Sizes DEF Arena
<1>2. s \in 0..Len(c.scopes)
  BY <1>1
<1>3. Arena(NewScope(c, s)) /\ Opens(c, NewScope(c, s), s)
  BY <1>2, NewScopeIs
<1> QED BY <1>1, <1>3 DEF Opens, Inner, NoScope

(* A definition for a new item.                                                *)
LEMMA ItemDefIs ==
  ASSUME NEW c, Len(c.defs) \in Nat, NEW n \in Nat, n <= Len(c.scopes), n # NoScope,
         NEW f, f.kind \in NamedKinds, f.name \in Words, f.name # SELF_TYPE, NEW i \in Ids
  PROVE  /\ Declarable(c, DefFor(f.kind, f.name, i, n)) /\ NewDef(DefFor(f.kind, f.name, i, n), i)
         /\ DefFor(f.kind, f.name, i, n).kind = f.kind /\ ~DefFor(f.kind, f.name, i, n).record
         /\ f.kind \notin {"alias", "struct"} => ItsDef(DefFor(f.kind, f.name, i, n), f, n, Len(c.defs) + 1)
<1> DEFINE def == DefFor(f.kind, f.name, i, n)
<1>1. f.kind \in DefKinds /\ i \in Nat
  BY DEF DefKinds, NamedKinds, Ids
<1>2. Declarable(c, def) /\ NewDef(def, i) /\ def.kind = f.kind /\ ~def.record
  <2>1. MayDefine(c, f.kind, f.name, i, n)
    BY <1>1 DEF MayDefine
  <2> QED BY <2>1, DefForIs
<1>3. f.kind \notin {"alias", "struct"} => ItsDef(def, f, n, Len(c.defs) + 1)
  BY DEF ItsDef, DefFor
<1> QED BY <1>2, <1>3

LEMMA NothingAdded ==
  ASSUME NEW c, Arena(c), NEW i
  PROVE  Adds(c, c, {}, i, FALSE) /\ SameOwn(c, c) /\ Plain(c, c)
<1>1. Len(c.defs) \in Nat
  BY Sizes DEF Arena
<1>2. Adds(c, c, {}, i, FALSE)
  BY AddsNothing
<1>3. SameOwn(c, c) /\ Plain(c, c)
  BY <1>1 DEF SameOwn, Plain
<1> QED BY <1>2, <1>3

LEMMA GenericInners ==
  ASSUME NEW n, NEW f, NamedItem(f), f.kind \notin {"trait", "enum"}
  PROVE  /\ InnersOf(n, f) = GenericNames(n, f.generics, Len(f.generics))
         /\ f.kind = "mod" => InnersOf(n, f) = {}
<1>1. Len(f.variants) = 0 /\ (f.kind = "mod" => Len(f.generics) = 0)
  BY DEF NamedItem
<1> QED BY <1>1 DEF InnersOf, InnerNames, GenericNames

LEMMA ResolveFnIs ==
  ASSUME NEW c, Arena(c), NEW s \in 1..Len(c.scopes), NEW i \in Ids, NEW f, NamedItem(f), f.kind = "fn"
  PROVE  Resolved(c, ResolveFn(c, s, i, f), s, i, f)
<1> DEFINE n == Inner(c)
           c1 == NewScope(c, s)
           def == DefFor(f.kind, f.name, i, n)
           c3 == DeclareItem(c1, s, f, i, def)
           d == DeclareGenericParams(c3, n, f.generics, i)
<1>1. ResolveFn(c, s, i, f) = d
  BY DEF ResolveFn
<1>2. /\ Arena(c1) /\ Opens(c, c1, s) /\ Len(c1.scopes) = n /\ n \in Nat /\ n # NoScope
      /\ n \in 1..n /\ s \in 1..n /\ c1.defs = c.defs /\ Len(c.defs) \in Nat
  BY OpenedIs
<1> HIDE DEF c1, n
<1>3. f.kind \in NamedKinds /\ f.kind \notin {"alias", "struct"} /\ ~Constructor(f)
  BY DEF NamedKinds, Constructor
<1>4. Declarable(c1, def) /\ NewDef(def, i) /\ def.kind = f.kind /\ ItsDef(def, f, n, Len(c1.defs) + 1)
  <2>1. Len(c1.defs) \in Nat /\ n <= Len(c1.scopes) /\ f.name \in Words /\ f.name # SELF_TYPE
    BY <1>2, NamedItemIs
  <2> QED BY <1>2, <1>3, <2>1, ItemDefIs, SMTT(30)
<1> HIDE DEF def
<1>5. Declared(c1, c3, s, i, f, def)
  BY <1>2, <1>3, <1>4, NamedItemIs, DeclaredIs
<1> HIDE DEF c3
<1>6. Arena(c3) /\ n \in 1..Len(c3.scopes)
  BY <1>2, <1>5 DEF Declared, Adds, EntersOnly
<1>7. Adds(c3, d, GenericNames(n, f.generics, Len(f.generics)), i, FALSE) /\ SameOwn(c3, d) /\ Plain(c3, d)
  <2>1. i \in Nat /\ f.generics \in Seq(Generics)
    BY NamedItemIs DEF Ids
  <2> QED BY <1>6, <2>1, DeclareGenericParamsIs
<1> HIDE DEF d
<1>8. {} \cup GenericNames(n, f.generics, Len(f.generics)) = InnersOf(n, f)
  BY GenericInners
<1>9. FALSE <=> VariantsRepeat(f.variants, Len(f.variants))
  BY <1>3, NamedItemIs
<1>10. Adds(c1, c1, {}, i, FALSE) /\ SameOwn(c1, c1) /\ Plain(c1, c1)
  BY <1>2, NothingAdded
<1>11. Resolved(c, d, s, i, f)
  BY <1>2, <1>4, <1>5, <1>7, <1>8, <1>9, <1>10, NamedItemIs, ResolvedIs DEF n
<1> QED BY <1>1, <1>11

(* A struct or an alias: the definition says a little more.                    *)
LEMMA ResolveTyAliasIs ==
  ASSUME NEW c, Arena(c), NEW s \in 1..Len(c.scopes), NEW i \in Ids, NEW f, NamedItem(f), f.kind = "alias"
  PROVE  Resolved(c, ResolveTyAlias(c, s, i, f), s, i, f)
<1> DEFINE n == Inner(c)
           c1 == NewScope(c, s)
           x == DefFor(f.kind, f.name, i, n)
           def == [x EXCEPT !.of = TheVar(Len(c.defs) + 1)]
           c3 == DeclareItem(c1, s, f, i, def)
           d == DeclareGenericParams(c3, n, f.generics, i)
<1>1. ResolveTyAlias(c, s, i, f) = d
  BY DEF ResolveTyAlias
<1>2. /\ Arena(c1) /\ Opens(c, c1, s) /\ Len(c1.scopes) = n /\ n \in Nat /\ n # NoScope
      /\ n \in 1..n /\ s \in 1..n /\ c1.defs = c.defs /\ Len(c.defs) \in Nat
  BY OpenedIs
<1> HIDE DEF c1, n
<1>3. f.kind \in NamedKinds /\ ~Constructor(f)
  BY DEF NamedKinds, Constructor
<1>4. Declarable(c1, def) /\ NewDef(def, i) /\ def.kind = f.kind /\ ItsDef(def, f, n, Len(c1.defs) + 1)
  <2>1. Len(c1.defs) \in Nat /\ n <= Len(c1.scopes) /\ f.name \in Words /\ f.name # SELF_TYPE
    BY <1>2, NamedItemIs
  <2>2. Declarable(c1, x) /\ NewDef(x, i) /\ x.kind = f.kind
    BY <1>2, <1>3, <2>1, ItemDefIs
  <2>3. TheVar(Len(c.defs) + 1) \in TyRecords /\ TheVar(Len(c.defs) + 1).def = Len(c.defs) + 1
        /\ Len(c.defs) + 1 # NoDef
    BY <1>2 DEF TheVar, TyRecords, NoDef
  <2>4. def.of = TheVar(Len(c.defs) + 1) /\ def.symbol = f.name /\ def.scope = n /\ ~def.self
    BY DEF DefFor
  <2> HIDE DEF x
  <2>5. /\ def \in DefRecords /\ def.kind = x.kind /\ def.scope = x.scope /\ def.item = x.item
        /\ def.collected = x.collected /\ def.checked = x.checked
    BY <2>2, <2>3 DEF Declarable, DefRecords
  <2> HIDE DEF def
  <2>6. Declarable(c1, def)
    BY <1>2, <2>1, <2>2, <2>3, <2>4, <2>5 DEF Declarable, SelfRight
  <2>7. NewDef(def, i) /\ def.kind = f.kind
    BY <2>2, <2>5 DEF NewDef
  <2>8. ItsDef(def, f, n, Len(c1.defs) + 1)
    BY <1>2, <2>4, <2>7 DEF ItsDef
  <2> QED BY <2>6, <2>7, <2>8
<1> HIDE DEF def
<1>5. Declared(c1, c3, s, i, f, def)
  BY <1>2, <1>3, <1>4, NamedItemIs, DeclaredIs
<1> HIDE DEF c3
<1>6. Arena(c3) /\ n \in 1..Len(c3.scopes)
  BY <1>2, <1>5 DEF Declared, Adds, EntersOnly
<1>7. Adds(c3, d, GenericNames(n, f.generics, Len(f.generics)), i, FALSE) /\ SameOwn(c3, d) /\ Plain(c3, d)
  <2>1. i \in Nat /\ f.generics \in Seq(Generics)
    BY NamedItemIs DEF Ids
  <2> QED BY <1>6, <2>1, DeclareGenericParamsIs
<1> HIDE DEF d
<1>8. {} \cup GenericNames(n, f.generics, Len(f.generics)) = InnersOf(n, f)
  BY GenericInners
<1>9. FALSE <=> VariantsRepeat(f.variants, Len(f.variants))
  BY <1>3, NamedItemIs
<1>10. Adds(c1, c1, {}, i, FALSE) /\ SameOwn(c1, c1) /\ Plain(c1, c1)
  BY <1>2, NothingAdded
<1>11. Resolved(c, d, s, i, f)
  BY <1>2, <1>4, <1>5, <1>7, <1>8, <1>9, <1>10, NamedItemIs, ResolvedIs DEF n
<1> QED BY <1>1, <1>11

LEMMA ResolveModIs ==
  ASSUME NEW c, Arena(c), NEW s \in 1..Len(c.scopes), NEW i \in Ids, NEW f, NamedItem(f), f.kind = "mod"
  PROVE  Resolved(c, ResolveMod(c, s, i, f), s, i, f)
<1> DEFINE n == Inner(c)
           c1 == NewScope(c, s)
           def == DefFor(f.kind, f.name, i, n)
           d == DeclareItem(c1, s, f, i, def)
<1>1. ResolveMod(c, s, i, f) = d
  BY DEF ResolveMod
<1>2. /\ Arena(c1) /\ Opens(c, c1, s) /\ Len(c1.scopes) = n /\ n \in Nat /\ n # NoScope
      /\ n \in 1..n /\ s \in 1..n /\ c1.defs = c.defs /\ Len(c.defs) \in Nat
  BY OpenedIs
<1> HIDE DEF c1, n
<1>3. f.kind \in NamedKinds /\ f.kind \notin {"alias", "struct"} /\ ~Constructor(f)
  BY DEF NamedKinds, Constructor
<1>4. Declarable(c1, def) /\ NewDef(def, i) /\ def.kind = f.kind /\ ItsDef(def, f, n, Len(c1.defs) + 1)
  <2>1. Len(c1.defs) \in Nat /\ n <= Len(c1.scopes) /\ f.name \in Words /\ f.name # SELF_TYPE
    BY <1>2, NamedItemIs
  <2> QED BY <1>2, <1>3, <2>1, ItemDefIs, SMTT(30)
<1> HIDE DEF def
<1>5. Declared(c1, d, s, i, f, def)
  BY <1>2, <1>3, <1>4, NamedItemIs, DeclaredIs
<1> HIDE DEF d
<1>6. Adds(d, d, {}, i, FALSE) /\ SameOwn(d, d) /\ Plain(d, d)
  <2>1. Arena(d)
    BY <1>5 DEF Declared, Adds
  <2> QED BY <2>1, NothingAdded
<1>7. {} \cup {} = InnersOf(n, f)
  BY GenericInners
<1>8. FALSE <=> VariantsRepeat(f.variants, Len(f.variants))
  BY <1>3, NamedItemIs
<1>9. Adds(c1, c1, {}, i, FALSE) /\ SameOwn(c1, c1) /\ Plain(c1, c1)
  BY <1>2, NothingAdded
<1>10. Resolved(c, d, s, i, f)
  BY <1>2, <1>4, <1>5, <1>6, <1>7, <1>8, <1>9, NamedItemIs, ResolvedIs DEF n
<1> QED BY <1>1, <1>10

(* The generic parameters of an item in the scope opened for it.               *)
LEMMA GenericsOpenedIs ==
  ASSUME NEW c1, Arena(c1), NEW n \in 1..Len(c1.scopes), NEW i \in Ids, NEW f, NamedItem(f)
  PROVE  LET c2 == DeclareGenericParams(c1, n, f.generics, i)
         IN  /\ Adds(c1, c2, GenericNames(n, f.generics, Len(f.generics)), i, FALSE)
             /\ SameOwn(c1, c2) /\ Plain(c1, c2) /\ Arena(c2) /\ Len(c2.scopes) = Len(c1.scopes)
             /\ Len(c2.defs) \in Nat
<1> DEFINE c2 == DeclareGenericParams(c1, n, f.generics, i)
<1>1. Adds(c1, c2, GenericNames(n, f.generics, Len(f.generics)), i, FALSE) /\ SameOwn(c1, c2) /\ Plain(c1, c2)
  <2>1. i \in Nat /\ f.generics \in Seq(Generics)
    BY NamedItemIs DEF Ids
  <2> QED BY <2>1, DeclareGenericParamsIs
<1> HIDE DEF c2
<1>2. Arena(c2) /\ Len(c2.scopes) = Len(c1.scopes)
  BY <1>1 DEF Adds, EntersOnly
<1>3. Len(c2.defs) \in Nat
  BY <1>2, Sizes DEF Arena
<1> QED BY <1>1, <1>2, <1>3 DEF c2

LEMMA ResolveStructIs ==
  ASSUME NEW c, Arena(c), NEW s \in 1..Len(c.scopes), NEW i \in Ids, NEW f, NamedItem(f), f.kind = "struct"
  PROVE  Resolved(c, ResolveStruct(c, s, i, f), s, i, f)
<1> DEFINE n == Inner(c)
           c1 == NewScope(c, s)
           c2 == DeclareGenericParams(c1, n, f.generics, i)
           x == DefFor(f.kind, f.name, i, n)
           def == [x EXCEPT !.record = (f.shape = "record")]
           D == DeclareItem(c2, s, f, i, def)
           d == IF f.shape = "record" THEN D ELSE AlsoValue(D, s, f.name, i)
<1>1. ResolveStruct(c, s, i, f) = d
  BY DEF ResolveStruct
<1>2. /\ Arena(c1) /\ Opens(c, c1, s) /\ Len(c1.scopes) = n /\ n \in Nat /\ n # NoScope
      /\ n \in 1..n /\ s \in 1..n /\ c1.defs = c.defs /\ Len(c.defs) \in Nat
  BY OpenedIs
<1> HIDE DEF c1, n
<1>3. /\ Adds(c1, c2, GenericNames(n, f.generics, Len(f.generics)), i, FALSE)
      /\ SameOwn(c1, c2) /\ Plain(c1, c2) /\ Arena(c2) /\ Len(c2.scopes) = n /\ Len(c2.defs) \in Nat
  BY <1>2, GenericsOpenedIs
<1> HIDE DEF c2
<1>4. f.kind \in NamedKinds
  BY DEF NamedKinds
<1>5. Declarable(c2, def) /\ NewDef(def, i) /\ def.kind = f.kind /\ ItsDef(def, f, n, Len(c2.defs) + 1)
      /\ def.record = (f.shape = "record")
  <2>1. n <= Len(c2.scopes) /\ f.name \in Words /\ f.name # SELF_TYPE
    BY <1>2, <1>3, NamedItemIs
  <2>2. Declarable(c2, x) /\ NewDef(x, i) /\ x.kind = f.kind
    BY <1>2, <1>3, <1>4, <2>1, ItemDefIs
  <2>3. def.of = ErrTy /\ def.symbol = f.name /\ def.scope = n /\ ~def.self /\ def.record = (f.shape = "record")
    BY DEF DefFor
  <2> HIDE DEF x
  <2>4. /\ def \in DefRecords /\ def.kind = x.kind /\ def.scope = x.scope /\ def.item = x.item /\ def.of = x.of
        /\ def.collected = x.collected /\ def.checked = x.checked
    BY <2>2 DEF Declarable, DefRecords
  <2> HIDE DEF def
  <2>5. Declarable(c2, def)
    BY <2>1, <2>2, <2>3, <2>4 DEF Declarable, SelfRight
  <2>6. NewDef(def, i) /\ def.kind = f.kind
    BY <2>2, <2>4 DEF NewDef
  <2>7. ItsDef(def, f, n, Len(c2.defs) + 1)
    BY <2>3, <2>6 DEF ItsDef
  <2> QED BY <2>3, <2>5, <2>6, <2>7
<1> HIDE DEF def
<1>6. Declared(c2, d, s, i, f, def)
  <2>1. s \in 1..Len(c2.scopes) /\ f.name \in Words /\ f.name # SELF_TYPE
    BY <1>2, <1>3, NamedItemIs
  <2>2. CASE f.shape = "record"
    <3>1. ~Constructor(f) /\ d = D
      BY <2>2 DEF Constructor
    <3> QED BY <1>3, <1>4, <1>5, <2>1, <3>1, DeclaredIs
  <2>3. CASE f.shape # "record"
    <3>1. Constructor(f) /\ d = AlsoValue(D, s, f.name, i) /\ ~def.record /\ def.kind = "struct"
      BY <1>5, <2>3 DEF Constructor
    <3> QED BY <1>3, <1>5, <2>1, <3>1, ConstructorIs
  <2> QED BY <2>2, <2>3
<1> HIDE DEF d
<1>7. Adds(d, d, {}, i, FALSE) /\ SameOwn(d, d) /\ Plain(d, d)
  <2>1. Arena(d)
    BY <1>6 DEF Declared, Adds
  <2> QED BY <2>1, NothingAdded
<1>8. GenericNames(n, f.generics, Len(f.generics)) \cup {} = InnersOf(n, f)
  BY GenericInners
<1>9. FALSE <=> VariantsRepeat(f.variants, Len(f.variants))
  BY NamedItemIs
<1>10. Resolved(c, d, s, i, f)
  BY <1>2, <1>3, <1>5, <1>6, <1>7, <1>8, <1>9, NamedItemIs, ResolvedIs DEF n
<1> QED BY <1>1, <1>10

LEMMA ResolveEnumIs ==
  ASSUME NEW c, Arena(c), NEW s \in 1..Len(c.scopes), NEW i \in Ids, NEW f, NamedItem(f), f.kind = "enum"
  PROVE  Resolved(c, ResolveEnum(c, s, i, f), s, i, f)
<1> DEFINE n == Inner(c)
           c1 == NewScope(c, s)
           c2 == DeclareGenericParams(c1, n, f.generics, i)
           def == DefFor(f.kind, f.name, i, n)
           c3 == DeclareItem(c2, s, f, i, def)
           d == DeclareVariants(c3, n, f.variants, i)
           names == VariantNames(n, f.variants, Len(f.variants))
<1>1. ResolveEnum(c, s, i, f) = d
  BY DEF ResolveEnum
<1>2. /\ Arena(c1) /\ Opens(c, c1, s) /\ Len(c1.scopes) = n /\ n \in Nat /\ n # NoScope
      /\ n \in 1..n /\ s \in 1..n /\ c1.defs = c.defs /\ Len(c.defs) \in Nat
  BY OpenedIs
<1>a. n = Len(c.scopes) + 1 /\ s # n /\ c1.scopes[n].entries = NoEntries
  BY <1>2 DEF Inner, Opens
<1> HIDE DEF c1, n
<1>3. /\ Adds(c1, c2, GenericNames(n, f.generics, Len(f.generics)), i, FALSE)
      /\ SameOwn(c1, c2) /\ Plain(c1, c2) /\ Arena(c2) /\ Len(c2.scopes) = n /\ Len(c2.defs) \in Nat
  BY <1>2, GenericsOpenedIs
<1> HIDE DEF c2
<1>4. f.kind \in NamedKinds /\ f.kind \notin {"alias", "struct"} /\ ~Constructor(f)
  BY DEF NamedKinds, Constructor
<1>5. Declarable(c2, def) /\ NewDef(def, i) /\ def.kind = f.kind /\ ItsDef(def, f, n, Len(c2.defs) + 1)
  <2>1. n <= Len(c2.scopes) /\ f.name \in Words /\ f.name # SELF_TYPE
    BY <1>2, <1>3, NamedItemIs
  <2> QED BY <1>2, <1>3, <1>4, <2>1, ItemDefIs
<1> HIDE DEF def
<1>6. Declared(c2, c3, s, i, f, def)
  <2>1. s \in 1..Len(c2.scopes) /\ f.name \in Words /\ f.name # SELF_TYPE
    BY <1>2, <1>3, NamedItemIs
  <2> QED BY <1>3, <1>4, <1>5, <2>1, DeclaredIs
<1> HIDE DEF c3
<1>7. Arena(c3) /\ n \in 1..Len(c3.scopes) /\ Adds(c2, c3, EntersOf(s, f), i, Clashes(c2, s, f))
  BY <1>2, <1>3, <1>6 DEF Declared, Adds, EntersOnly
<1>8. \A symbol \in Words : ~Held(c3, n, <<symbol, "values">>)
  <2> SUFFICES ASSUME NEW symbol \in Words PROVE ~Held(c3, n, <<symbol, "values">>)
    OBVIOUS
  <2> DEFINE e == <<symbol, "values">>
  <2>1. e \in Entries
    BY DEF Entries, Words, Spaces
  <2>2. ~Held(c1, n, e)
    BY <1>a, <2>1 DEF Held, NoEntries
  <2>3. <<n, e>> \notin GenericNames(n, f.generics, Len(f.generics)) /\ <<n, e>> \notin EntersOf(s, f)
    BY <1>a DEF GenericNames, EntersOf
  <2> HIDE DEF e
  <2>4. ~Held(c2, n, e)
    <3>1. n \in 1..Len(c1.scopes) /\ Arena(c1)
      BY <1>2
    <3>2. Held(c2, n, e) <=> (Held(c1, n, e) \/ <<n, e>> \in GenericNames(n, f.generics, Len(f.generics)))
      BY <1>3, <2>1, <3>1, HeldAfter
    <3> QED BY <2>2, <2>3, <3>2
  <2>5. ~Held(c3, n, e)
    <3>1. n \in 1..Len(c2.scopes)
      BY <1>2, <1>3
    <3>2. Held(c3, n, e) <=> (Held(c2, n, e) \/ <<n, e>> \in EntersOf(s, f))
      BY <1>3, <1>7, <2>1, <3>1, HeldAfter
    <3> QED BY <2>3, <2>4, <3>2
  <2> QED BY <2>5 DEF e
<1>9. Adds(c3, d, names, i, VariantsRepeat(f.variants, Len(f.variants))) /\ SameOwn(c3, d) /\ Plain(c3, d)
  <2>1. i \in Nat /\ f.variants \in Seq(Symbols)
    BY NamedItemIs DEF Ids
  <2> QED BY <1>7, <1>8, <2>1, DeclareVariantsIs
<1> HIDE DEF d, names
<1>10. GenericNames(n, f.generics, Len(f.generics)) \cup names = InnersOf(n, f)
  BY DEF GenericNames, names, VariantNames, InnersOf, InnerNames
<1>11. Resolved(c, d, s, i, f)
  BY <1>2, <1>3, <1>5, <1>6, <1>9, <1>10, NamedItemIs, ResolvedIs DEF n
<1> QED BY <1>1, <1>11

LEMMA ResolveTraitIs ==
  ASSUME NEW c, Arena(c), NEW s \in 1..Len(c.scopes), NEW i \in Ids, NEW f, NamedItem(f), f.kind = "trait"
  PROVE  Resolved(c, ResolveTrait(c, s, i, f), s, i, f)
<1> DEFINE n == Inner(c)
           c1 == NewScope(c, s)
           self == DefFor("generic", SELF_TYPE, i, n)
           a == Add(c1, n, SELF_TYPE, self)
           c2 == DeclareGenericParams(a, n, f.generics, i)
           def == DefFor(f.kind, f.name, i, n)
           d == DeclareItem(c2, s, f, i, def)
           me == {<<n, <<SELF_TYPE, "types">>>>}
           names == GenericNames(n, f.generics, Len(f.generics))
<1>1. ResolveTrait(c, s, i, f) = d
  BY DEF ResolveTrait
<1>2. /\ Arena(c1) /\ Opens(c, c1, s) /\ Len(c1.scopes) = n /\ n \in Nat /\ n # NoScope
      /\ n \in 1..n /\ s \in 1..n /\ c1.defs = c.defs /\ Len(c.defs) \in Nat
  BY OpenedIs
<1> HIDE DEF c1, n
<1>3. SELF_TYPE \in Words /\ i \in Nat
  BY DEF Words, Ids
<1>4. Adds(c1, a, me, i, FALSE) /\ SameOwn(c1, a) /\ Plain(c1, a)
  <2>1. "generic" \in DefKinds /\ Len(c1.defs) \in Nat /\ n <= Len(c1.scopes)
    BY <1>2 DEF DefKinds
  <2>2. Declarable(c1, self) /\ NewDef(self, i) /\ self.kind = "generic" /\ self.scope = n
    <3>1. MayDefine(c1, "generic", SELF_TYPE, i, n)
      BY <1>2, <1>3, <2>1 DEF MayDefine
    <3> QED BY <3>1, DefForIs
  <2> HIDE DEF self
  <2>3. NameOf(SELF_TYPE, self) = <<SELF_TYPE, "types">> /\ Fits(self, n, NameOf(SELF_TYPE, self))
    BY <2>2 DEF NameOf, Namespace, Fits
  <2>4. /\ Adds(c1, a, {<<n, NameOf(SELF_TYPE, self)>>}, i, FALSE) /\ SameOwn(c1, a)
        /\ EnteredAs(c1, a, n, SELF_TYPE, self)
    BY <1>2, <1>3, <2>2, <2>3, AddIs
  <2> HIDE DEF a
  <2>5. Plain(c1, a)
    BY <2>1, <2>2, <2>4, OnePlain DEF EnteredAs
  <2> QED BY <2>3, <2>4, <2>5
<1> HIDE DEF a, me
<1>5. Arena(a) /\ Len(a.scopes) = n /\ Len(a.defs) \in Nat
  <2>1. Arena(a) /\ Len(a.scopes) = n
    BY <1>2, <1>4 DEF Adds, EntersOnly
  <2> QED BY <2>1, Sizes DEF Arena
<1>6. /\ Adds(a, c2, names, i, FALSE)
      /\ SameOwn(a, c2) /\ Plain(a, c2) /\ Arena(c2) /\ Len(c2.scopes) = n /\ Len(c2.defs) \in Nat
  <2>1. n \in 1..Len(a.scopes)
    BY <1>2, <1>5
  <2>2. /\ Adds(a, c2, GenericNames(n, f.generics, Len(f.generics)), i, FALSE)
        /\ SameOwn(a, c2) /\ Plain(a, c2) /\ Arena(c2) /\ Len(c2.scopes) = Len(a.scopes) /\ Len(c2.defs) \in Nat
    BY <1>5, <2>1, GenericsOpenedIs
  <2> QED BY <1>5, <2>2
<1> HIDE DEF c2, names
<1>7. Adds(c1, c2, me \cup names, i, FALSE)
  BY <1>2, <1>4, <1>6, AddsAfterQuiet
<1>8. SameOwn(c1, c2) /\ Plain(c1, c2)
  <2>1. Len(c1.defs) \in Nat /\ Longer(a, c2)
    BY <1>2, <1>6 DEF Adds
  <2>2. Plain(c1, c2)
    BY <1>4, <1>5, <1>6, <2>1, PlainMore
  <2> QED BY <1>4, <1>6, <2>2 DEF SameOwn
<1>9. f.kind \in NamedKinds /\ f.kind \notin {"alias", "struct"} /\ ~Constructor(f)
  BY DEF NamedKinds, Constructor
<1>10. Declarable(c2, def) /\ NewDef(def, i) /\ def.kind = f.kind /\ ItsDef(def, f, n, Len(c2.defs) + 1)
  <2>1. n <= Len(c2.scopes) /\ f.name \in Words /\ f.name # SELF_TYPE
    BY <1>2, <1>6, NamedItemIs
  <2> QED BY <1>2, <1>6, <1>9, <2>1, ItemDefIs
<1> HIDE DEF def
<1>11. Declared(c2, d, s, i, f, def)
  <2>1. s \in 1..Len(c2.scopes) /\ f.name \in Words /\ f.name # SELF_TYPE
    BY <1>2, <1>6, NamedItemIs
  <2> QED BY <1>6, <1>9, <1>10, <2>1, DeclaredIs
<1> HIDE DEF d
<1>12. Adds(d, d, {}, i, FALSE) /\ SameOwn(d, d) /\ Plain(d, d)
  <2>1. Arena(d)
    BY <1>11 DEF Declared, Adds
  <2> QED BY <2>1, NothingAdded
<1>13. (me \cup names) \cup {} = InnersOf(n, f)
  <2>1. Len(f.variants) = 0
    BY DEF NamedItem
  <2> QED BY <2>1 DEF GenericNames, names, me, InnersOf, InnerNames
<1>14. FALSE <=> VariantsRepeat(f.variants, Len(f.variants))
  BY NamedItemIs
<1>15. Resolved(c, d, s, i, f)
  BY <1>2, <1>7, <1>8, <1>10, <1>11, <1>12, <1>13, <1>14, NamedItemIs, ResolvedIs DEF n
<1> QED BY <1>1, <1>15

\* The scope around an item.
Around(c, o) == IF o = NoItem THEN Root ELSE c.own[o]

LEMMA ResolveItemIs ==
  ASSUME NEW c, Arena(c), NEW i \in Ids, NEW f, NamedItem(f), Around(c, f.up) \in 1..Len(c.scopes)
  PROVE  Resolved(c, ResolveItem(c, i, f), Around(c, f.up), i, f)
<1> DEFINE s == Around(c, f.up)
<1>1. s = IF f.up = 0 THEN Root ELSE c.own[f.up]
  BY DEF Around, NoItem
<1> HIDE DEF s
<1>2. f.kind \in NamedKinds /\ s \in 1..Len(c.scopes)
  BY DEF NamedItem, s
<1>3. CASE f.kind = "fn"
  <2>1. ResolveItem(c, i, f) = ResolveFn(c, s, i, f)
    BY <1>1, <1>3 DEF ResolveItem
  <2> QED BY <1>2, <1>3, <2>1, ResolveFnIs DEF s
<1>4. CASE f.kind = "alias"
  <2>1. ResolveItem(c, i, f) = ResolveTyAlias(c, s, i, f)
    BY <1>1, <1>4 DEF ResolveItem
  <2> QED BY <1>2, <1>4, <2>1, ResolveTyAliasIs DEF s
<1>5. CASE f.kind = "enum"
  <2>1. ResolveItem(c, i, f) = ResolveEnum(c, s, i, f)
    BY <1>1, <1>5 DEF ResolveItem
  <2> QED BY <1>2, <1>5, <2>1, ResolveEnumIs DEF s
<1>6. CASE f.kind = "struct"
  <2>1. ResolveItem(c, i, f) = ResolveStruct(c, s, i, f)
    BY <1>1, <1>6 DEF ResolveItem
  <2> QED BY <1>2, <1>6, <2>1, ResolveStructIs DEF s
<1>7. CASE f.kind = "trait"
  <2>1. ResolveItem(c, i, f) = ResolveTrait(c, s, i, f)
    BY <1>1, <1>7 DEF ResolveItem
  <2> QED BY <1>2, <1>7, <2>1, ResolveTraitIs DEF s
<1>8. CASE f.kind = "mod"
  <2>1. ResolveItem(c, i, f) = ResolveMod(c, s, i, f)
    BY <1>1, <1>8 DEF ResolveItem
  <2> QED BY <1>2, <1>8, <2>1, ResolveModIs DEF s
<1> QED BY <1>2, <1>3, <1>4, <1>5, <1>6, <1>7, <1>8 DEF NamedKinds

(***************************************************************************)
(* The items of a program: each inside of earlier ones, which may hold it. *)
(***************************************************************************)
ItemOK(p, i) ==
  /\ p[i] \in Items
  /\ p[i].kind \notin {"impl", "use"} => NamedItem(p[i])
  /\ p[i].kind = "impl" => p[i].path # <<>>
  /\ p[i].kind # "enum" => p[i].variants = <<>>
  /\ \A n \in DOMAIN p[i].trees : p[i].trees[n].path # <<>> /\ p[i].trees[n].group < n
  /\ p[i].up < i
  /\ p[i].up = NoItem => p[i].around = {}
  /\ p[i].up # NoItem => /\ p[i].around = p[p[i].up].around \cup {p[i].up}
                         /\ MayHold(p[p[i].up].kind, p[i].kind)

Program(p) == p \in Seq(Items) /\ Len(p) <= MaxItems /\ \A i \in 1..Len(p) : ItemOK(p, i)

\* ImplOver in any program.
Over(p, i) == {a \in p[i].around : p[a].kind = "impl"}
Above(p, i) == IF Over(p, i) = {} THEN NoItem ELSE CHOOSE a \in Over(p, i) : \A b \in Over(p, i) : b <= a

LEMMA ProgramIs ==
  ASSUME NEW p, Program(p), NEW i \in 1..Len(p)
  PROVE  /\ Len(p) \in Nat /\ i \in Nat /\ i \in Ids /\ ItemOK(p, i) /\ p[i] \in Items
         /\ p[i].kind \in NamedKinds \cup {"impl", "use"}
         /\ p[i].up \in 0..(i - 1) /\ (p[i].up # NoItem => p[i].up \in 1..Len(p))
<1>1. Len(p) \in Nat /\ Len(p) <= MaxItems /\ ItemOK(p, i)
  BY DEF Program
<1>2. i \in Nat /\ i \in Ids
  BY <1>1, NamesAssumption DEF Ids
<1>3. p[i] \in Items
  BY <1>1 DEF ItemOK
<1>4. p[i].kind \in Kinds /\ p[i].up \in Nat
  BY <1>3 DEF Items
<1>5. p[i].kind \in NamedKinds \cup {"impl", "use"}
  BY <1>4 DEF Kinds, NamedKinds
<1>6. p[i].up < i
  BY <1>1 DEF ItemOK
<1>7. p[i].up \in 0..(i - 1) /\ (p[i].up # NoItem => p[i].up \in 1..Len(p))
  BY <1>1, <1>2, <1>4, <1>6 DEF NoItem
<1> QED BY <1>1, <1>2, <1>3, <1>5, <1>7

LEMMA AroundIsEarlier ==
  ASSUME NEW p, Program(p)
  PROVE  \A i \in 1..Len(p) : p[i].around \subseteq 1..(i - 1)
<1> DEFINE S == {n \in Nat : \A i \in 1..n : i <= Len(p) => p[i].around \subseteq 1..(i - 1)}
<1>1. 0 \in S
  OBVIOUS
<1>2. ASSUME NEW n \in Nat, n \in S PROVE n + 1 \in S
  <2> SUFFICES ASSUME n + 1 <= Len(p) PROVE p[n + 1].around \subseteq 1..n
    <3>1. \A i \in 1..(n + 1) : i \in 1..n \/ i = n + 1
      OBVIOUS
    <3>2. (n + 1) - 1 = n
      OBVIOUS
    <3> QED BY <1>2, <3>1, <3>2
  <2> DEFINE i == n + 1
             u == p[i].up
  <2>1. i \in 1..Len(p)
    <3>1. Len(p) \in Nat
      BY DEF Program
    <3> QED BY <3>1
  <2>2. u \in 0..n /\ ItemOK(p, i)
    <3>1. u \in 0..(i - 1) /\ ItemOK(p, i)
      BY <2>1, ProgramIs
    <3> QED BY <3>1
  <2>3. CASE u = NoItem
    BY <2>2, <2>3 DEF ItemOK
  <2>4. CASE u # NoItem
    <3>1. u \in 1..n /\ u <= Len(p)
      BY <2>1, <2>2, <2>4, ProgramIs DEF NoItem
    <3>2. p[u].around \subseteq 1..(u - 1)
      BY <1>2, <3>1
    <3>3. p[u].around \subseteq 1..n
      BY <3>1, <3>2
    <3>4. p[i].around = p[u].around \cup {u}
      BY <2>2, <2>4 DEF ItemOK
    <3> QED BY <3>1, <3>3, <3>4
  <2> QED BY <2>3, <2>4
<1>3. ASSUME NEW i \in 1..Len(p) PROVE p[i].around \subseteq 1..(i - 1)
  <2>1. i \in Nat
    OBVIOUS
  <2>2. i \in S
    <3> HIDE DEF S
    <3> QED BY <1>1, <1>2, <2>1, EveryNatural
  <2> QED BY <2>1, <2>2
<1> QED BY <1>3

LEMMA AboveIs ==
  ASSUME NEW p, Program(p), NEW i \in 1..Len(p)
  PROVE  /\ p[i].up = NoItem => Above(p, i) = NoItem
         /\ p[i].up # NoItem => Above(p, i) = IF p[p[i].up].kind = "impl" THEN p[i].up ELSE Above(p, p[i].up)
         /\ Above(p, i) # NoItem => Above(p, i) \in p[i].around /\ Above(p, i) \in 1..(i - 1)
                                    /\ p[Above(p, i)].kind = "impl"
         /\ (\E a \in p[i].around : p[a].kind = "impl") <=> Above(p, i) # NoItem
<1> DEFINE u == p[i].up
           over == Over(p, i)
           a == Above(p, i)
<1>1. /\ i \in Nat /\ ItemOK(p, i) /\ u \in 0..(i - 1) /\ (u # NoItem => u \in 1..Len(p))
      /\ p[i].around \subseteq 1..(i - 1)
  BY ProgramIs, AroundIsEarlier
<1>2. u = NoItem => a = NoItem
  BY <1>1 DEF ItemOK, Above, Over
<1>3. over \subseteq 1..(i - 1)
  BY <1>1 DEF Over
<1>4. over # {} => a \in over
  <2> SUFFICES ASSUME over # {} PROVE a \in over
    OBVIOUS
  <2>1. over \in SUBSET (0..i)
    BY <1>1, <1>3
  <2>2. \E x \in over : \A y \in over : y <= x
    <3> HIDE DEF over
    <3> QED BY <1>1, <2>1, GreatestBelow
  <2> QED BY <2>2 DEF Above
<1>5. u # NoItem => a = IF p[u].kind = "impl" THEN u ELSE Above(p, u)
  <2> SUFFICES ASSUME u # NoItem PROVE a = IF p[u].kind = "impl" THEN u ELSE Above(p, u)
    OBVIOUS
  <2>1. p[i].around = p[u].around \cup {u} /\ p[u].around \subseteq 1..(u - 1)
    BY <1>1, AroundIsEarlier DEF ItemOK
  <2>2. CASE p[u].kind = "impl"
    <3>1. u \in over /\ \A b \in over : b <= u
      BY <1>1, <2>1, <2>2 DEF Over
    <3>2. a \in over /\ \A b \in over : b <= a
      <4>1. \E x \in over : \A b \in over : b <= x
        BY <3>1
      <4> QED BY <4>1 DEF Above
    <3>3. a <= u /\ u <= a /\ a \in Nat /\ u \in Nat
      BY <1>1, <1>3, <3>1, <3>2
    <3> QED BY <2>2, <3>3
  <2>3. CASE p[u].kind # "impl"
    <3>1. over = Over(p, u)
      BY <2>1, <2>3 DEF Over
    <3> QED BY <2>3, <3>1 DEF Above
  <2> QED BY <2>2, <2>3
<1>6. a # NoItem => a \in over
  BY <1>4 DEF Above
<1>7. over # {} => a # NoItem
  BY <1>1, <1>3, <1>4 DEF NoItem
<1>8. (\E x \in p[i].around : p[x].kind = "impl") <=> over # {}
  BY DEF Over
<1>9. a # NoItem => a \in p[i].around /\ a \in 1..(i - 1) /\ p[a].kind = "impl"
  BY <1>3, <1>6 DEF Over
<1>10. over = {} => a = NoItem
  BY DEF Above
<1> HIDE DEF a, over
<1>11. (\E x \in p[i].around : p[x].kind = "impl") <=> a # NoItem
  BY <1>7, <1>8, <1>10
<1> QED BY <1>2, <1>5, <1>9, <1>11 DEF a

(***************************************************************************)
(* What is on record of the items resolved so far.                         *)
(***************************************************************************)
\* Repeats in any program.
RepeatsIn(p, i) ==
  \/ \E j \in 1..(i - 1) : p[j].up = p[i].up /\ NamesOf(p[j]) \cap NamesOf(p[i]) # {}
  \/ /\ p[i].up # 0
     /\ \E g \in ToSet(p[p[i].up].generics) : <<g.name, "types">> \in NamesOf(p[i])
  \/ \E v, w \in DOMAIN p[i].variants : v # w /\ p[i].variants[v] = p[i].variants[w]

Said(c, i) == <<"AlreadyDefined", i>> \in c.diags
Clean(c) == ~c.taken /\ \A i : ~Said(c, i)

\* An item has a scope once it is resolved, and no other item has it.
Has(c, j) == c.own[j] # NoScope
OwnsApart(c) ==
  /\ \A i, j \in Ids : c.own[i] = c.own[j] /\ Has(c, i) => i = j
  /\ \A j \in Ids : c.own[j] # Root
OwnsOfItems(p, c) ==
  \A j \in Ids : Has(c, j) => /\ j \in 1..Len(p) /\ p[j].kind # "use"
                              /\ p[j].up # NoItem => Has(c, p[j].up)

ItsOwn(p, c, j) ==
  /\ c.def[j] \in 1..Len(c.defs)
  /\ c.defs[c.def[j]].kind = p[j].kind /\ c.defs[c.def[j]].symbol = p[j].name
  /\ c.defs[c.def[j]].scope = c.own[j] /\ c.defs[c.def[j]].item = j
  /\ p[j].kind = "struct" => c.defs[c.def[j]].record = (p[j].shape = "record")

\* Every definition but generic parameters, variants and Self is an item's.
Known(p, c, x) ==
  c.defs[x].kind \notin {"generic", "variant"} /\ c.defs[x].symbol # SELF_TYPE
    => /\ c.defs[x].item \in 1..Len(p) /\ p[c.defs[x].item].kind \in NamedKinds
       /\ Has(c, c.defs[x].item) /\ c.def[c.defs[x].item] = x

EntriesOwn(p, c, j) == \A e \in NamesOf(p[j]) : c.scopes[Around(c, p[j].up)].entries[e] = c.def[j]

Record(p, c) ==
  /\ Arena(c) /\ OwnsApart(c) /\ OwnsOfItems(p, c)
  /\ \A j \in Ids : Has(c, j) /\ p[j].kind \in NamedKinds => ItsOwn(p, c, j)
  /\ \A x \in 1..Len(c.defs) : Known(p, c, x)
  /\ \A j : Said(c, j) => j \in Ids /\ Has(c, j)
  /\ \A j \in Ids : Has(c, j) => (Said(c, j) <=> RepeatsIn(p, j))
  /\ Clean(c) => \A j \in Ids : Has(c, j) /\ p[j].kind \in NamedKinds => EntriesOwn(p, c, j)

(* The walk that resolves what is directly in impl a, or in none, at item k.   *)
Mine(p, a, j) == p[j].kind \in NamedKinds /\ Above(p, j) = a
Owner(p, a, k, o) == o = a \/ (o \in 1..k /\ Mine(p, a, o))
Given(p, o, k, e) ==
  \/ \E j \in 1..k : p[j].up = o /\ e \in NamesOf(p[j])
  \/ o # NoItem /\ e \in InnerNames(p[o])

Contents(p, c, a, k) ==
  \A o \in 0..Len(p) : Owner(p, a, k, o) =>
    \A e \in Entries : Held(c, Around(c, o), e) <=> Given(p, o, k, e)

Resolving(p, c, a, k) ==
  /\ \A j \in 1..Len(p) : Mine(p, a, j) => (Has(c, j) <=> j <= k)
  /\ a # NoItem => a \in 1..Len(p) /\ p[a].kind = "impl" /\ Has(c, a)

Books(p, c, a, k) == Record(p, c) /\ Contents(p, c, a, k) /\ Resolving(p, c, a, k)

LEMMA UpIsOwner ==
  ASSUME NEW p, Program(p), NEW c, NEW a, NEW k \in Nat, k + 1 <= Len(p), Books(p, c, a, k), Mine(p, a, k + 1)
  PROVE  /\ Owner(p, a, k, p[k + 1].up) /\ Around(c, p[k + 1].up) \in 1..Len(c.scopes)
         /\ p[k + 1].up # NoItem => Has(c, p[k + 1].up)
<1> DEFINE i == k + 1
           u == p[i].up
<1>1. /\ i \in 1..Len(p) /\ Arena(c) /\ Len(c.scopes) \in Nat /\ Len(c.scopes) >= 1
  <2>1. i \in 1..Len(p)
    <3>1. Len(p) \in Nat
      BY DEF Program
    <3> QED BY <3>1
  <2>2. Arena(c)
    BY DEF Books, Record
  <2> QED BY <2>1, <2>2, Sizes DEF Arena
<1>2. /\ i \in Nat /\ ItemOK(p, i) /\ u \in 0..(i - 1) /\ (u # NoItem => u \in 1..Len(p)) /\ i - 1 = k
  BY <1>1, ProgramIs
<1>3. CASE u = NoItem
  <2>1. a = NoItem
    BY <1>1, <1>3, AboveIs DEF Mine
  <2> QED BY <1>1, <1>3, <2>1 DEF Owner, Around, Root
<1>4. CASE u # NoItem
  <2>1. a = IF p[u].kind = "impl" THEN u ELSE Above(p, u)
    BY <1>1, <1>4, AboveIs DEF Mine
  <2>2. u \in 1..Len(p) /\ u \in 1..k /\ u <= k /\ u \in Ids
    BY <1>2, <1>4, ProgramIs DEF NoItem
  <2>3. CASE p[u].kind = "impl"
    <3>1. u = a /\ Has(c, a)
      BY <1>4, <2>1, <2>3 DEF Books, Resolving
    <3>2. c.own[u] \in 1..Len(c.scopes)
      BY <1>1, <2>2, <3>1 DEF Has, Arena, Contexts, NoScope
    <3> QED BY <1>4, <3>1, <3>2 DEF Owner, Around
  <2>4. CASE p[u].kind # "impl"
    <3>1. MayHold(p[u].kind, p[i].kind)
      BY <1>2, <1>4 DEF ItemOK
    <3>2. p[u].kind \in NamedKinds
      BY <2>4, <3>1 DEF MayHold, NamedKinds
    <3>3. Mine(p, a, u)
      BY <2>1, <2>4, <3>2 DEF Mine
    <3>4. Has(c, u)
      BY <2>2, <3>3 DEF Books, Resolving
    <3>5. c.own[u] \in 1..Len(c.scopes)
      BY <1>1, <2>2, <3>4 DEF Has, Arena, Contexts, NoScope
    <3> QED BY <1>4, <2>2, <3>3, <3>4, <3>5 DEF Owner, Around
  <2> QED BY <2>3, <2>4
<1> QED BY <1>3, <1>4

(* What declare finds is what the text says.                                   *)
LEMMA RepeatingIs ==
  ASSUME NEW p, Program(p), NEW c, NEW a, NEW k \in Nat, k + 1 <= Len(p), Books(p, c, a, k), Mine(p, a, k + 1)
  PROVE  Repeating(c, Around(c, p[k + 1].up), p[k + 1]) <=> RepeatsIn(p, k + 1)
<1> DEFINE i == k + 1
           f == p[i]
           u == f.up
           s == Around(c, u)
<1>1. i \in 1..Len(p) /\ i - 1 = k
  <2>1. Len(p) \in Nat
    BY DEF Program
  <2> QED BY <2>1
<1>2. /\ ItemOK(p, i) /\ u \in 0..k /\ (u # NoItem => u \in 1..Len(p)) /\ u \in 0..Len(p) /\ f \in Items
  <2>1. ItemOK(p, i) /\ u \in 0..(i - 1) /\ (u # NoItem => u \in 1..Len(p)) /\ f \in Items /\ Len(p) \in Nat
    BY <1>1, ProgramIs
  <2> QED BY <1>1, <2>1 DEF NoItem
<1>3. NamedItem(f)
  BY <1>2 DEF ItemOK, Mine, NamedKinds
<1>4. f.name \in Symbols /\ NamesOf(f) \subseteq Entries
  BY <1>3, NamedItemIs
<1>5. Owner(p, a, k, u)
  BY UpIsOwner
<1>6. \A e \in NamesOf(f) : Held(c, s, e) <=> Given(p, u, k, e)
  BY <1>2, <1>4, <1>5 DEF Books, Contents
<1>7. ASSUME u # NoItem, NEW e \in NamesOf(f)
      PROVE  e \in InnerNames(p[u]) <=> \E g \in ToSet(p[u].generics) : <<g.name, "types">> = e
  <2>1. u \in 1..Len(p) /\ MayHold(p[u].kind, f.kind)
    BY <1>2, <1>7 DEF ItemOK
  <2>2. p[u].kind # "enum" /\ p[u] \in Items /\ ItemOK(p, u)
    BY <2>1, ProgramIs DEF MayHold
  <2>3. Len(p[u].variants) = 0
    <3>1. p[u].variants = <<>>
      BY <2>2 DEF ItemOK
    <3> QED BY <3>1
  <2>4. e # <<SELF_TYPE, "types">>
    <3>1. e[1] = f.name
      BY DEF NamesOf
    <3>2. SELF_TYPE \notin Symbols
      BY NamesAssumption
    <3> QED BY <1>4, <3>1, <3>2
  <2>5. p[u].generics \in Seq(Generics)
    BY <2>2 DEF Items
  <2>6. DOMAIN p[u].generics = 1..Len(p[u].generics)
    BY <2>5
  <2>7. e \in InnerNames(p[u]) <=> \E j \in 1..Len(p[u].generics) : <<p[u].generics[j].name, "types">> = e
    BY <2>3, <2>4 DEF InnerNames
  <2> QED BY <2>6, <2>7 DEF ToSet
<1>8. Clashes(c, s, f) <=>
        \/ \E j \in 1..k : p[j].up = u /\ NamesOf(p[j]) \cap NamesOf(f) # {}
        \/ u # NoItem /\ \E g \in ToSet(p[u].generics) : <<g.name, "types">> \in NamesOf(f)
  BY <1>6, <1>7 DEF Clashes, Given
<1>9. VariantsRepeat(f.variants, Len(f.variants))
        <=> \E v, w \in DOMAIN f.variants : v # w /\ f.variants[v] = f.variants[w]
  <2>1. DOMAIN f.variants = 1..Len(f.variants)
    BY <1>2 DEF Items
  <2> QED BY <2>1 DEF VariantsRepeat
<1> QED BY <1>1, <1>8, <1>9 DEF Repeating, RepeatsIn, NoItem

LEMMA ResolveStep ==
  ASSUME NEW p, Program(p), NEW c, NEW a, NEW k \in Nat, k + 1 <= Len(p), Books(p, c, a, k), Mine(p, a, k + 1)
  PROVE  /\ Books(p, ResolveItem(c, k + 1, p[k + 1]), a, k + 1)
         /\ Resolved(c, ResolveItem(c, k + 1, p[k + 1]), Around(c, p[k + 1].up), k + 1, p[k + 1])
<1> DEFINE i == k + 1
           f == p[i]
           u == f.up
           s == Around(c, u)
           n == Inner(c)
           d == ResolveItem(c, i, f)
<1>1. i \in 1..Len(p) /\ i - 1 = k /\ Len(p) \in Nat
  <2>1. Len(p) \in Nat
    BY DEF Program
  <2> QED BY <2>1
<1>2. /\ ItemOK(p, i) /\ u \in 0..k /\ (u # NoItem => u \in 1..Len(p)) /\ i \in Ids /\ i \in Nat
  BY <1>1, ProgramIs
<1>3. NamedItem(f) /\ f.kind \in NamedKinds
  BY <1>2 DEF ItemOK, Mine, NamedKinds
<1>4. s \in 1..Len(c.scopes) /\ Owner(p, a, k, u) /\ (u # NoItem => Has(c, u))
  BY UpIsOwner
<1>5. Record(p, c) /\ Contents(p, c, a, k) /\ Resolving(p, c, a, k) /\ Arena(c)
  BY DEF Books, Record
<1>6. Resolved(c, d, s, i, f)
  BY <1>2, <1>3, <1>4, <1>5, ResolveItemIs
<1>7. Repeating(c, s, f) <=> RepeatsIn(p, i)
  BY RepeatingIs
<1> HIDE DEF d
<1>8. PICK x \in Nat : ResolvedAs(c, d, s, i, f, x)
  BY <1>6 DEF Resolved
<1>9. /\ Arena(d) /\ Longer(c, d) /\ NewDefs(c, d, i) /\ SameRest(c, d) /\ Reported(c, d, i, Repeating(c, s, f))
      /\ Len(d.scopes) = n /\ \A e \in Entries : Held(d, n, e) <=> e \in InnerNames(f)
  BY <1>6 DEF Resolved
<1>10. /\ Len(c.scopes) \in Nat /\ Len(c.defs) \in Nat /\ Len(d.defs) \in Nat /\ n = Len(c.scopes) + 1
       /\ Len(c.scopes) >= 1 /\ c.own \in [Ids -> Nat] /\ c.def \in [Ids -> Nat]
  <2>1. c \in Contexts
    BY <1>5 DEF Arena
  <2> QED BY <1>5, <1>9, <2>1, Sizes DEF Arena, Inner, Contexts
<1>11. \A j \in Ids : c.own[j] \in Nat /\ c.own[j] <= Len(c.scopes) /\ (Has(c, j) => c.own[j] \in 1..Len(c.scopes))
  BY <1>5, <1>10 DEF Arena, Has, NoScope
<1>12. x \in (Len(c.defs) + 1)..Len(d.defs) /\ x # NoDef /\ ItsDef(d.defs[x], f, n, x)
  BY <1>8, <1>10 DEF ResolvedAs, NoDef
<1>13. /\ d.own[i] = n /\ d.def[i] = x
       /\ \A j \in Ids : j # i => d.own[j] = c.own[j] /\ d.def[j] = c.def[j] /\ (Has(d, j) <=> Has(c, j))
  BY <1>2, <1>8, <1>10 DEF ResolvedAs, Owns, Has
<1>14. ~Has(c, i) /\ Has(d, i) /\ n # NoScope /\ n # Root
  <2>1. ~Has(c, i)
    BY <1>1, <1>5 DEF Resolving
  <2> QED BY <1>10, <1>13, <2>1 DEF Has, NoScope, Root
<1>15. /\ \A j \in Ids : Has(c, j) => j # i /\ p[j].up # i
       /\ \A j \in 1..k : j # i /\ p[j].up # i
  <2>1. \A j \in Ids : Has(c, j) => p[j].up # i
    BY <1>2, <1>5, <1>14 DEF Record, OwnsOfItems, NoItem
  <2>2. ASSUME NEW j \in 1..k PROVE p[j].up # i
    <3>1. p[j].up \in 0..(j - 1)
      BY <1>1, ProgramIs
    <3> QED BY <3>1
  <2> QED BY <1>14, <2>1, <2>2
<1> HIDE DEF n, s
<1>16. OwnsApart(d)
  <2>1. ASSUME NEW j \in Ids, NEW l \in Ids, d.own[j] = d.own[l], Has(d, j) PROVE j = l
    <3>1. CASE j # i /\ l # i
      BY <1>5, <1>13, <2>1, <3>1 DEF Record, OwnsApart
    <3>2. CASE j = i /\ l # i
      BY <1>10, <1>11, <1>13, <2>1, <3>2
    <3>3. CASE l = i /\ j # i
      BY <1>10, <1>11, <1>13, <2>1, <3>3
    <3> QED BY <3>1, <3>2, <3>3
  <2>2. \A j \in Ids : d.own[j] # Root
    BY <1>5, <1>13, <1>14 DEF Record, OwnsApart
  <2> QED BY <2>1, <2>2 DEF OwnsApart
<1>17. OwnsOfItems(p, d)
  <2> SUFFICES ASSUME NEW j \in Ids, Has(d, j)
               PROVE  /\ j \in 1..Len(p) /\ p[j].kind # "use"
                      /\ p[j].up # NoItem => Has(d, p[j].up)
    BY DEF OwnsOfItems
  <2>1. CASE j = i
    <3>1. u # NoItem => u \in Ids /\ u # i
      BY <1>1, <1>2, ProgramIs
    <3>2. u # NoItem => Has(d, u)
      BY <1>4, <1>13, <3>1
    <3> QED BY <1>1, <1>3, <2>1, <3>2 DEF NamedKinds
  <2>2. CASE j # i
    <3>1. Has(c, j)
      BY <1>13, <2>2
    <3>2. j \in 1..Len(p) /\ p[j].kind # "use" /\ (p[j].up # NoItem => Has(c, p[j].up))
      BY <1>5, <3>1 DEF Record, OwnsOfItems
    <3>3. p[j].up # NoItem => p[j].up \in Ids /\ p[j].up # i
      BY <1>15, <3>1, <3>2, ProgramIs
    <3> QED BY <1>13, <3>2, <3>3
  <2> QED BY <2>1, <2>2
<1>18. \A j \in Ids : Has(d, j) /\ p[j].kind \in NamedKinds => ItsOwn(p, d, j)
  <2> SUFFICES ASSUME NEW j \in Ids, Has(d, j), p[j].kind \in NamedKinds PROVE ItsOwn(p, d, j)
    OBVIOUS
  <2>1. CASE j = i
    <3>1. x \in 1..Len(d.defs) /\ d.defs[x].item = i
      BY <1>9, <1>10, <1>12 DEF NewDefs, NewDef
    <3> QED BY <1>12, <1>13, <2>1, <3>1 DEF ItsOwn, ItsDef
  <2>2. CASE j # i
    <3>1. ItsOwn(p, c, j) /\ d.own[j] = c.own[j] /\ d.def[j] = c.def[j]
      BY <1>5, <1>13, <2>2 DEF Record
    <3>2. c.def[j] \in 1..Len(c.defs) /\ c.def[j] \in 1..Len(d.defs) /\ d.defs[c.def[j]] = c.defs[c.def[j]]
      BY <1>9, <1>10, <3>1 DEF ItsOwn, Longer
    <3> QED BY <3>1, <3>2 DEF ItsOwn
  <2> QED BY <2>1, <2>2
<1>19. \A y \in 1..Len(d.defs) : Known(p, d, y)
  <2> SUFFICES ASSUME NEW y \in 1..Len(d.defs) PROVE Known(p, d, y)
    OBVIOUS
  <2>1. CASE y <= Len(c.defs)
    <3>1. y \in 1..Len(c.defs)
      BY <1>10, <2>1
    <3>2. d.defs[y] = c.defs[y] /\ Known(p, c, y)
      BY <1>5, <1>9, <3>1 DEF Longer, Record
    <3>3. c.defs[y].item \in 1..Len(p) /\ Has(c, c.defs[y].item) => c.defs[y].item \in Ids /\ c.defs[y].item # i
      BY <1>14, ProgramIs
    <3> QED BY <1>13, <3>2, <3>3 DEF Known
  <2>2. CASE y > Len(c.defs)
    <3>1. y \in (Len(c.defs) + 1)..Len(d.defs)
      BY <1>10, <2>2
    <3>2. d.defs[y].item = i /\ (y = x \/ d.defs[y].kind \in {"generic", "variant"})
      BY <1>8, <1>9, <3>1 DEF NewDefs, NewDef, ResolvedAs
    <3> QED BY <1>1, <1>3, <1>13, <1>14, <3>2 DEF Known
  <2> QED BY <1>10, <2>1, <2>2
<1>20. /\ \A j : Said(d, j) <=> (Said(c, j) \/ (j = i /\ RepeatsIn(p, i)))
       /\ ~Said(c, i) /\ (Clean(d) => Clean(c)) /\ (Clean(d) => ~Repeating(c, s, f))
  <2>1. \A j : Said(d, j) <=> (Said(c, j) \/ (j = i /\ RepeatsIn(p, i)))
    BY <1>7, <1>9 DEF Reported, Said, s
  <2>2. ~Said(c, i)
    BY <1>5, <1>14 DEF Record
  <2>3. Clean(d) => Clean(c)
    BY <1>9, <2>1 DEF Clean, SameRest
  <2>4. Clean(d) => ~Repeating(c, s, f)
    BY <1>7, <2>1 DEF Clean, s
  <2> QED BY <2>1, <2>2, <2>3, <2>4
<1>21. \A j : Said(d, j) => j \in Ids /\ Has(d, j)
  BY <1>2, <1>5, <1>13, <1>14, <1>20 DEF Record
<1>22. \A j \in Ids : Has(d, j) => (Said(d, j) <=> RepeatsIn(p, j))
  BY <1>5, <1>13, <1>20 DEF Record
<1>23. ASSUME NEW o, o = NoItem \/ (o \in Ids /\ Has(c, o))
       PROVE  /\ Around(c, o) \in 1..Len(c.scopes) /\ (o # i => Around(d, o) = Around(c, o))
              /\ Around(c, o) = s <=> o = u
  <2>1. Around(c, o) \in 1..Len(c.scopes)
    BY <1>10, <1>11, <1>23 DEF Around, Root
  <2>2. o # i => Around(d, o) = Around(c, o)
    BY <1>13, <1>23 DEF Around
  <2>3. u # NoItem => u \in Ids /\ Has(c, u)
    BY <1>2, <1>4, ProgramIs
  <2>4. Around(c, o) = s <=> o = u
    BY <1>5, <1>23, <2>3 DEF Around, s, Record, OwnsApart, Root
  <2> QED BY <2>1, <2>2, <2>4
<1>24. \A t \in 1..Len(c.scopes) : \A e \in Entries :
         d.scopes[t].entries[e] = IF t = s /\ e \in NamesOf(f) THEN x ELSE c.scopes[t].entries[e]
  BY <1>8 DEF ResolvedAs
<1>25. Clean(d) => \A j \in Ids : Has(d, j) /\ p[j].kind \in NamedKinds => EntriesOwn(p, d, j)
  <2> SUFFICES ASSUME Clean(d), NEW j \in Ids, Has(d, j), p[j].kind \in NamedKinds, NEW e \in NamesOf(p[j])
               PROVE  d.scopes[Around(d, p[j].up)].entries[e] = d.def[j]
    BY DEF EntriesOwn
  <2>1. j \in 1..Len(p) /\ e \in Entries
    <3>1. j \in 1..Len(p)
      BY <1>17 DEF OwnsOfItems
    <3>2. NamedItem(p[j])
      BY <3>1, ProgramIs DEF ItemOK, NamedKinds
    <3> QED BY <3>1, <3>2, NamedItemIs
  <2>2. CASE j = i
    <3>1. Around(d, u) = s /\ s \in 1..Len(c.scopes)
      <4>1. u = NoItem \/ (u \in Ids /\ Has(c, u))
        BY <1>2, <1>4, ProgramIs
      <4>2. u # i
        BY <1>1, <1>2
      <4> QED BY <1>23, <4>1, <4>2
    <3> QED BY <1>13, <1>24, <2>1, <2>2, <3>1
  <2>3. CASE j # i
    <3>1. Has(c, j) /\ EntriesOwn(p, c, j) /\ ItsOwn(p, c, j)
      BY <1>5, <1>13, <1>20, <2>3 DEF Record
    <3> DEFINE o == p[j].up
    <3>2. o = NoItem \/ (o \in Ids /\ Has(c, o))
      BY <1>5, <2>1, <3>1, ProgramIs DEF Record, OwnsOfItems
    <3>3. Around(c, o) \in 1..Len(c.scopes) /\ Around(d, o) = Around(c, o)
      <4>1. o # i
        BY <1>15, <3>1
      <4> QED BY <1>23, <3>2, <4>1
    <3>4. c.scopes[Around(c, o)].entries[e] = c.def[j] /\ c.def[j] # NoDef
      BY <3>1 DEF EntriesOwn, ItsOwn, NoDef
    <3>5. ~(Around(c, o) = s /\ e \in NamesOf(f))
      BY <1>20, <3>4 DEF Repeating, Clashes, Held
    <3>6. d.scopes[Around(c, o)].entries[e] = c.scopes[Around(c, o)].entries[e]
      BY <1>24, <2>1, <3>3, <3>5
    <3> QED BY <1>13, <2>3, <3>3, <3>4, <3>6
  <2> QED BY <2>2, <2>3
<1>26. Contents(p, d, a, i)
  <2> SUFFICES ASSUME NEW o \in 0..Len(p), Owner(p, a, i, o), NEW e \in Entries
               PROVE  Held(d, Around(d, o), e) <=> Given(p, o, i, e)
    BY DEF Contents
  <2>a. 1..i = (1..k) \cup {i}
    BY <1>1
  <2>1. CASE o = i
    <3>1. Around(d, o) = n
      BY <1>1, <1>13, <2>1 DEF Around, NoItem
    <3>2. Given(p, o, i, e) <=> e \in InnerNames(f)
      <4>1. u # i
        BY <1>1, <1>2
      <4> QED BY <1>1, <1>15, <2>a, <2>1, <4>1 DEF Given, NoItem
    <3> QED BY <1>9, <3>1, <3>2
  <2>2. CASE o # i
    <3>1. Owner(p, a, k, o)
      BY <2>2, <2>a DEF Owner
    <3>2. o = NoItem \/ (o \in Ids /\ Has(c, o))
      <4>1. CASE o = a
        BY <1>5, <4>1, ProgramIs DEF Resolving
      <4>2. CASE o # a
        <5>1. o \in 1..k /\ Mine(p, a, o)
          BY <3>1, <4>2 DEF Owner
        <5>2. o \in 1..Len(p) /\ o <= k
          BY <1>1, <5>1
        <5> QED BY <1>5, <5>1, <5>2, ProgramIs DEF Resolving
      <4> QED BY <4>1, <4>2
    <3>3. Around(c, o) \in 1..Len(c.scopes) /\ Around(d, o) = Around(c, o) /\ (Around(c, o) = s <=> o = u)
      BY <1>23, <2>2, <3>2
    <3>4. Held(c, Around(c, o), e) <=> Given(p, o, k, e)
      BY <1>5, <3>1 DEF Contents
    <3>5. Held(d, Around(c, o), e) <=> ((o = u /\ e \in NamesOf(f)) \/ Held(c, Around(c, o), e))
      BY <1>12, <1>24, <3>3 DEF Held
    <3>6. Given(p, o, i, e) <=> ((o = u /\ e \in NamesOf(f)) \/ Given(p, o, k, e))
      BY <2>a DEF Given
    <3> QED BY <3>3, <3>4, <3>5, <3>6
  <2> QED BY <2>1, <2>2
<1>27. Resolving(p, d, a, i)
  <2>1. ASSUME NEW j \in 1..Len(p), Mine(p, a, j) PROVE Has(d, j) <=> j <= i
    <3>1. j \in Ids /\ (Has(c, j) <=> j <= k)
      BY <1>5, <2>1, ProgramIs DEF Resolving
    <3>2. CASE j = i
      BY <1>1, <1>14, <3>2
    <3>3. CASE j # i
      <4>1. j <= i <=> j <= k
        BY <1>1, <3>3
      <4> QED BY <1>13, <3>1, <3>3, <4>1
    <3> QED BY <3>2, <3>3
  <2>2. a # NoItem => a \in 1..Len(p) /\ p[a].kind = "impl" /\ Has(d, a)
    BY <1>5, <1>13, <1>14, ProgramIs DEF Resolving
  <2> QED BY <2>1, <2>2 DEF Resolving
<1>28. Record(p, d)
  BY <1>9, <1>16, <1>17, <1>18, <1>19, <1>21, <1>22, <1>25 DEF Record
<1> QED BY <1>6, <1>26, <1>27, <1>28 DEF Books, d, s

(* An item that the walk passes by.                                            *)
LEMMA PassedBy ==
  ASSUME NEW p, Program(p), NEW c, NEW a, NEW k \in Nat, k + 1 <= Len(p), Books(p, c, a, k), ~Mine(p, a, k + 1)
  PROVE  Books(p, c, a, k + 1)
<1> DEFINE i == k + 1
<1>1. i \in 1..Len(p) /\ 1..i = (1..k) \cup {i}
  <2>1. Len(p) \in Nat
    BY DEF Program
  <2> QED BY <2>1
<1>2. ASSUME NEW o \in 0..Len(p), Owner(p, a, i, o) PROVE Owner(p, a, k, o)
  BY <1>1, <1>2 DEF Owner
<1>3. ASSUME NEW o \in 0..Len(p), Owner(p, a, k, o), NEW e \in NamesOf(p[i]) PROVE p[i].up # o
  <2> SUFFICES ASSUME p[i].up = o PROVE FALSE
    OBVIOUS
  <2>1. p[i].kind \in NamedKinds
    <3>1. p[i].kind \notin {"impl", "use"}
      BY DEF NamesOf
    <3> QED BY <1>1, <3>1, ProgramIs
  <2>2. Above(p, i) # a
    BY <2>1 DEF Mine
  <2>3. CASE o = NoItem
    <3>1. Above(p, i) = NoItem
      BY <1>1, <2>3, AboveIs
    <3>2. o = a
      <4>1. o \notin 1..k
        BY <2>3 DEF NoItem
      <4> QED BY <1>3, <4>1 DEF Owner
    <3> QED BY <2>2, <2>3, <3>1, <3>2
  <2>4. CASE o # NoItem
    <3>1. Above(p, i) = IF p[o].kind = "impl" THEN o ELSE Above(p, o)
      BY <1>1, <2>4, AboveIs
    <3>2. CASE o = a
      <4>1. p[a].kind = "impl"
        BY <2>4, <3>2 DEF Books, Resolving
      <4> QED BY <2>2, <3>1, <3>2, <4>1
    <3>3. CASE o # a
      <4>1. Mine(p, a, o)
        BY <1>3, <3>3 DEF Owner
      <4>2. p[o].kind # "impl" /\ Above(p, o) = a
        BY <4>1 DEF Mine, NamedKinds
      <4> QED BY <2>2, <3>1, <4>2
    <3> QED BY <3>2, <3>3
  <2> QED BY <2>3, <2>4
<1>4. ASSUME NEW o \in 0..Len(p), Owner(p, a, k, o), NEW e \in Entries
      PROVE  Given(p, o, i, e) <=> Given(p, o, k, e)
  BY <1>1, <1>3, <1>4 DEF Given
<1>5. Contents(p, c, a, i)
  BY <1>2, <1>4 DEF Books, Contents
<1>6. Resolving(p, c, a, i)
  <2>1. ASSUME NEW j \in 1..Len(p), Mine(p, a, j) PROVE j <= i <=> j <= k
    <3>1. j # i
      BY <2>1
    <3> QED BY <3>1
  <2> QED BY <2>1 DEF Books, Resolving
<1> QED BY <1>5, <1>6 DEF Books

(* What the first n scopes are left as, and who got a new one.                 *)
Fresh(c, d) == \A x \in (Len(c.defs) + 1)..Len(d.defs) : d.defs[x].collected = NoItem /\ d.defs[x].checked = NoItem
Leaves(c, d, n) ==
  \A t \in 1..n : /\ d.scopes[t].parent = c.scopes[t].parent
                  /\ \A e \in Entries : d.scopes[t].entries[e] = c.scopes[t].entries[e]
Gains(p, c, d, a, n) ==
  \A j \in Ids : /\ Has(c, j) => d.own[j] = c.own[j] /\ d.def[j] = c.def[j]
                 /\ Has(d, j) /\ ~Has(c, j) => j \in 1..Len(p) /\ Mine(p, a, j) /\ d.own[j] > n
Within(p, c, d, a, n) ==
  /\ Longer(c, d) /\ Fresh(c, d) /\ SameRest(c, d) /\ Len(d.scopes) >= Len(c.scopes)
  /\ Leaves(c, d, n) /\ Gains(p, c, d, a, n)

LEMMA WithinNothing ==
  ASSUME NEW p, NEW c, Arena(c), NEW a, NEW n
  PROVE  Within(p, c, c, a, n)
<1>1. Len(c.defs) \in Nat /\ Len(c.scopes) \in Nat
  BY Sizes DEF Arena
<1> QED BY <1>1 DEF Within, Longer, Fresh, SameRest, Leaves, Gains

LEMMA WithinMore ==
  ASSUME NEW p, Program(p), NEW c, Arena(c), NEW a, a # NoItem, NEW k \in Nat, k + 1 <= Len(p),
         NEW v, Books(p, v, a, k), Mine(p, a, k + 1), NEW n \in Nat, n <= Len(c.scopes),
         Has(c, a), c.own[a] > n, \A j \in 1..Len(p) : Mine(p, a, j) => ~Has(c, j),
         Within(p, c, v, a, n), NEW d,
         Resolved(v, d, Around(v, p[k + 1].up), k + 1, p[k + 1])
  PROVE  Within(p, c, d, a, n)
<1> DEFINE i == k + 1
           f == p[i]
           u == f.up
           s == Around(v, u)
<1>1. /\ i \in 1..Len(p) /\ i \in Ids /\ Arena(v) /\ Owner(p, a, k, u) /\ (u # NoItem => u \in 1..Len(p) /\ u \in Ids)
      /\ u \in 0..k
  <2>1. i \in 1..Len(p) /\ i - 1 = k
    <3>1. Len(p) \in Nat
      BY DEF Program
    <3> QED BY <3>1
  <2>2. Arena(v) /\ Owner(p, a, k, u)
    BY UpIsOwner DEF Books, Record
  <2> QED BY <2>1, <2>2, ProgramIs
<1>2. /\ Len(c.scopes) \in Nat /\ Len(c.defs) \in Nat /\ Len(v.scopes) \in Nat /\ Len(v.defs) \in Nat
      /\ Arena(d) /\ Len(d.defs) \in Nat /\ Len(d.scopes) = Len(v.scopes) + 1
      /\ v.own \in [Ids -> Nat] /\ v.def \in [Ids -> Nat] /\ Inner(v) = Len(v.scopes) + 1
  <2>1. Arena(d) /\ Len(d.scopes) = Len(v.scopes) + 1
    BY DEF Resolved, Inner
  <2> QED BY <1>1, <2>1, Sizes DEF Arena, Contexts, Inner
<1>3. Len(v.scopes) >= Len(c.scopes) /\ Longer(c, v) /\ Longer(v, d)
  BY DEF Within, Resolved
<1>4. u # NoItem /\ s = v.own[u] /\ s > n
  <2>1. u = a \/ (u \in 1..k /\ Mine(p, a, u))
    BY <1>1 DEF Owner
  <2>2. u # NoItem
    BY <2>1 DEF NoItem
  <2>3. Has(v, u)
    BY <2>2, UpIsOwner
  <2>4. CASE u = a
    <3>1. v.own[a] = c.own[a]
      BY <1>1, <2>2, <2>4 DEF Within, Gains
    <3> QED BY <2>2, <2>4, <3>1 DEF Around
  <2>5. CASE u # a
    <3>1. ~Has(c, u)
      BY <1>1, <2>1, <2>2, <2>5
    <3> QED BY <1>1, <2>2, <2>3, <3>1 DEF Around, Within, Gains
  <2> QED BY <2>1, <2>4, <2>5
<1>5. PICK x \in Nat : ResolvedAs(v, d, s, i, f, x)
  BY DEF Resolved
<1>6. Longer(c, d)
  BY <1>2, <1>3, SMTT(30) DEF Longer
<1>7. Fresh(c, d)
  <2> SUFFICES ASSUME NEW y \in (Len(c.defs) + 1)..Len(d.defs)
               PROVE  d.defs[y].collected = NoItem /\ d.defs[y].checked = NoItem
    BY DEF Fresh
  <2>1. CASE y <= Len(v.defs)
    <3>1. y \in (Len(c.defs) + 1)..Len(v.defs) /\ y \in 1..Len(v.defs)
      BY <1>2, <2>1
    <3> QED BY <1>3, <3>1 DEF Within, Fresh, Longer
  <2>2. CASE y > Len(v.defs)
    <3>1. y \in (Len(v.defs) + 1)..Len(d.defs)
      BY <1>2, <2>2
    <3> QED BY <3>1 DEF Resolved, NewDefs, NewDef
  <2> QED BY <1>2, <2>1, <2>2
<1>8. SameRest(c, d)
  BY DEF Within, Resolved, SameRest
<1>9. Len(d.scopes) >= Len(c.scopes)
  BY <1>2, <1>3
<1>10. Leaves(c, d, n)
  <2> SUFFICES ASSUME NEW t \in 1..n
               PROVE  /\ d.scopes[t].parent = c.scopes[t].parent
                      /\ \A e \in Entries : d.scopes[t].entries[e] = c.scopes[t].entries[e]
    BY DEF Leaves
  <2>1. t \in 1..Len(v.scopes) /\ t # s
    BY <1>2, <1>3, <1>4, SMTT(30)
  <2>2. v.scopes[t].parent = c.scopes[t].parent /\ \A e \in Entries : v.scopes[t].entries[e] = c.scopes[t].entries[e]
    BY DEF Within, Leaves
  <2>3. d.scopes[t].parent = v.scopes[t].parent
    BY <2>1 DEF Resolved
  <2>4. \A e \in Entries : d.scopes[t].entries[e] = v.scopes[t].entries[e]
    BY <1>5, <2>1 DEF ResolvedAs
  <2> QED BY <2>2, <2>3, <2>4
<1>11. Gains(p, c, d, a, n)
  <2>1. /\ d.own[i] = Inner(v) /\ \A j \in Ids : j # i => d.own[j] = v.own[j] /\ d.def[j] = v.def[j]
    BY <1>1, <1>2, <1>5 DEF ResolvedAs, Owns
  <2>2. Inner(v) > n
    BY <1>2, <1>3
  <2>3. ~Has(c, i)
    BY <1>1
  <2> SUFFICES ASSUME NEW j \in Ids
               PROVE  /\ Has(c, j) => d.own[j] = c.own[j] /\ d.def[j] = c.def[j]
                      /\ Has(d, j) /\ ~Has(c, j) => j \in 1..Len(p) /\ Mine(p, a, j) /\ d.own[j] > n
    BY DEF Gains
  <2>4. CASE j = i
    BY <1>1, <2>1, <2>2, <2>3, <2>4
  <2>5. CASE j # i
    <3>1. d.own[j] = v.own[j] /\ d.def[j] = v.def[j] /\ (Has(d, j) <=> Has(v, j))
      BY <2>1, <2>5 DEF Has
    <3> QED BY <3>1 DEF Within, Gains
  <2> QED BY <2>4, <2>5
<1> QED BY <1>6, <1>7, <1>8, <1>9, <1>10, <1>11 DEF Within

(***************************************************************************)
(* Opening an impl.                                                        *)
(***************************************************************************)
StepWithin(c, j, i) == IF Above(prog, j) = i THEN ResolveItem(c, j, prog[j]) ELSE c
Folded(c, i, m, f) == f = [k \in 0..m |-> IF k = 0 THEN c ELSE StepWithin(f[k - 1], k, i)]

LEMMA FoldedIs ==
  ASSUME NEW c, NEW i, NEW m \in Nat
  PROVE  \E f : Folded(c, i, m, f)
<1> DEFINE S == {n \in Nat : \E f : Folded(c, i, n, f)}
<1>1. 0 \in S
  <2> DEFINE f == [k \in 0..0 |-> c]
  <2>1. f = [k \in 0..0 |-> IF k = 0 THEN c ELSE StepWithin(f[k - 1], k, i)]
    <3> HIDE DEF StepWithin
    <3>1. \A k \in 0..0 : k = 0
      OBVIOUS
    <3> QED BY <3>1
  <2>2. Folded(c, i, 0, f)
    BY <2>1 DEF Folded
  <2> QED BY <2>2
<1>2. ASSUME NEW n \in Nat, n \in S PROVE n + 1 \in S
  <2>1. PICK f : Folded(c, i, n, f)
    BY <1>2
  <2> DEFINE last == StepWithin(f[n], n + 1, i)
             g == [k \in 0..(n + 1) |-> IF k <= n THEN f[k] ELSE last]
             h == [k \in 0..(n + 1) |-> IF k = 0 THEN c ELSE StepWithin(g[k - 1], k, i)]
  <2>2. ASSUME NEW k \in 0..(n + 1) PROVE g[k] = h[k]
    <3>1. CASE k = n + 1
      <4>1. g[n] = f[n]
        OBVIOUS
      <4>2. h[k] = StepWithin(g[k - 1], k, i)
        BY <3>1
      <4>3. k - 1 = n
        BY <3>1
      <4>4. h[k] = last
        BY <3>1, <4>1, <4>2, <4>3
      <4>5. g[k] = last
        BY <3>1
      <4> QED BY <4>4, <4>5
    <3>2. CASE k # n + 1
      <4>1. k \in 0..n /\ k <= n
        BY <3>2
      <4>2. g[k] = f[k]
        BY <4>1
      <4>3. f[k] = IF k = 0 THEN c ELSE StepWithin(f[k - 1], k, i)
        BY <2>1, <4>1 DEF Folded
      <4>4. k # 0 => g[k - 1] = f[k - 1]
        BY <4>1
      <4>5. h[k] = IF k = 0 THEN c ELSE StepWithin(g[k - 1], k, i)
        OBVIOUS
      <4> QED BY <4>2, <4>3, <4>4, <4>5
    <3> QED BY <3>1, <3>2
  <2>3. g = h
    <3> HIDE DEF last
    <3>1. g = [k \in 0..(n + 1) |-> g[k]] /\ h = [k \in 0..(n + 1) |-> h[k]]
      OBVIOUS
    <3> HIDE DEF g, h
    <3> QED BY <2>2, <3>1
  <2>4. Folded(c, i, n + 1, g)
    <3> HIDE DEF last, g
    <3> QED BY <2>3 DEF Folded
  <2> QED BY <2>4
<1> HIDE DEF S
<1>3. m \in S
  BY <1>1, <1>2, EveryNatural
<1> QED BY <1>3 DEF S

LEMMA ResolveWithinIs ==
  ASSUME Program(prog), NEW i, NEW c, Books(prog, c, i, 0), i # NoItem, NEW n \in Nat,
         n <= Len(c.scopes), c.own[i] > n
  PROVE  Books(prog, ResolveWithin(c, i), i, Len(prog)) /\ Within(prog, c, ResolveWithin(c, i), i, n)
<1>1. Len(prog) \in Nat
  BY DEF Program
<1> DEFINE cxs == CHOOSE f : Folded(c, i, Len(prog), f)
<1>2. Folded(c, i, Len(prog), cxs)
  BY <1>1, FoldedIs
<1>3. ResolveWithin(c, i) = cxs[Len(prog)]
  BY DEF ResolveWithin, After, Folded, StepWithin, Above, Over, ImplOver
<1> HIDE DEF cxs
<1>4. Arena(c) /\ Has(c, i) /\ \A j \in 1..Len(prog) : Mine(prog, i, j) => ~Has(c, j)
  BY DEF Books, Record, Resolving
<1> DEFINE Right(k) == Books(prog, cxs[k], i, k) /\ Within(prog, c, cxs[k], i, n)
           S == {k \in Nat : k <= Len(prog) => Right(k)}
<1>5. 0 \in S
  <2>1. cxs[0] = c
    BY <1>1, <1>2 DEF Folded
  <2> QED BY <1>4, <2>1, WithinNothing
<1>6. ASSUME NEW k \in Nat, k \in S PROVE k + 1 \in S
  <2> SUFFICES ASSUME k + 1 <= Len(prog) PROVE Right(k + 1)
    OBVIOUS
  <2>1. Right(k)
    BY <1>1, <1>6
  <2>2. cxs[k + 1] = StepWithin(cxs[k], k + 1, i)
    <3>1. k + 1 \in 0..Len(prog) /\ k + 1 # 0 /\ (k + 1) - 1 = k
      BY <1>1
    <3> QED BY <1>2, <3>1 DEF Folded
  <2>3. CASE Mine(prog, i, k + 1)
    <3>1. cxs[k + 1] = ResolveItem(cxs[k], k + 1, prog[k + 1])
      BY <2>2, <2>3 DEF StepWithin, Mine
    <3>2. /\ Books(prog, cxs[k + 1], i, k + 1)
          /\ Resolved(cxs[k], cxs[k + 1], Around(cxs[k], prog[k + 1].up), k + 1, prog[k + 1])
      BY <2>1, <2>3, <3>1, ResolveStep
    <3>3. Within(prog, c, cxs[k + 1], i, n)
      BY <1>4, <2>1, <2>3, <3>2, WithinMore
    <3> QED BY <3>2, <3>3
  <2>4. CASE ~Mine(prog, i, k + 1)
    <3>1. cxs[k + 1] = cxs[k]
      <4>1. CASE Above(prog, k + 1) = i
        <5>1. prog[k + 1].kind \notin NamedKinds
          BY <2>4, <4>1 DEF Mine
        <5> QED BY <2>2, <4>1, <5>1 DEF StepWithin, NamedKinds, ResolveItem
      <4>2. CASE Above(prog, k + 1) # i
        BY <2>2, <4>2 DEF StepWithin
      <4> QED BY <4>1, <4>2
    <3>2. Books(prog, cxs[k], i, k + 1)
      BY <2>1, <2>4, PassedBy
    <3> QED BY <2>1, <3>1, <3>2
  <2> QED BY <2>3, <2>4
<1> HIDE DEF Right
<1>7. Len(prog) \in S
  <2> HIDE DEF S
  <2> QED BY <1>1, <1>5, <1>6, EveryNatural
<1>8. Right(Len(prog))
  BY <1>1, <1>7
<1> QED BY <1>3, <1>8 DEF Right

(***************************************************************************)
(* What changes a context may see and the record be kept: new definitions  *)
(* that no item has a claim to, at most one impl opened, and imports.      *)
(***************************************************************************)
SameDef(x, y) == x.kind = y.kind /\ x.symbol = y.symbol /\ x.item = y.item /\ x.scope = y.scope /\ x.record = y.record
Nobodys(x) == x.kind \in {"generic", "variant"} \/ x.symbol = SELF_TYPE
KeepsDefs(c, d) ==
  /\ Len(d.defs) >= Len(c.defs) /\ \A x \in 1..Len(c.defs) : SameDef(d.defs[x], c.defs[x])
  /\ \A x \in (Len(c.defs) + 1)..Len(d.defs) : Nobodys(d.defs[x])

KeepsOwns(p, c, d, i) ==
  /\ \A j \in Ids : j # i => d.own[j] = c.own[j] /\ d.def[j] = c.def[j]
  /\ i # NoItem => /\ i \in 1..Len(p) /\ p[i].kind = "impl" /\ ~Has(c, i) /\ d.own[i] > Len(c.scopes)
                   /\ p[i].up # NoItem => Has(c, p[i].up)

KeepsNames(c, d) ==
  ~d.taken => \A t \in 1..Len(c.scopes) : \A e \in Entries :
                Held(c, t, e) => d.scopes[t].entries[e] = c.scopes[t].entries[e]

Keeps(p, c, d, i) ==
  /\ KeepsDefs(c, d) /\ KeepsOwns(p, c, d, i) /\ KeepsNames(c, d) /\ SameReports(c, d)
  /\ c.taken => d.taken

LEMMA RecordKept ==
  ASSUME NEW p, Program(p), NEW c, Record(p, c), NEW d, Arena(d), NEW i, Keeps(p, c, d, i)
  PROVE  Record(p, d)
<1>1. /\ KeepsDefs(c, d) /\ KeepsOwns(p, c, d, i) /\ KeepsNames(c, d) /\ SameReports(c, d) /\ (c.taken => d.taken)
      /\ Arena(c) /\ OwnsApart(c) /\ OwnsOfItems(p, c)
  BY DEF Keeps, Record
<1>2. /\ Len(c.scopes) \in Nat /\ Len(c.defs) \in Nat /\ Len(d.defs) \in Nat /\ Len(c.scopes) >= 1
      /\ c.own \in [Ids -> Nat] /\ d.own \in [Ids -> Nat] /\ d.def \in [Ids -> Nat]
  BY <1>1, Sizes DEF Arena, Contexts
<1>3. \A j \in Ids : c.own[j] \in Nat /\ c.own[j] <= Len(c.scopes) /\ (Has(c, j) => c.own[j] \in 1..Len(c.scopes))
  BY <1>1, <1>2 DEF Arena, Has, NoScope
<1>4. i # NoItem => /\ i \in Ids /\ d.own[i] > Len(c.scopes) /\ ~Has(c, i) /\ Has(d, i) /\ d.own[i] # Root
                    /\ i \in 1..Len(p) /\ p[i].kind = "impl" /\ ItemOK(p, i)
                    /\ p[i].up # NoItem => Has(c, p[i].up) /\ p[i].up \in Ids /\ p[i].up # i
  <2> SUFFICES ASSUME i # NoItem
               PROVE  /\ i \in Ids /\ d.own[i] > Len(c.scopes) /\ ~Has(c, i) /\ Has(d, i) /\ d.own[i] # Root
                      /\ i \in 1..Len(p) /\ p[i].kind = "impl" /\ ItemOK(p, i)
                      /\ p[i].up # NoItem => Has(c, p[i].up) /\ p[i].up \in Ids /\ p[i].up # i
    OBVIOUS
  <2>1. /\ i \in 1..Len(p) /\ p[i].kind = "impl" /\ ~Has(c, i) /\ d.own[i] > Len(c.scopes)
        /\ p[i].up # NoItem => Has(c, p[i].up)
    BY <1>1 DEF KeepsOwns
  <2>2. i \in Ids /\ ItemOK(p, i) /\ (p[i].up # NoItem => p[i].up \in 1..Len(p))
    BY <2>1, ProgramIs
  <2>3. p[i].up # NoItem => p[i].up \in Ids
    BY <2>2, ProgramIs
  <2>4. p[i].up # NoItem => p[i].up # i
    BY <2>1
  <2>5. d.own[i] \in Nat
    BY <1>2, <2>2
  <2>6. Has(d, i) /\ d.own[i] # Root
    BY <1>2, <2>1, <2>5 DEF Has, NoScope, Root
  <2> QED BY <2>1, <2>2, <2>3, <2>4, <2>6
<1>5. \A j \in Ids : j # i => d.own[j] = c.own[j] /\ d.def[j] = c.def[j] /\ (Has(d, j) <=> Has(c, j))
  BY <1>1 DEF KeepsOwns, Has
<1>6. \A j \in Ids : Has(c, j) => j # i /\ Has(d, j) /\ d.own[j] = c.own[j] /\ d.def[j] = c.def[j]
  <2>1. \A j \in Ids : j # NoItem
    BY NamesAssumption DEF Ids, NoItem
  <2> QED BY <1>4, <1>5, <2>1
<1>7. OwnsApart(d)
  <2>1. ASSUME NEW j \in Ids, NEW l \in Ids, d.own[j] = d.own[l], Has(d, j) PROVE j = l
    <3>1. CASE j # i /\ l # i
      BY <1>1, <1>5, <2>1, <3>1 DEF OwnsApart
    <3>2. CASE j = i /\ l # i
      <4>1. i # NoItem
        BY <3>2, NamesAssumption DEF Ids, NoItem
      <4>2. d.own[l] <= Len(c.scopes) /\ d.own[i] > Len(c.scopes) /\ d.own[l] \in Nat
        BY <1>3, <1>4, <1>5, <3>2, <4>1
      <4> QED BY <1>2, <2>1, <3>2, <4>2
    <3>3. CASE l = i /\ j # i
      <4>1. i # NoItem
        BY <3>3, NamesAssumption DEF Ids, NoItem
      <4>2. d.own[j] <= Len(c.scopes) /\ d.own[i] > Len(c.scopes) /\ d.own[j] \in Nat
        BY <1>3, <1>4, <1>5, <3>3, <4>1
      <4> QED BY <1>2, <2>1, <3>3, <4>2
    <3> QED BY <3>1, <3>2, <3>3
  <2>2. ASSUME NEW j \in Ids PROVE d.own[j] # Root
    <3>1. j = i => i # NoItem
      BY NamesAssumption DEF Ids, NoItem
    <3> QED BY <1>1, <1>4, <1>5, <3>1 DEF OwnsApart
  <2> QED BY <2>1, <2>2 DEF OwnsApart
<1>8. OwnsOfItems(p, d)
  <2> SUFFICES ASSUME NEW j \in Ids, Has(d, j)
               PROVE  /\ j \in 1..Len(p) /\ p[j].kind # "use"
                      /\ p[j].up # NoItem => Has(d, p[j].up)
    BY DEF OwnsOfItems
  <2>1. CASE j = i
    <3>1. i # NoItem
      BY <2>1, NamesAssumption DEF Ids, NoItem
    <3> QED BY <1>4, <1>6, <2>1, <3>1
  <2>2. CASE j # i
    <3>1. j \in 1..Len(p) /\ p[j].kind # "use" /\ (p[j].up # NoItem => Has(c, p[j].up))
      BY <1>1, <1>5, <2>2 DEF OwnsOfItems
    <3>2. p[j].up # NoItem => p[j].up \in Ids
      BY <3>1, ProgramIs
    <3> QED BY <1>6, <3>1, <3>2
  <2> QED BY <2>1, <2>2
<1>9. \A j \in Ids : Has(d, j) /\ p[j].kind \in NamedKinds => Has(c, j) /\ j # i
  <2>1. \A j \in Ids : j # NoItem
    BY NamesAssumption DEF Ids, NoItem
  <2>2. i # NoItem => p[i].kind \notin NamedKinds
    BY <1>4 DEF NamedKinds
  <2> QED BY <1>5, <2>1, <2>2
<1>10. \A j \in Ids : Has(d, j) /\ p[j].kind \in NamedKinds => ItsOwn(p, d, j)
  <2> SUFFICES ASSUME NEW j \in Ids, Has(d, j), p[j].kind \in NamedKinds PROVE ItsOwn(p, d, j)
    OBVIOUS
  <2>1. Has(c, j) /\ ItsOwn(p, c, j) /\ d.own[j] = c.own[j] /\ d.def[j] = c.def[j]
    BY <1>6, <1>9 DEF Record
  <2>2. c.def[j] \in 1..Len(c.defs) /\ c.def[j] \in 1..Len(d.defs) /\ SameDef(d.defs[c.def[j]], c.defs[c.def[j]])
    BY <1>1, <1>2, <2>1 DEF ItsOwn, KeepsDefs
  <2> QED BY <2>1, <2>2 DEF ItsOwn, SameDef
<1>11. \A y \in 1..Len(d.defs) : Known(p, d, y)
  <2> SUFFICES ASSUME NEW y \in 1..Len(d.defs) PROVE Known(p, d, y)
    OBVIOUS
  <2>1. CASE y <= Len(c.defs)
    <3>1. y \in 1..Len(c.defs)
      BY <1>2, <2>1
    <3>2. SameDef(d.defs[y], c.defs[y]) /\ Known(p, c, y)
      BY <1>1, <3>1 DEF Record, KeepsDefs
    <3>3. c.defs[y].item \in 1..Len(p) => c.defs[y].item \in Ids
      BY ProgramIs
    <3> QED BY <1>6, <3>2, <3>3 DEF Known, SameDef
  <2>2. CASE y > Len(c.defs)
    <3>1. y \in (Len(c.defs) + 1)..Len(d.defs)
      BY <1>2, <2>2
    <3>2. Nobodys(d.defs[y])
      BY <1>1, <3>1 DEF KeepsDefs
    <3> QED BY <3>2 DEF Known, Nobodys
  <2> QED BY <1>2, <2>1, <2>2
<1>12. \A j : Said(d, j) <=> Said(c, j)
  BY <1>1 DEF SameReports, Said
<1>13. \A j : Said(d, j) => j \in Ids /\ Has(d, j)
  BY <1>6, <1>12 DEF Record
<1>14. \A j \in Ids : Has(d, j) => (Said(d, j) <=> RepeatsIn(p, j))
  <2> SUFFICES ASSUME NEW j \in Ids, Has(d, j) PROVE Said(c, j) <=> RepeatsIn(p, j)
    BY <1>12
  <2>1. CASE j # i
    BY <1>5, <2>1 DEF Record
  <2>2. CASE j = i
    <3>1. i # NoItem
      BY <2>2, NamesAssumption DEF Ids, NoItem
    <3>2. ~Said(c, j)
      BY <1>4, <2>2, <3>1 DEF Record
    <3>3. p[i].kind = "impl" /\ p[i].variants = <<>>
      BY <1>4, <3>1 DEF ItemOK
    <3>4. NamesOf(p[i]) = {} /\ DOMAIN p[i].variants = {}
      BY <3>3 DEF NamesOf
    <3>5. ~RepeatsIn(p, j)
      BY <2>2, <3>4 DEF RepeatsIn
    <3> QED BY <3>2, <3>5
  <2> QED BY <2>1, <2>2
<1>15. Clean(d) => Clean(c) /\ ~d.taken
  BY <1>1, <1>12 DEF Clean
<1>16. Clean(d) => \A j \in Ids : Has(d, j) /\ p[j].kind \in NamedKinds => EntriesOwn(p, d, j)
  <2> SUFFICES ASSUME Clean(d), NEW j \in Ids, Has(d, j), p[j].kind \in NamedKinds, NEW e \in NamesOf(p[j])
               PROVE  d.scopes[Around(d, p[j].up)].entries[e] = d.def[j]
    BY DEF EntriesOwn
  <2>1. Has(c, j) /\ d.def[j] = c.def[j] /\ EntriesOwn(p, c, j) /\ ItsOwn(p, c, j)
    BY <1>6, <1>9, <1>15 DEF Record
  <2>2. j \in 1..Len(p) /\ (p[j].up # NoItem => Has(c, p[j].up) /\ p[j].up \in Ids)
    <3>1. j \in 1..Len(p) /\ (p[j].up # NoItem => Has(c, p[j].up))
      BY <1>1, <2>1 DEF OwnsOfItems
    <3>2. p[j].up # NoItem => p[j].up \in Ids
      BY <3>1, ProgramIs
    <3> QED BY <3>1, <3>2
  <2>3. e \in Entries
    <3>1. NamedItem(p[j])
      BY <2>2, ProgramIs DEF ItemOK, NamedKinds
    <3> QED BY <3>1, NamedItemIs
  <2> DEFINE t == Around(c, p[j].up)
  <2>4. Around(d, p[j].up) = t
    BY <1>6, <2>2 DEF Around
  <2>5. t \in 1..Len(c.scopes)
    <3>1. CASE p[j].up = NoItem
      BY <1>2, <3>1 DEF Around, Root
    <3>2. CASE p[j].up # NoItem
      BY <1>3, <2>2, <3>2 DEF Around
    <3> QED BY <3>1, <3>2
  <2>6. c.scopes[t].entries[e] = c.def[j] /\ c.def[j] # NoDef
    BY <2>1 DEF EntriesOwn, ItsOwn, NoDef
  <2>7. d.scopes[t].entries[e] = c.scopes[t].entries[e]
    BY <1>1, <1>15, <2>3, <2>5, <2>6 DEF KeepsNames, Held
  <2> QED BY <2>1, <2>4, <2>6, <2>7
<1> QED BY <1>7, <1>8, <1>10, <1>11, <1>13, <1>14, <1>16 DEF Record

\* An impl that may be opened: nothing in it is resolved, what it is in is.
Closed(p, c, i) ==
  /\ i \in 1..Len(p) /\ p[i].kind = "impl" /\ ~Has(c, i) /\ (p[i].up # NoItem => Has(c, p[i].up))
  /\ \A j \in 1..Len(p) : Mine(p, i, j) => ~Has(c, j)

Entering(c, i, n) == [c EXCEPT !.own[i] = n, !.at[i] = n]

LEMMA EnteringIs ==
  ASSUME NEW c, Arena(c), NEW i \in Ids, NEW n \in 1..Len(c.scopes)
  PROVE  LET d == Entering(c, i, n)
         IN  /\ Arena(d) /\ d.scopes = c.scopes /\ d.defs = c.defs /\ d.diags = c.diags /\ d.def = c.def
             /\ d.impls = c.impls /\ d.fill = c.fill /\ d.taken = c.taken /\ d.globs = c.globs
             /\ d.panicked = c.panicked /\ d.own = [c.own EXCEPT ![i] = n] /\ d.at = [c.at EXCEPT ![i] = n]
<1> DEFINE d == Entering(c, i, n)
<1>1. /\ d.scopes = c.scopes /\ d.defs = c.defs /\ d.diags = c.diags /\ d.def = c.def
      /\ d.impls = c.impls /\ d.fill = c.fill /\ d.taken = c.taken /\ d.globs = c.globs
      /\ d.panicked = c.panicked /\ d.own = [c.own EXCEPT ![i] = n] /\ d.at = [c.at EXCEPT ![i] = n]
  BY DEF Entering, Arena, Contexts
<1>2. c \in Contexts /\ Len(c.scopes) \in Nat /\ Len(c.defs) \in Nat
  BY Sizes DEF Arena
<1>3. d \in Contexts
  <2>1. n \in Nat
    BY <1>2
  <2> QED BY <1>2, <2>1 DEF Entering, Contexts
<1>4. \A j \in Ids : d.own[j] <= Len(d.scopes) /\ d.at[j] <= Len(d.scopes) /\ d.def[j] <= Len(d.defs)
  <2>1. c.own \in [Ids -> Nat] /\ c.at \in [Ids -> Nat]
    BY <1>2 DEF Contexts
  <2> QED BY <1>1, <1>2, <2>1 DEF Arena
<1>5. Longer(c, d)
  BY <1>1, <1>2 DEF Longer
<1>6. \A s \in 1..Len(d.scopes) : ScopeOK(d, s)
  BY <1>1 DEF Arena, ScopeOK
<1>7. \A k \in (Len(c.defs) + 1)..Len(d.defs) : DefOK(d, d.defs[k])
  BY <1>1, <1>2
<1>8. Len(d.scopes) >= Len(c.scopes)
  BY <1>1, <1>2
<1> HIDE DEF d
<1>9. Arena(d)
  BY <1>1, <1>3, <1>4, <1>5, <1>6, <1>7, <1>8, ArenaGrows
<1> QED BY <1>1, <1>9 DEF d

\* The context in which the items of an impl are resolved.
ImplEntered(c, s, i, generics) ==
  Entering(DeclareGenericParams(NewScope(c, s), Inner(c), generics, i), i, Inner(c))

EnteredFor(p, c, d, i) ==
  /\ Books(p, d, i, 0) /\ Longer(c, d) /\ Fresh(c, d) /\ Leaves(c, d, Len(c.scopes))
  /\ d.impls = c.impls /\ d.fill = c.fill /\ d.taken = c.taken /\ d.globs = c.globs
  /\ (c.panicked => d.panicked)
  /\ d.own = [c.own EXCEPT ![i] = Inner(c)] /\ d.at = [c.at EXCEPT ![i] = Inner(c)]
  /\ d.def = c.def /\ Len(d.scopes) = Inner(c)

LEMMA ImplEnteredIs ==
  ASSUME NEW p, Program(p), NEW c, Record(p, c), NEW i, Closed(p, c, i), NEW s \in 1..Len(c.scopes)
  PROVE  EnteredFor(p, c, ImplEntered(c, s, i, p[i].generics), i)
<1> DEFINE n == Inner(c)
           f == p[i]
           c1 == NewScope(c, s)
           c2 == DeclareGenericParams(c1, n, f.generics, i)
           d == Entering(c2, i, n)
           W == GenericNames(n, f.generics, Len(f.generics))
<1>1. Arena(c) /\ i \in 1..Len(p) /\ f.kind = "impl" /\ ~Has(c, i)
  BY DEF Record, Closed
<1>2. ItemOK(p, i) /\ i \in Ids /\ i \in Nat /\ f.generics \in Seq(Generics) /\ f.up \in 0..(i - 1)
  BY <1>1, ProgramIs DEF Items
<1>3. /\ Arena(c1) /\ Opens(c, c1, s) /\ Len(c1.scopes) = n /\ n \in Nat /\ n # NoScope /\ n \in 1..n
      /\ c1.defs = c.defs /\ Len(c.defs) \in Nat
  BY <1>1, OpenedIs
<1>4. Adds(c1, c2, W, i, FALSE) /\ SameOwn(c1, c2) /\ Plain(c1, c2)
  BY <1>2, <1>3, DeclareGenericParamsIs
<1> HIDE DEF c1, c2
<1>5. Arena(c2) /\ Len(c2.scopes) = n /\ Len(c2.defs) \in Nat
  <2>1. Arena(c2) /\ Len(c2.scopes) = n
    BY <1>3, <1>4 DEF Adds, EntersOnly
  <2> QED BY <2>1, Sizes DEF Arena
<1>6. /\ Arena(d) /\ d.scopes = c2.scopes /\ d.defs = c2.defs /\ d.diags = c2.diags /\ d.def = c2.def
      /\ d.impls = c2.impls /\ d.fill = c2.fill /\ d.taken = c2.taken /\ d.globs = c2.globs
      /\ d.panicked = c2.panicked /\ d.own = [c2.own EXCEPT ![i] = n] /\ d.at = [c2.at EXCEPT ![i] = n]
  BY <1>2, <1>3, <1>5, EnteringIs
<1> HIDE DEF d
<1>7. /\ c2.own = c.own /\ c2.def = c.def /\ c2.at = c.at /\ c2.impls = c.impls /\ c2.fill = c.fill
      /\ c2.taken = c.taken /\ c2.globs = c.globs /\ (c.panicked => c2.panicked)
  BY <1>3, <1>4 DEF Opens, Adds, SameOwn, SameRest
<1>8. Len(c.scopes) \in Nat /\ n = Len(c.scopes) + 1 /\ c.own \in [Ids -> Nat] /\ c.at \in [Ids -> Nat]
  BY <1>1, Sizes DEF Arena, Contexts, Inner
<1>9. Longer(c, d)
  BY <1>3, <1>4, <1>6 DEF Adds, Longer
<1>10. Fresh(c, d)
  BY <1>3, <1>4, <1>6 DEF Adds, NewDefs, NewDef, Fresh
<1>11. Leaves(c, d, Len(c.scopes))
  <2> SUFFICES ASSUME NEW t \in 1..Len(c.scopes)
               PROVE  /\ d.scopes[t].parent = c.scopes[t].parent
                      /\ \A e \in Entries : d.scopes[t].entries[e] = c.scopes[t].entries[e]
    BY DEF Leaves
  <2>1. c1.scopes[t] = c.scopes[t] /\ t \in 1..Len(c1.scopes) /\ t # n
    BY <1>3, <1>8 DEF Opens
  <2>2. \A e \in Entries : <<t, e>> \notin W
    BY <2>1 DEF GenericNames
  <2> QED BY <1>4, <1>6, <2>1, <2>2, ZenonT(60) DEF Adds, EntersOnly
<1>12. SameReports(c, d)
  BY <1>3, <1>4, <1>6 DEF Opens, Adds, Reported, SameReports
<1>13. \A x \in (Len(c.defs) + 1)..Len(d.defs) : Nobodys(d.defs[x])
  BY <1>3, <1>4, <1>6 DEF Plain, Nobodys
<1>14. Keeps(p, c, d, i)
  <2>1. KeepsDefs(c, d)
    BY <1>9, <1>13 DEF Longer, KeepsDefs, SameDef
  <2>2. KeepsOwns(p, c, d, i)
    <3>1. d.own[i] = n /\ n > Len(c.scopes)
      BY <1>2, <1>6, <1>7, <1>8
    <3>2. \A j \in Ids : j # i => d.own[j] = c.own[j] /\ d.def[j] = c.def[j]
      BY <1>6, <1>7, <1>8
    <3> QED BY <3>1, <3>2 DEF KeepsOwns, Closed
  <2>3. KeepsNames(c, d)
    BY <1>11 DEF Leaves, KeepsNames
  <2> QED BY <1>6, <1>7, <1>12, <2>1, <2>2, <2>3 DEF Keeps
<1>15. Record(p, d)
  BY <1>6, <1>14, RecordKept
<1>16. \A j \in Ids : d.own[j] = IF j = i THEN n ELSE c.own[j]
  BY <1>6, <1>7, <1>8
<1>17. Contents(p, d, i, 0)
  <2> SUFFICES ASSUME NEW o \in 0..Len(p), Owner(p, i, 0, o), NEW e \in Entries
               PROVE  Held(d, Around(d, o), e) <=> Given(p, o, 0, e)
    BY DEF Contents
  <2>1. o = i /\ i # NoItem
    BY <1>1 DEF Owner, NoItem
  <2>2. Around(d, o) = n
    BY <1>2, <1>16, <2>1 DEF Around
  <2>3. Given(p, o, 0, e) <=> e \in InnerNames(f)
    BY <2>1 DEF Given
  <2>4. Len(f.variants) = 0
    BY <1>1, <1>2 DEF ItemOK
  <2>5. e \in InnerNames(f) <=> <<n, e>> \in W
    BY <1>1, <2>4 DEF InnerNames, GenericNames
  <2>6. ~Held(c1, n, e)
    <3>1. c1.scopes[n].entries = NoEntries
      BY <1>3, <1>8 DEF Opens
    <3> QED BY <3>1 DEF Held, NoEntries
  <2>7. Held(c2, n, e) <=> <<n, e>> \in W
    BY <1>3, <1>4, <2>6, HeldAfter
  <2> QED BY <1>6, <2>2, <2>3, <2>5, <2>7 DEF Held
<1>18. Resolving(p, d, i, 0)
  <2>1. ASSUME NEW j \in 1..Len(p), Mine(p, i, j) PROVE Has(d, j) <=> j <= 0
    <3>1. j # i /\ j \in Ids /\ ~(j <= 0)
      BY <1>1, <2>1, ProgramIs DEF Mine, NamedKinds
    <3>2. ~Has(c, j)
      BY <2>1 DEF Closed
    <3> QED BY <1>16, <3>1, <3>2 DEF Has
  <2>2. Has(d, i)
    BY <1>2, <1>3, <1>16 DEF Has
  <2> QED BY <1>1, <2>1, <2>2 DEF Resolving
<1>19. Books(p, d, i, 0)
  BY <1>15, <1>17, <1>18 DEF Books
<1>20. d = ImplEntered(c, s, i, p[i].generics)
  BY DEF d, c2, c1, ImplEntered
<1>21. Len(d.scopes) = Inner(c)
  BY <1>5, <1>6
<1>22. d.own = [c.own EXCEPT ![i] = Inner(c)] /\ d.at = [c.at EXCEPT ![i] = Inner(c)]
  BY <1>6, <1>7
<1> HIDE DEF n
<1>23. EnteredFor(p, c, d, i)
  BY <1>6, <1>7, <1>9, <1>10, <1>11, <1>19, <1>21, <1>22 DEF EnteredFor
<1> QED BY <1>20, <1>23

(* What opening an impl leaves: everything as it was but for its own scope     *)
(* and those of its items.                                                     *)
ImplOpened(c, d, i) ==
  /\ Longer(c, d) /\ Fresh(c, d) /\ Leaves(c, d, Len(c.scopes)) /\ Len(d.scopes) >= Inner(c)
  /\ d.impls = c.impls /\ d.fill = c.fill /\ d.taken = c.taken /\ d.globs = c.globs
  /\ (c.panicked => d.panicked)
  /\ d.at = [c.at EXCEPT ![i] = Inner(c)] /\ d.own[i] = Inner(c) /\ Held(d, d.own[i], <<SELF_TYPE, "types">>)
  /\ \A j \in Ids : /\ Has(c, j) => d.own[j] = c.own[j] /\ d.def[j] = c.def[j]
                    /\ Has(d, j) <=> (Has(c, j) \/ j = i \/ (j \in 1..Len(prog) /\ Mine(prog, i, j)))
                    /\ Has(d, j) /\ ~Has(c, j) => d.own[j] > Len(c.scopes)

LEMMA OpenImplIs ==
  ASSUME Program(prog), NEW c, Record(prog, c), NEW i, Closed(prog, c, i), NEW s \in 1..Len(c.scopes)
  PROVE  Record(prog, OpenImpl(c, s, i, prog[i])) /\ ImplOpened(c, OpenImpl(c, s, i, prog[i]), i)
<1> DEFINE n == Inner(c)
           f == prog[i]
           L == Len(prog)
           N == Len(c.scopes)
           c3 == ImplEntered(c, s, i, f.generics)
           c4 == ResolveWithin(c3, i)
           l == LowerPathTy(c4, n, f.path, i)
           self == [DefFor("alias", SELF_TYPE, i, n) EXCEPT !.of = l.ty]
           d == Declare(l.cx, n, SELF_TYPE, i, self)
           name == <<SELF_TYPE, "types">>
<1>1. Arena(c) /\ i \in 1..L /\ f.kind = "impl" /\ ~Has(c, i) /\ L \in Nat /\ i # NoItem /\ i \in Ids /\ ItemOK(prog, i)
  <2>1. Arena(c) /\ i \in 1..L /\ f.kind = "impl" /\ ~Has(c, i)
    BY DEF Record, Closed
  <2>2. L \in Nat /\ i \in Ids /\ ItemOK(prog, i)
    BY <2>1, ProgramIs
  <2> QED BY <2>1, <2>2 DEF NoItem
<1>2. N \in Nat /\ Len(c.defs) \in Nat /\ n = N + 1 /\ c.own \in [Ids -> Nat]
  BY <1>1, Sizes DEF Arena, Contexts, Inner
<1>3. /\ Books(prog, c3, i, 0) /\ Longer(c, c3) /\ Fresh(c, c3) /\ Leaves(c, c3, N)
      /\ c3.impls = c.impls /\ c3.fill = c.fill /\ c3.taken = c.taken /\ c3.globs = c.globs
      /\ (c.panicked => c3.panicked)
      /\ c3.own = [c.own EXCEPT ![i] = n] /\ c3.at = [c.at EXCEPT ![i] = n]
      /\ c3.def = c.def /\ Len(c3.scopes) = n
  <2>1. EnteredFor(prog, c, c3, i)
    BY ImplEnteredIs
  <2> QED BY <2>1 DEF EnteredFor
<1> HIDE DEF c3
<1>4. c3.own[i] = n /\ n > N /\ N <= Len(c3.scopes) /\ \A j \in Ids : j # i => c3.own[j] = c.own[j]
  BY <1>1, <1>2, <1>3
<1>5. Books(prog, c4, i, L) /\ Within(prog, c3, c4, i, N)
  BY <1>1, <1>2, <1>3, <1>4, ResolveWithinIs
<1> HIDE DEF c4
<1>6. Record(prog, c4) /\ Arena(c4) /\ Contents(prog, c4, i, L) /\ Resolving(prog, c4, i, L) /\ Arena(c3)
  BY <1>3, <1>5 DEF Books, Record
<1>7. Len(c4.scopes) \in Nat /\ Len(c4.defs) \in Nat /\ n \in 1..Len(c4.scopes) /\ Len(c3.defs) \in Nat
  <2>1. Len(c4.scopes) \in Nat /\ Len(c4.defs) \in Nat /\ Len(c3.defs) \in Nat
    BY <1>6, Sizes DEF Arena
  <2>2. Len(c4.scopes) >= n
    BY <1>3, <1>5 DEF Within
  <2> QED BY <1>2, <2>1, <2>2
<1>8. c4.own[i] = n
  BY <1>1, <1>2, <1>4, <1>5 DEF Within, Gains, Has, NoScope
<1>9. f.path \in Seq(Words) /\ f.path # <<>>
  <2>1. f \in Items
    BY <1>1, ProgramIs
  <2> QED BY <1>1, <2>1 DEF ItemOK, Items, Paths, Words
<1>10. /\ Arena(l.cx) /\ Untouched(c4, l.cx) /\ SameReports(c4, l.cx) /\ TyOK(c4, l.ty) /\ (c4.panicked => l.cx.panicked)
  <2>1. n \in 0..Len(c4.scopes) /\ i \in Nat
    BY <1>1, <1>7
  <2> HIDE DEF n
  <2> QED BY <1>6, <1>9, <2>1, LowerPathTyIs
<1> HIDE DEF l
<1>11. l.cx.scopes = c4.scopes /\ l.cx.defs = c4.defs /\ n \in 1..Len(l.cx.scopes) /\ n # NoScope
  BY <1>7, <1>10 DEF Untouched, NoScope
<1>12. /\ self \in DefRecords /\ self.kind = "alias" /\ self.symbol = SELF_TYPE /\ self.scope = n /\ self.of = l.ty
       /\ NewDef(self, i)
  <2>1. Declarable(l.cx, DefFor("alias", SELF_TYPE, i, n)) /\ NewDef(DefFor("alias", SELF_TYPE, i, n), i)
    <3>1. SELF_TYPE \in Words /\ "alias" \in DefKinds /\ n \in Nat /\ n <= Len(l.cx.scopes) /\ i \in Nat
      BY <1>1, <1>2, <1>7, <1>11 DEF Words, DefKinds
    <3> HIDE DEF n
    <3>2. MayDefine(l.cx, "alias", SELF_TYPE, i, n)
      BY <1>7, <1>11, <3>1 DEF MayDefine
    <3> QED BY <3>2, DefForIs
  <2>2. DefFor("alias", SELF_TYPE, i, n) \in DefRecords
    BY <2>1 DEF Declarable
  <2>3. l.ty \in TyRecords
    BY <1>10 DEF TyOK
  <2>4. self \in DefRecords
    BY <2>2, <2>3 DEF DefRecords
  <2>5. self.kind = "alias" /\ self.symbol = SELF_TYPE /\ self.scope = n /\ self.of = l.ty /\ NewDef(self, i)
    BY <2>1 DEF DefFor, NewDef
  <2> QED BY <2>4, <2>5
<1> HIDE DEF self
<1>13. Declarable(l.cx, self)
  <2>1. l.ty.def <= Len(c4.defs) /\ (l.ty.tag # "err" => l.ty.def # NoDef) /\ l.ty.def \in Nat
    BY <1>10 DEF TyOK, TyRecords
  <2>2. self.scope <= Len(l.cx.scopes) /\ self.scope # NoScope /\ self.of.def <= Len(l.cx.defs) + 1
    BY <1>7, <1>11, <1>12, <2>1
  <2> HIDE DEF n
  <2> QED BY <1>12, <2>1, <2>2 DEF Declarable, SelfRight
<1>14. NameOf(SELF_TYPE, self) = name /\ name \in Entries
  BY <1>12 DEF NameOf, Namespace, Entries, Spaces
<1>15. Fits(self, n, name)
  BY <1>12 DEF Fits
<1>16. /\ Adds(l.cx, d, {<<n, name>>}, i, Held(l.cx, n, name)) /\ SameOwn(l.cx, d)
       /\ EnteredAs(l.cx, d, n, SELF_TYPE, self)
  <2>1. SELF_TYPE \in Words /\ i \in Nat
    BY <1>1 DEF Words
  <2> HIDE DEF name, n
  <2> QED BY <1>10, <1>11, <1>12, <1>13, <1>14, <1>15, <2>1, DeclareIs
<1>17. ~Held(l.cx, n, name)
  <2>1. Held(c4, Around(c4, i), name) <=> Given(prog, i, L, name)
    <3>1. i \in 0..L /\ Owner(prog, i, L, i)
      BY <1>1 DEF Owner
    <3> QED BY <1>6, <1>14, <3>1 DEF Contents
  <2>2. Around(c4, i) = n
    BY <1>1, <1>8 DEF Around
  <2>3. SELF_TYPE \notin Symbols
    BY NamesAssumption
  <2>4. name \notin InnerNames(f)
    <3>1. Len(f.variants) = 0 /\ f.kind # "trait"
      BY <1>1 DEF ItemOK
    <3>2. \A j \in 1..Len(f.generics) : f.generics[j].name \in Symbols
      <4>1. f.generics \in Seq(Generics)
        BY <1>1 DEF ItemOK, Items
      <4>2. \A j \in 1..Len(f.generics) : f.generics[j] \in Generics
        BY <4>1
      <4> QED BY <4>2 DEF Generics
    <3> QED BY <2>3, <3>1, <3>2 DEF InnerNames
  <2>5. \A j \in 1..L : name \notin NamesOf(prog[j])
    <3> SUFFICES ASSUME NEW j \in 1..L, name \in NamesOf(prog[j]) PROVE FALSE
      OBVIOUS
    <3>1. prog[j].kind \notin {"impl", "use"} /\ name[1] = prog[j].name
      BY DEF NamesOf
    <3>2. NamedItem(prog[j])
      BY <3>1, ProgramIs DEF ItemOK
    <3>3. prog[j].name \in Symbols
      BY <3>2, NamedItemIs
    <3> QED BY <2>3, <3>1, <3>3
  <2>6. ~Given(prog, i, L, name)
    BY <2>4, <2>5 DEF Given
  <2> QED BY <1>11, <2>1, <2>2, <2>6 DEF Held
<1> HIDE DEF d, name
<1>18. /\ Arena(d) /\ Longer(l.cx, d) /\ NewDefs(l.cx, d, i) /\ EntersOnly(l.cx, d, {<<n, name>>}) /\ SameRest(l.cx, d)
       /\ d.own = c4.own /\ d.def = c4.def /\ Len(d.defs) = Len(c4.defs) + 1 /\ d.defs[Len(c4.defs) + 1] = self
       /\ Len(d.scopes) = Len(c4.scopes)
  BY <1>10, <1>11, <1>16 DEF Adds, SameOwn, EnteredAs, Untouched, EntersOnly
<1>19. SameReports(c4, d)
  BY <1>10, <1>16, <1>17 DEF Adds, Reported, SameReports
<1>20. Longer(c4, d) /\ \A x \in (Len(c4.defs) + 1)..Len(d.defs) : x = Len(c4.defs) + 1 /\ d.defs[x] = self
  BY <1>7, <1>11, <1>18 DEF Longer
<1>21. /\ d.impls = c4.impls /\ d.at = c4.at /\ d.fill = c4.fill /\ d.taken = c4.taken /\ d.globs = c4.globs
       /\ (c4.panicked => d.panicked)
  BY <1>10, <1>18 DEF SameRest, Untouched
<1>22. Keeps(prog, c4, d, NoItem)
  <2>1. KeepsDefs(c4, d)
    BY <1>12, <1>20 DEF Longer, KeepsDefs, SameDef, Nobodys
  <2>2. KeepsOwns(prog, c4, d, NoItem)
    BY <1>18 DEF KeepsOwns
  <2>3. KeepsNames(c4, d)
    <3> SUFFICES ASSUME NEW t \in 1..Len(c4.scopes), NEW e \in Entries, Held(c4, t, e)
                 PROVE  d.scopes[t].entries[e] = c4.scopes[t].entries[e]
      BY DEF KeepsNames
    <3>1. <<t, e>> \notin {<<n, name>>}
      BY <1>11, <1>17 DEF Held
    <3> QED BY <1>11, <1>18, <3>1 DEF EntersOnly
  <2> QED BY <1>19, <1>21, <2>1, <2>2, <2>3 DEF Keeps
<1>23. Record(prog, d)
  BY <1>6, <1>18, <1>22, RecordKept
<1>24. Longer(c, d)
  <2>1. Longer(c3, c4)
    BY <1>5 DEF Within
  <2> QED BY <1>2, <1>3, <1>7, <1>20, <2>1 DEF Longer
<1>25. Fresh(c, d)
  <2> SUFFICES ASSUME NEW x \in (Len(c.defs) + 1)..Len(d.defs)
               PROVE  d.defs[x].collected = NoItem /\ d.defs[x].checked = NoItem
    BY DEF Fresh
  <2>1. CASE x <= Len(c3.defs)
    <3>1. x \in (Len(c.defs) + 1)..Len(c3.defs) /\ x \in 1..Len(c3.defs) /\ x \in 1..Len(c4.defs)
      BY <1>2, <1>5, <1>7, <2>1 DEF Within, Longer
    <3>2. d.defs[x] = c4.defs[x] /\ c4.defs[x] = c3.defs[x]
      BY <1>5, <1>20, <3>1 DEF Within, Longer
    <3> QED BY <1>3, <3>1, <3>2 DEF Fresh
  <2>2. CASE x > Len(c3.defs) /\ x <= Len(c4.defs)
    <3>1. x \in (Len(c3.defs) + 1)..Len(c4.defs) /\ x \in 1..Len(c4.defs)
      BY <1>2, <1>7, <2>2
    <3> QED BY <1>5, <1>20, <3>1 DEF Within, Fresh, Longer
  <2>3. CASE x > Len(c4.defs)
    <3>1. x \in (Len(c4.defs) + 1)..Len(d.defs)
      BY <1>7, <1>18, <2>3
    <3> QED BY <1>12, <1>20, <3>1 DEF NewDef
  <2> QED BY <1>2, <1>7, <1>18, <2>1, <2>2, <2>3
<1>26. Leaves(c, d, N)
  <2> SUFFICES ASSUME NEW t \in 1..N
               PROVE  /\ d.scopes[t].parent = c.scopes[t].parent
                      /\ \A e \in Entries : d.scopes[t].entries[e] = c.scopes[t].entries[e]
    BY DEF Leaves
  <2>1. t \in 1..Len(c4.scopes) /\ t # n
    BY <1>2, <1>7
  <2>2. \A e \in Entries : <<t, e>> \notin {<<n, name>>}
    BY <2>1
  <2>3. d.scopes[t].parent = c4.scopes[t].parent /\ \A e \in Entries : d.scopes[t].entries[e] = c4.scopes[t].entries[e]
    BY <1>11, <1>18, <2>1, <2>2 DEF EntersOnly
  <2>4. c4.scopes[t].parent = c3.scopes[t].parent /\ \A e \in Entries : c4.scopes[t].entries[e] = c3.scopes[t].entries[e]
    BY <1>5 DEF Within, Leaves
  <2>5. c3.scopes[t].parent = c.scopes[t].parent /\ \A e \in Entries : c3.scopes[t].entries[e] = c.scopes[t].entries[e]
    BY <1>3 DEF Leaves
  <2> QED BY <2>3, <2>4, <2>5
<1>27. /\ d.impls = c.impls /\ d.fill = c.fill /\ d.taken = c.taken /\ d.globs = c.globs
       /\ (c.panicked => d.panicked) /\ d.at = [c.at EXCEPT ![i] = n] /\ d.own[i] = n
  BY <1>3, <1>5, <1>8, <1>18, <1>21 DEF Within, SameRest
<1>28. ASSUME NEW j \in Ids
       PROVE  /\ Has(c, j) => d.own[j] = c.own[j] /\ d.def[j] = c.def[j]
              /\ Has(d, j) <=> (Has(c, j) \/ j = i \/ (j \in 1..Len(prog) /\ Mine(prog, i, j)))
              /\ Has(d, j) /\ ~Has(c, j) => d.own[j] > N
  <2>1. CASE j = i
    BY <1>1, <1>2, <1>27, <2>1 DEF Has, NoScope
  <2>2. CASE j # i
    <3>1. c3.own[j] = c.own[j] /\ c3.def[j] = c.def[j] /\ (Has(c3, j) <=> Has(c, j))
      BY <1>3, <1>4, <2>2 DEF Has
    <3>2. d.own[j] = c4.own[j] /\ d.def[j] = c4.def[j] /\ (Has(d, j) <=> Has(c4, j))
      BY <1>18 DEF Has
    <3>3. /\ Has(c3, j) => c4.own[j] = c3.own[j] /\ c4.def[j] = c3.def[j]
          /\ Has(c4, j) /\ ~Has(c3, j) => j \in 1..L /\ Mine(prog, i, j) /\ c4.own[j] > N
      BY <1>5 DEF Within, Gains
    <3>4. Has(c3, j) => Has(c4, j)
      BY <3>3 DEF Has
    <3>5. j \in 1..L /\ Mine(prog, i, j) => Has(c4, j)
      <4>1. j \in 1..L => j <= L
        BY <1>1
      <4> QED BY <1>6, <4>1 DEF Resolving
    <3> QED BY <2>2, <3>1, <3>2, <3>3, <3>4, <3>5
  <2> QED BY <2>1, <2>2
<1>29. Len(d.scopes) >= n
  BY <1>7, <1>18
<1>30. d = OpenImpl(c, s, i, prog[i])
  BY DEF d, l, c4, c3, self, ImplEntered, Entering, OpenImpl, DeclareSelf
<1>31. Held(d, d.own[i], <<SELF_TYPE, "types">>)
  <2>1. d.scopes[n].entries[name] \in (Len(c4.defs) + 1)..Len(d.defs)
    <3>1. n \in 1..Len(l.cx.scopes) /\ <<n, name>> \in {<<n, name>>}
      BY <1>11
    <3> HIDE DEF n
    <3> QED BY <1>11, <1>14, <1>18, <3>1 DEF EntersOnly
  <2> HIDE DEF n
  <2>2. d.scopes[n].entries[name] # NoDef
    BY <1>7, <2>1 DEF NoDef
  <2> QED BY <1>27, <2>2 DEF Held, name, n
<1> HIDE DEF n
<1>32. ImplOpened(c, d, i)
  BY <1>24, <1>25, <1>26, <1>27, <1>28, <1>29, <1>31 DEF ImplOpened, n
<1> QED BY <1>23, <1>30, <1>32

(***************************************************************************)
(* Steps that touch up definitions and leave the scopes alone.             *)
(***************************************************************************)
SameMarks(c, d) ==
  /\ \A x \in 1..Len(c.defs) : d.defs[x].collected = c.defs[x].collected /\ d.defs[x].checked = c.defs[x].checked
  /\ Fresh(c, d)

\* The parts of the arena that are not the same in two contexts are right.
Touched(c, d) ==
  /\ d \in Contexts /\ d.scopes = c.scopes /\ SameOwn(c, d) /\ Len(d.defs) = Len(c.defs)
  /\ \A x \in 1..Len(c.defs) : SameDef(d.defs[x], c.defs[x]) /\ TyOK(c, d.defs[x].of)
  /\ \A k \in 1..Len(d.impls) : ImplOK(c, d.impls[k])
  /\ \A i \in Ids : d.at[i] <= Len(c.scopes)

LEMMA TouchedIs ==
  ASSUME NEW c, Arena(c), NEW d, Touched(c, d)
  PROVE  Arena(d) /\ KeepsDefs(c, d) /\ KeepsNames(c, d)
<1>1. /\ d \in Contexts /\ d.scopes = c.scopes /\ SameOwn(c, d) /\ Len(d.defs) = Len(c.defs)
      /\ \A x \in 1..Len(c.defs) : SameDef(d.defs[x], c.defs[x]) /\ TyOK(c, d.defs[x].of)
      /\ Len(c.defs) \in Nat /\ c \in Contexts
  BY Sizes DEF Touched, Arena
<1>2. ASSUME NEW s \in 1..Len(d.scopes) PROVE ScopeOK(d, s)
  <2>1. ScopeOK(c, s) /\ c.scopes[s] \in ScopeRecords
    BY <1>1, Sizes DEF Arena
  <2>2. ASSUME NEW e \in Entries, c.scopes[s].entries[e] # NoDef
        PROVE  Fits(d.defs[c.scopes[s].entries[e]], s, e)
    <3>1. c.scopes[s].entries[e] \in Nat /\ c.scopes[s].entries[e] <= Len(c.defs)
      BY <2>1 DEF ScopeOK, ScopeRecords
    <3>2. c.scopes[s].entries[e] \in 1..Len(c.defs)
      BY <1>1, <2>2, <3>1 DEF NoDef
    <3>3. SameDef(d.defs[c.scopes[s].entries[e]], c.defs[c.scopes[s].entries[e]])
      BY <1>1, <3>2
    <3>4. Fits(c.defs[c.scopes[s].entries[e]], s, e)
      BY <2>1, <2>2 DEF ScopeOK
    <3> QED BY <3>3, <3>4, Zenon DEF Fits, SameDef
  <2> QED BY <1>1, <2>1, <2>2 DEF ScopeOK
<1>3. ASSUME NEW x \in 1..Len(d.defs) PROVE DefOK(d, d.defs[x])
  <2>1. d.defs[x] \in DefRecords
    BY <1>1, Sizes
  <2>2. SameDef(d.defs[x], c.defs[x]) /\ TyOK(c, d.defs[x].of) /\ DefOK(c, c.defs[x])
    BY <1>1 DEF Arena
  <2>3. TyOK(d, d.defs[x].of)
    BY <1>1, <2>2 DEF TyOK
  <2> QED BY <1>1, <2>1, <2>2, <2>3 DEF DefOK, SameDef, SelfRight
<1>4. ASSUME NEW k \in 1..Len(d.impls) PROVE ImplOK(d, d.impls[k])
  <2>1. ImplOK(c, d.impls[k])
    BY DEF Touched
  <2>2. d.impls[k].trait \in Nat
    <3>1. d.impls \in Seq(ImplRecords)
      BY <1>1 DEF Contexts
    <3>2. d.impls[k] \in ImplRecords
      BY <3>1
    <3> QED BY <3>2 DEF ImplRecords
  <2>3. d.impls[k].trait # NoDef => d.impls[k].trait \in 1..Len(c.defs)
    BY <1>1, <2>1, <2>2 DEF ImplOK, NoDef
  <2> QED BY <1>1, <2>1, <2>3 DEF ImplOK, SameDef
<1>5. \A i \in Ids : d.own[i] <= Len(d.scopes) /\ d.at[i] <= Len(d.scopes) /\ d.def[i] <= Len(d.defs)
  BY <1>1 DEF Touched, Arena, SameOwn
<1>6. Len(d.scopes) >= 1
  BY <1>1 DEF Arena
<1>7. Arena(d)
  BY <1>1, <1>2, <1>3, <1>4, <1>5, <1>6 DEF Arena
<1>8. KeepsDefs(c, d) /\ KeepsNames(c, d)
  BY <1>1 DEF KeepsDefs, KeepsNames
<1> QED BY <1>7, <1>8

Retouch(c, d) ==
  /\ Arena(d) /\ d.scopes = c.scopes /\ SameOwn(c, d) /\ Len(d.defs) = Len(c.defs)
  /\ \A x \in 1..Len(c.defs) : SameDef(d.defs[x], c.defs[x])
  /\ SameMarks(c, d) /\ SameReports(c, d) /\ d.impls = c.impls /\ d.taken = c.taken /\ d.globs = c.globs
  /\ (c.panicked => d.panicked)
SameWalk(c, d) == d.at = c.at /\ d.fill = c.fill

LEMMA RetouchMore ==
  ASSUME NEW c, NEW d, NEW e, Arena(c), Retouch(c, d), Retouch(d, e)
  PROVE  Retouch(c, e)
<1>1. Len(c.defs) \in Nat /\ Len(d.defs) = Len(c.defs) /\ Len(e.defs) = Len(c.defs) /\ Arena(e)
  BY Sizes DEF Arena, Retouch
<1>2. \A x \in 1..Len(c.defs) : SameDef(e.defs[x], c.defs[x])
  BY <1>1 DEF Retouch, SameDef
<1>3. SameMarks(c, e)
  BY <1>1 DEF Retouch, SameMarks, Fresh
<1> QED BY <1>1, <1>2, <1>3 DEF Retouch, SameOwn, SameReports

LEMMA RetouchKeeps ==
  ASSUME NEW p, NEW c, Arena(c), NEW d, Retouch(c, d)
  PROVE  Keeps(p, c, d, NoItem)
<1>1. Len(c.defs) \in Nat
  BY Sizes DEF Arena
<1>2. KeepsDefs(c, d)
  BY <1>1 DEF Retouch, KeepsDefs
<1> QED BY <1>2 DEF Retouch, Keeps, KeepsOwns, KeepsNames, SameOwn

LEMMA UntouchedIs ==
  ASSUME NEW c, Arena(c), NEW d, Arena(d), Untouched(c, d), SameReports(c, d), c.panicked => d.panicked
  PROVE  Retouch(c, d) /\ SameWalk(c, d)
<1>1. Len(c.defs) \in Nat
  BY Sizes DEF Arena
<1>2. SameMarks(c, d)
  BY <1>1 DEF SameMarks, Fresh, Untouched
<1> QED BY <1>2 DEF Untouched, Retouch, SameWalk, SameOwn, SameDef

(* One definition set, in what only its lowering knows.                        *)
LEMMA SetDefIs ==
  ASSUME NEW c, Arena(c), NEW x \in 1..Len(c.defs), NEW def \in DefRecords, SameDef(def, c.defs[x]), TyOK(c, def.of),
         def.collected = c.defs[x].collected, def.checked = c.defs[x].checked
  PROVE  Retouch(c, [c EXCEPT !.defs[x] = def]) /\ SameWalk(c, [c EXCEPT !.defs[x] = def])
<1> DEFINE d == [c EXCEPT !.defs[x] = def]
<1>1. c \in Contexts /\ Len(c.defs) \in Nat /\ DOMAIN c.defs = 1..Len(c.defs) /\ c.defs \in Seq(DefRecords)
  BY Sizes DEF Arena, Contexts
<1>2. /\ d.defs = [c.defs EXCEPT ![x] = def] /\ d.scopes = c.scopes /\ d.own = c.own /\ d.def = c.def /\ d.impls = c.impls
      /\ d.at = c.at /\ d.fill = c.fill /\ d.taken = c.taken /\ d.globs = c.globs /\ d.panicked = c.panicked
      /\ d.diags = c.diags
  BY <1>1 DEF Contexts
<1>3. d \in Contexts
  <2>1. [c.defs EXCEPT ![x] = def] \in Seq(DefRecords)
    BY <1>1
  <2> QED BY <1>1, <2>1 DEF Contexts
<1> HIDE DEF d
<1>4. Len(d.defs) = Len(c.defs) /\ \A y \in 1..Len(c.defs) : d.defs[y] = IF y = x THEN def ELSE c.defs[y]
  <2>1. DOMAIN d.defs = 1..Len(c.defs) /\ d.defs \in Seq(DefRecords)
    BY <1>1, <1>2, <1>3 DEF Contexts
  <2>2. Len(d.defs) = Len(c.defs)
    BY <1>1, <2>1
  <2> QED BY <1>1, <1>2, <2>2
<1>5. ASSUME NEW y \in 1..Len(c.defs) PROVE SameDef(d.defs[y], c.defs[y]) /\ TyOK(c, d.defs[y].of)
  <2>1. TyOK(c, c.defs[y].of) /\ SameDef(c.defs[y], c.defs[y])
    BY TyOfDef DEF SameDef
  <2> QED BY <1>4, <2>1
<1>6. Touched(c, d)
  BY <1>2, <1>3, <1>4, <1>5 DEF Touched, SameOwn, Arena
<1>7. Arena(d)
  BY <1>6, TouchedIs
<1>8. SameMarks(c, d)
  BY <1>1, <1>4 DEF SameMarks, Fresh
<1>9. Retouch(c, d) /\ SameWalk(c, d)
  BY <1>2, <1>4, <1>5, <1>7, <1>8 DEF Retouch, SameWalk, SameOwn, SameReports
<1> QED BY <1>9 DEF d

LEMMA FillIs ==
  ASSUME NEW c, Arena(c), NEW i \in Ids, NEW x \in 1..Len(c.defs)
  PROVE  /\ Retouch(c, Fill(c, i, x)) /\ Fill(c, i, x).fill = [c.fill EXCEPT ![i] = x]
         /\ Fill(c, i, x).at = [c.at EXCEPT ![i] = c.defs[x].scope] /\ Fill(c, i, x).defs = c.defs
<1> DEFINE d == Fill(c, i, x)
<1>1. /\ c \in Contexts /\ Len(c.defs) \in Nat /\ Len(c.scopes) \in Nat /\ c.at \in [Ids -> Nat] /\ c.fill \in [Ids -> Nat]
      /\ x \in Nat
  BY Sizes, SMTT(30) DEF Arena, Contexts
<1>2. /\ d.defs = c.defs /\ d.scopes = c.scopes /\ d.own = c.own /\ d.def = c.def /\ d.impls = c.impls
      /\ d.taken = c.taken /\ d.globs = c.globs /\ d.panicked = c.panicked /\ d.diags = c.diags
      /\ d.fill = [c.fill EXCEPT ![i] = x] /\ d.at = [c.at EXCEPT ![i] = c.defs[x].scope]
  BY <1>1 DEF Fill, Contexts
<1>3. c.defs[x].scope \in Nat /\ c.defs[x].scope <= Len(c.scopes)
  BY TyOfDef DEF DefOK, DefRecords
<1>4. d \in Contexts
  BY <1>1, <1>3 DEF Fill, Contexts
<1> HIDE DEF d
<1>5. \A j \in Ids : d.at[j] <= Len(c.scopes)
  BY <1>1, <1>2, <1>3 DEF Arena
<1>6. \A y \in 1..Len(c.defs) : SameDef(d.defs[y], c.defs[y]) /\ TyOK(c, d.defs[y].of)
  BY <1>2, TyOfDef DEF SameDef
<1>7. Touched(c, d)
  BY <1>2, <1>4, <1>5, <1>6 DEF Touched, SameOwn, Arena
<1>8. Arena(d)
  BY <1>7, TouchedIs
<1>9. SameMarks(c, d)
  BY <1>1, <1>2 DEF SameMarks, Fresh
<1>10. Retouch(c, d)
  BY <1>2, <1>6, <1>8, <1>9 DEF Retouch, SameOwn, SameReports
<1> QED BY <1>2, <1>10 DEF d

LEMMA FoundAsIs ==
  ASSUME NEW c, Arena(c), NEW s \in 0..Len(c.scopes), NEW kind \in DefKinds, NEW name \in Words
  PROVE  LET x == FoundAs(c, s, kind, name)
         IN  /\ x \in 0..Len(c.defs)
             /\ x # NoDef => /\ s \in 1..Len(c.scopes) /\ c.defs[x].kind = kind
                             /\ x = c.scopes[s].entries[<<name, Namespace(kind)>>]
<1> DEFINE ns == Namespace(kind)
           x == FoundAs(c, s, kind, name)
<1>1. ns \in Spaces /\ Len(c.defs) \in Nat /\ Len(c.scopes) \in Nat
  BY Sizes DEF Arena, Namespace, Spaces
<1>2. CASE s = NoScope
  <2>1. x = NoDef
    BY <1>2 DEF FoundAs
  <2> HIDE DEF x
  <2> QED BY <1>1, <2>1 DEF NoDef, x
<1>3. CASE s # NoScope
  <2>1. s \in 1..Len(c.scopes)
    BY <1>1, <1>3 DEF NoScope
  <2> HIDE DEF ns
  <2>2. Lookup(c, s, name, ns) = c.scopes[s].entries[<<name, ns>>] /\ Lookup(c, s, name, ns) \in 0..Len(c.defs)
    BY <1>1, <2>1, LookupIs
  <2>3. x = IF Lookup(c, s, name, ns) # NoDef /\ c.defs[Lookup(c, s, name, ns)].kind = kind
            THEN Lookup(c, s, name, ns) ELSE NoDef
    BY <1>3 DEF FoundAs, KindOf, ns
  <2> HIDE DEF x
  <2>4. x \in 0..Len(c.defs)
    BY <1>1, <2>2, <2>3, SMTT(30) DEF NoDef
  <2>5. x # NoDef => c.defs[x].kind = kind /\ x = c.scopes[s].entries[<<name, ns>>]
    BY <2>2, <2>3, Zenon
  <2> QED BY <2>1, <2>4, <2>5 DEF x, ns
<1> QED BY <1>2, <1>3

LEMMA SetOfIs ==
  ASSUME NEW c, Arena(c), NEW y \in 1..Len(c.defs), NEW ty, TyOK(c, ty)
  PROVE  Retouch(c, [c EXCEPT !.defs[y].of = ty]) /\ SameWalk(c, [c EXCEPT !.defs[y].of = ty])
<1> DEFINE def == [c.defs[y] EXCEPT !.of = ty]
<1>1. c.defs[y] \in DefRecords /\ ty \in TyRecords
  BY TyOfDef DEF TyOK
<1>2. def \in DefRecords
  BY <1>1 DEF DefRecords
<1>3. SameDef(def, c.defs[y]) /\ def.of = ty /\ def.collected = c.defs[y].collected /\ def.checked = c.defs[y].checked
  BY <1>1 DEF SameDef, DefRecords
<1>4. [c EXCEPT !.defs[y].of = ty] = [c EXCEPT !.defs[y] = def]
  OBVIOUS
<1> HIDE DEF def
<1>5. Retouch(c, [c EXCEPT !.defs[y] = def]) /\ SameWalk(c, [c EXCEPT !.defs[y] = def])
  BY <1>2, <1>3, SetDefIs
<1> QED BY <1>4, <1>5

LEMMA BindAliasIs ==
  ASSUME NEW c, Arena(c), NEW x \in 1..Len(c.defs), NEW ty, TyOK(c, ty)
  PROVE  Retouch(c, BindAlias(c, x, ty)) /\ SameWalk(c, BindAlias(c, x, ty))
<1> DEFINE a == ResolveTy(c, TheVar(x))
           b == ResolveTy(c, ty)
<1>1. TyOK(c, TheVar(x))
  BY Sizes DEF Arena, TyOK, TheVar, TyRecords, NoDef
<1>2. TyOK(c, a) /\ TyOK(c, b)
  BY <1>1, ResolveTyIs
<1>3. Retouch(c, c) /\ SameWalk(c, c)
  BY UntouchedIs DEF Untouched, SameReports
<1>4. \/ BindAlias(c, x, ty) = c
      \/ a.tag = "var" /\ BindAlias(c, x, ty) = [c EXCEPT !.defs[a.def].of = b]
      \/ b.tag = "var" /\ BindAlias(c, x, ty) = [c EXCEPT !.defs[b.def].of = a]
  BY DEF BindAlias
<1> HIDE DEF a, b
<1>5. ASSUME NEW t, TyOK(c, t), t.tag = "var" PROVE t.def \in 1..Len(c.defs)
  BY <1>5, Sizes DEF Arena, TyOK, TyRecords, NoDef
<1>6. CASE BindAlias(c, x, ty) = c
  BY <1>3, <1>6
<1>7. CASE a.tag = "var" /\ BindAlias(c, x, ty) = [c EXCEPT !.defs[a.def].of = b]
  <2>1. a.def \in 1..Len(c.defs)
    BY <1>2, <1>5, <1>7
  <2>2. Retouch(c, [c EXCEPT !.defs[a.def].of = b]) /\ SameWalk(c, [c EXCEPT !.defs[a.def].of = b])
    BY <1>2, <2>1, SetOfIs
  <2> QED BY <1>7, <2>2
<1>8. CASE b.tag = "var" /\ BindAlias(c, x, ty) = [c EXCEPT !.defs[b.def].of = a]
  <2>1. b.def \in 1..Len(c.defs)
    BY <1>2, <1>5, <1>8
  <2>2. Retouch(c, [c EXCEPT !.defs[b.def].of = a]) /\ SameWalk(c, [c EXCEPT !.defs[b.def].of = a])
    BY <1>2, <2>1, SetOfIs
  <2> QED BY <1>8, <2>2
<1> QED BY <1>4, <1>6, <1>7, <1>8

LEMMA SelfFlagIs ==
  ASSUME NEW c, Arena(c), NEW x \in 1..Len(c.defs), NEW b \in BOOLEAN
  PROVE  Retouch(c, [c EXCEPT !.defs[x].self = b]) /\ SameWalk(c, [c EXCEPT !.defs[x].self = b])
<1> DEFINE def == [c.defs[x] EXCEPT !.self = b]
<1>1. c.defs[x] \in DefRecords /\ TyOK(c, c.defs[x].of)
  BY TyOfDef
<1>2. def \in DefRecords
  BY <1>1 DEF DefRecords
<1>3. /\ SameDef(def, c.defs[x]) /\ def.of = c.defs[x].of /\ def.collected = c.defs[x].collected
      /\ def.checked = c.defs[x].checked
  BY <1>1 DEF SameDef, DefRecords
<1>4. [c EXCEPT !.defs[x].self = b] = [c EXCEPT !.defs[x] = def]
  OBVIOUS
<1> HIDE DEF def
<1>5. Retouch(c, [c EXCEPT !.defs[x] = def]) /\ SameWalk(c, [c EXCEPT !.defs[x] = def])
  BY <1>1, <1>2, <1>3, SetDefIs
<1> QED BY <1>4, <1>5

(* What lowering an item does to the walk: the definition it found is filled   *)
(* in and its scope entered.                                                   *)
Filled(c, d, s, i, f) ==
  IF FoundAs(c, s, f.kind, f.name) = NoDef \/ (f.kind = "alias" /\ f.path = <<>>) THEN SameWalk(c, d)
  ELSE /\ d.fill = [c.fill EXCEPT ![i] = FoundAs(c, s, f.kind, f.name)]
       /\ d.at = [c.at EXCEPT ![i] = c.defs[FoundAs(c, s, f.kind, f.name)].scope]

Lowered(c, d, s, i, f) == Retouch(c, d) /\ Filled(c, d, s, i, f)

LEMMA FilledIs ==
  ASSUME NEW c, Arena(c), NEW i \in Ids, NEW s, NEW f, NEW m, Retouch(c, m), SameWalk(c, m),
         FoundAs(c, s, f.kind, f.name) \in 1..Len(c.defs), ~(f.kind = "alias" /\ f.path = <<>>)
  PROVE  Lowered(c, Fill(m, i, FoundAs(c, s, f.kind, f.name)), s, i, f)
<1> DEFINE x == FoundAs(c, s, f.kind, f.name)
           d == Fill(m, i, x)
<1> HIDE DEF x
<1>1. x \in 1..Len(c.defs) /\ x \in 1..Len(m.defs) /\ x # NoDef /\ Arena(m)
  BY DEF x, Retouch, NoDef
<1>2. Retouch(m, d) /\ d.fill = [m.fill EXCEPT ![i] = x] /\ d.at = [m.at EXCEPT ![i] = m.defs[x].scope]
  BY <1>1, FillIs
<1>3. m.defs[x].scope = c.defs[x].scope
  BY <1>1 DEF Retouch, SameDef
<1> HIDE DEF d
<1>4. Retouch(c, d)
  BY <1>2, RetouchMore
<1> QED BY <1>1, <1>2, <1>3, <1>4 DEF Lowered, Filled, SameWalk, x, d

LEMMA NotFilled ==
  ASSUME NEW c, Arena(c), NEW s, NEW i, NEW f,
         FoundAs(c, s, f.kind, f.name) = NoDef \/ (f.kind = "alias" /\ f.path = <<>>)
  PROVE  Lowered(c, c, s, i, f)
<1>1. Retouch(c, c) /\ SameWalk(c, c)
  BY UntouchedIs DEF Untouched, SameReports
<1> QED BY <1>1 DEF Lowered, Filled

LEMMA LowerNamedIs ==
  ASSUME NEW c, Arena(c), NEW s \in 0..Len(c.scopes), NEW i \in Ids, NEW f, NamedItem(f), f.kind # "alias"
  PROVE  Lowered(c, LowerNamed(c, s, i, f), s, i, f)
<1> DEFINE x == FoundAs(c, s, f.kind, f.name)
<1>1. x \in 0..Len(c.defs) /\ Len(c.defs) \in Nat
  <2>1. f.kind \in DefKinds /\ f.name \in Words
    BY NamedItemIs DEF NamedItem, NamedKinds, DefKinds
  <2> QED BY <2>1, FoundAsIs, Sizes DEF Arena
<1>2. LowerNamed(c, s, i, f) = IF x = NoDef THEN c ELSE Fill(c, i, x)
  BY DEF LowerNamed
<1> HIDE DEF x
<1>3. CASE x = NoDef
  BY <1>2, <1>3, NotFilled DEF x
<1>4. CASE x # NoDef
  <2>1. x \in 1..Len(c.defs)
    BY <1>1, <1>4 DEF NoDef
  <2>2. Retouch(c, c) /\ SameWalk(c, c)
    BY UntouchedIs DEF Untouched, SameReports
  <2> QED BY <1>2, <1>4, <2>1, <2>2, FilledIs DEF x
<1> QED BY <1>3, <1>4

\* Lowering the path of an item, where the item's own names are known.
LEMMA PathLoweredIs ==
  ASSUME NEW c, Arena(c), NEW x \in 1..Len(c.defs), NEW f, f \in Items, f.path # <<>>, NEW i \in Ids
  PROVE  LET l == LowerPathTy(c, c.defs[x].scope, f.path, i)
         IN  Retouch(c, l.cx) /\ SameWalk(c, l.cx) /\ TyOK(c, l.ty)
<1> DEFINE s == c.defs[x].scope
<1>1. s \in 0..Len(c.scopes)
  <2>1. s \in Nat /\ s <= Len(c.scopes)
    BY TyOfDef DEF DefOK, DefRecords
  <2> QED BY <2>1, Sizes DEF Arena
<1>2. f.path \in Seq(Words) /\ i \in Nat
  BY DEF Items, Paths, Words, Ids
<1> DEFINE l == LowerPathTy(c, s, f.path, i)
<1> HIDE DEF s
<1>3. Arena(l.cx) /\ Untouched(c, l.cx) /\ SameReports(c, l.cx) /\ TyOK(c, l.ty) /\ (c.panicked => l.cx.panicked)
  BY <1>1, <1>2, LowerPathTyIs
<1> HIDE DEF l
<1>4. Retouch(c, l.cx) /\ SameWalk(c, l.cx)
  BY <1>3, UntouchedIs
<1> QED BY <1>3, <1>4 DEF l, s

LEMMA LowerFnIs ==
  ASSUME NEW c, Arena(c), NEW s \in 0..Len(c.scopes), NEW i \in Ids, NEW f, NamedItem(f), f.kind = "fn"
  PROVE  Lowered(c, LowerFn(c, s, i, f), s, i, f)
<1> DEFINE x == FoundAs(c, s, "fn", f.name)
           c1 == IF f.path = <<>> THEN c ELSE LowerPathTy(c, c.defs[x].scope, f.path, i).cx
           b == (f.shape = "self")
           c2 == [c1 EXCEPT !.defs[x].self = b]
<1>1. x \in 0..Len(c.defs) /\ Len(c.defs) \in Nat
  <2>1. "fn" \in DefKinds /\ f.name \in Words
    BY NamedItemIs DEF NamedItem, NamedKinds, DefKinds
  <2> QED BY <2>1, FoundAsIs, Sizes DEF Arena
<1>2. LowerFn(c, s, i, f) = IF x = NoDef THEN c ELSE Fill(c2, i, x)
  BY DEF LowerFn
<1>3. CASE x = NoDef
  <2> HIDE DEF c1
  <2> QED BY <1>2, <1>3, NotFilled
<1>4. CASE x # NoDef
  <2> HIDE DEF x
  <2>1. x \in 1..Len(c.defs)
    BY <1>1, <1>4 DEF NoDef
  <2>2. Retouch(c, c) /\ SameWalk(c, c)
    BY UntouchedIs DEF Untouched, SameReports
  <2>3. Retouch(c, c1) /\ SameWalk(c, c1)
    <3>1. CASE f.path = <<>>
      BY <2>2, <3>1
    <3>2. CASE f.path # <<>>
      <4>1. Retouch(c, LowerPathTy(c, c.defs[x].scope, f.path, i).cx) /\ SameWalk(c, LowerPathTy(c, c.defs[x].scope, f.path, i).cx)
        BY <2>1, <3>2, PathLoweredIs DEF NamedItem
      <4> QED BY <3>2, <4>1
    <3> QED BY <3>1, <3>2
  <2> HIDE DEF c1
  <2>4. Arena(c1) /\ x \in 1..Len(c1.defs) /\ b \in BOOLEAN
    BY <2>1, <2>3 DEF Retouch
  <2> HIDE DEF b
  <2>5. Retouch(c1, c2) /\ SameWalk(c1, c2)
    BY <2>4, SelfFlagIs
  <2> HIDE DEF c2
  <2>6. Retouch(c, c2) /\ SameWalk(c, c2)
    BY <2>3, <2>5, RetouchMore DEF SameWalk
  <2>7. x = FoundAs(c, s, f.kind, f.name)
    BY DEF x
  <2>8. Lowered(c, Fill(c2, i, x), s, i, f)
    BY <2>1, <2>6, <2>7, FilledIs
  <2> QED BY <1>2, <1>4, <2>8
<1> QED BY <1>3, <1>4

LEMMA LowerTyAliasIs ==
  ASSUME NEW c, Arena(c), NEW s \in 0..Len(c.scopes), NEW i \in Ids, NEW f, NamedItem(f), f.kind = "alias"
  PROVE  Lowered(c, LowerTyAlias(c, s, i, f), s, i, f)
<1> DEFINE x == FoundAs(c, s, "alias", f.name)
           l == LowerPathTy(c, c.defs[x].scope, f.path, i)
           c2 == BindAlias(l.cx, x, l.ty)
<1>1. x \in 0..Len(c.defs) /\ Len(c.defs) \in Nat
  <2>1. "alias" \in DefKinds /\ f.name \in Words
    BY NamedItemIs DEF NamedItem, NamedKinds, DefKinds
  <2> QED BY <2>1, FoundAsIs, Sizes DEF Arena
<1>2. LowerTyAlias(c, s, i, f) = IF x = NoDef \/ f.path = <<>> THEN c ELSE Fill(c2, i, x)
  BY DEF LowerTyAlias
<1>3. CASE x = NoDef \/ f.path = <<>>
  <2> HIDE DEF c2, l
  <2> QED BY <1>2, <1>3, NotFilled
<1>4. CASE x # NoDef /\ f.path # <<>>
  <2> HIDE DEF x
  <2>1. x \in 1..Len(c.defs)
    BY <1>1, <1>4 DEF NoDef
  <2>2. Retouch(c, l.cx) /\ SameWalk(c, l.cx) /\ TyOK(c, l.ty)
    BY <1>4, <2>1, PathLoweredIs DEF NamedItem
  <2> HIDE DEF l
  <2>3. Arena(l.cx) /\ x \in 1..Len(l.cx.defs) /\ TyOK(l.cx, l.ty)
    BY <2>1, <2>2 DEF Retouch, TyOK
  <2>4. Retouch(l.cx, c2) /\ SameWalk(l.cx, c2)
    BY <2>3, BindAliasIs
  <2> HIDE DEF c2
  <2>5. Retouch(c, c2) /\ SameWalk(c, c2)
    BY <2>2, <2>4, RetouchMore DEF SameWalk
  <2>6. x = FoundAs(c, s, f.kind, f.name)
    BY DEF x
  <2>7. Lowered(c, Fill(c2, i, x), s, i, f)
    BY <1>4, <2>1, <2>5, <2>6, FilledIs
  <2> QED BY <1>2, <1>4, <2>7
<1> QED BY <1>3, <1>4

(***************************************************************************)
(* Imports.                                                                *)
(***************************************************************************)
EntryAfter(c, s, brought, t, e) ==
  IF t = s /\ e \in DOMAIN brought THEN brought[e] ELSE c.scopes[t].entries[e]

Imported(c, d, s, brought) ==
  /\ Arena(d) /\ d.defs = c.defs /\ SameOwn(c, d) /\ SameWalk(c, d) /\ d.impls = c.impls /\ d.globs = c.globs
  /\ d.panicked = c.panicked /\ d.diags = c.diags /\ Len(d.scopes) = Len(c.scopes)
  /\ \A t \in 1..Len(c.scopes) : /\ d.scopes[t].parent = c.scopes[t].parent
                                 /\ \A e \in Entries : d.scopes[t].entries[e] = EntryAfter(c, s, brought, t, e)
  /\ d.taken <=> (c.taken \/ \E e \in DOMAIN brought : c.scopes[s].entries[e] \notin {NoDef, brought[e]})
  /\ \A e \in DOMAIN brought : brought[e] # NoDef

LEMMA ImportIs ==
  ASSUME NEW c, Arena(c), NEW s \in 1..Len(c.scopes), NEW brought, DOMAIN brought \subseteq Entries,
         \A e \in DOMAIN brought : brought[e] \in 1..Len(c.defs) /\ Fits(c.defs[brought[e]], s, e)
  PROVE  Imported(c, Import(c, s, brought), s, brought)
<1> DEFINE had == c.scopes[s].entries
           now == [e \in Entries |-> IF e \in DOMAIN brought THEN brought[e] ELSE had[e]]
           some == \E e \in DOMAIN brought : had[e] \notin {NoDef, brought[e]}
           d == Import(c, s, brought)
           record == [c.scopes[s] EXCEPT !.entries = now]
<1>1. /\ c \in Contexts /\ Len(c.defs) \in Nat /\ Len(c.scopes) \in Nat /\ DOMAIN c.scopes = 1..Len(c.scopes)
      /\ c.scopes \in Seq(ScopeRecords) /\ c.taken \in BOOLEAN /\ c.scopes[s] \in ScopeRecords
  BY Sizes DEF Arena, Contexts
<1>2. had \in [Entries -> Nat] /\ now \in [Entries -> Nat]
  <2>1. had \in [Entries -> Nat]
    BY <1>1 DEF ScopeRecords
  <2>2. \A e \in DOMAIN brought : brought[e] \in Nat
    BY <1>1
  <2> QED BY <2>1, <2>2
<1>3. /\ d.scopes = [c.scopes EXCEPT ![s] = record] /\ d.defs = c.defs /\ d.own = c.own /\ d.def = c.def
      /\ d.impls = c.impls /\ d.at = c.at /\ d.fill = c.fill /\ d.globs = c.globs /\ d.panicked = c.panicked
      /\ d.diags = c.diags
  BY <1>1 DEF Import, Contexts
<1>4. d.taken = (c.taken \/ some)
  BY <1>1 DEF Import, Contexts
<1>5. record \in ScopeRecords /\ record.entries = now /\ record.parent = c.scopes[s].parent
  BY <1>1, <1>2 DEF ScopeRecords
<1> HIDE DEF record
<1>6. d \in Contexts
  <2>1. d.scopes \in Seq(ScopeRecords)
    BY <1>1, <1>3, <1>5
  <2>2. d.taken \in BOOLEAN
    BY <1>4
  <2>3. d = [c EXCEPT !.scopes = d.scopes, !.taken = d.taken]
    BY <1>1 DEF Import, Contexts
  <2> HIDE DEF d
  <2> QED BY <1>1, <2>1, <2>2, <2>3 DEF Contexts
<1> HIDE DEF d, some
<1>7. Len(d.scopes) = Len(c.scopes)
  <2>1. DOMAIN d.scopes = 1..Len(c.scopes) /\ d.scopes \in Seq(ScopeRecords)
    BY <1>1, <1>3, <1>6 DEF Contexts
  <2> QED BY <1>1, <2>1
<1>8. ASSUME NEW t \in 1..Len(c.scopes)
      PROVE  /\ d.scopes[t].parent = c.scopes[t].parent
             /\ \A e \in Entries : d.scopes[t].entries[e] = EntryAfter(c, s, brought, t, e)
  <2>1. d.scopes[t] = IF t = s THEN record ELSE c.scopes[t]
    BY <1>1, <1>3
  <2> QED BY <1>5, <2>1 DEF EntryAfter
<1>9. ASSUME NEW t \in 1..Len(d.scopes) PROVE ScopeOK(d, t)
  <2>1. t \in 1..Len(c.scopes) /\ ScopeOK(c, t)
    BY <1>7 DEF Arena
  <2>2. ASSUME NEW e \in Entries
        PROVE  /\ d.scopes[t].entries[e] <= Len(d.defs)
               /\ d.scopes[t].entries[e] # NoDef => Fits(d.defs[d.scopes[t].entries[e]], t, e)
    <3>1. d.scopes[t].entries[e] = EntryAfter(c, s, brought, t, e)
      BY <1>8, <2>1
    <3>2. CASE t = s /\ e \in DOMAIN brought
      <4>1. d.scopes[t].entries[e] = brought[e]
        BY <3>1, <3>2 DEF EntryAfter
      <4> QED BY <1>1, <1>3, <3>2, <4>1
    <3>3. CASE ~(t = s /\ e \in DOMAIN brought)
      <4>1. d.scopes[t].entries[e] = c.scopes[t].entries[e]
        BY <3>1, <3>3 DEF EntryAfter
      <4> QED BY <1>3, <2>1, <4>1 DEF ScopeOK
    <3> QED BY <3>2, <3>3
  <2> QED BY <1>8, <2>1, <2>2 DEF ScopeOK
<1>10. Arena(d)
  <2>1. Longer(c, d)
    BY <1>1, <1>3 DEF Longer
  <2>2. \A k \in (Len(c.defs) + 1)..Len(d.defs) : DefOK(d, d.defs[k])
    BY <1>1, <1>3
  <2>3. \A i \in Ids : d.own[i] <= Len(d.scopes) /\ d.at[i] <= Len(d.scopes) /\ d.def[i] <= Len(d.defs)
    BY <1>3, <1>7 DEF Arena
  <2>4. Len(d.scopes) >= Len(c.scopes)
    BY <1>1, <1>7
  <2> QED BY <1>3, <1>6, <1>9, <2>1, <2>2, <2>3, <2>4, ArenaGrows
<1>11. d.taken <=> (c.taken \/ \E e \in DOMAIN brought : c.scopes[s].entries[e] \notin {NoDef, brought[e]})
  BY <1>4 DEF some
<1>12. \A e \in DOMAIN brought : brought[e] # NoDef
  BY <1>1 DEF NoDef
<1>13. Imported(c, d, s, brought)
  BY <1>3, <1>7, <1>8, <1>10, <1>11, <1>12 DEF Imported, SameOwn, SameWalk
<1> QED BY <1>13 DEF d

\* What a glob has brought is all there is in the scope it names.
GlobOK(c, g) ==
  \A e \in Entries :
    Held(c, c.defs[g[3]].scope, e) /\ c.defs[c.scopes[c.defs[g[3]].scope].entries[e]].kind # "generic"
      => c.scopes[g[2]].entries[e] = c.scopes[c.defs[g[3]].scope].entries[e]

GlobIs(c, g, s, i) ==
  g[1] = i /\ g[2] = s /\ g[3] \in 1..Len(c.defs) /\ c.defs[g[3]].kind \in {"mod", "enum"} /\ (~c.taken => GlobOK(c, g))

HeldStays(c, d) == \A t \in 1..Len(c.scopes) : \A e \in Entries : Held(c, t, e) => Held(d, t, e)

\* What use i does when scope s is current.
Imports(c, d, s, i) ==
  /\ HeldStays(c, d)
  /\ Arena(d) /\ d.defs = c.defs /\ SameOwn(c, d) /\ SameWalk(c, d) /\ d.impls = c.impls
  /\ (c.panicked => d.panicked) /\ SameReports(c, d) /\ (c.taken => d.taken) /\ KeepsNames(c, d)
  /\ Len(d.scopes) = Len(c.scopes)
  /\ \A t \in 1..Len(c.scopes) :
       /\ d.scopes[t].parent = c.scopes[t].parent
       /\ t # s => \A e \in Entries : d.scopes[t].entries[e] = c.scopes[t].entries[e]
  /\ c.globs \subseteq d.globs /\ \A g \in d.globs : g \in c.globs \/ GlobIs(d, g, s, i)

LEMMA ImportsNothing ==
  ASSUME NEW c, Arena(c), NEW s, NEW i
  PROVE  Imports(c, c, s, i)
BY DEF Imports, SameOwn, SameWalk, SameReports, KeepsNames, HeldStays

LEMMA ImportsMore ==
  ASSUME NEW c, Arena(c), NEW s \in 1..Len(c.scopes), NEW i, NEW d, NEW e, Imports(c, d, s, i), Imports(d, e, s, i)
  PROVE  Imports(c, e, s, i)
<1>1. /\ Len(c.scopes) \in Nat /\ Len(c.defs) \in Nat /\ Arena(d) /\ Arena(e) /\ d.defs = c.defs /\ e.defs = c.defs
      /\ Len(d.scopes) = Len(c.scopes) /\ Len(e.scopes) = Len(c.scopes)
  BY Sizes DEF Imports, Arena
<1>2. KeepsNames(c, e)
  <2> SUFFICES ASSUME ~e.taken, NEW t \in 1..Len(c.scopes), NEW x \in Entries, Held(c, t, x)
               PROVE  e.scopes[t].entries[x] = c.scopes[t].entries[x]
    BY DEF KeepsNames
  <2>1. ~d.taken
    BY DEF Imports
  <2>2. d.scopes[t].entries[x] = c.scopes[t].entries[x]
    BY <2>1 DEF Imports, KeepsNames
  <2> QED BY <1>1, <2>2 DEF Imports, KeepsNames, Held
<1>3. ASSUME NEW g \in e.globs, g \notin c.globs PROVE GlobIs(e, g, s, i)
  <2>1. CASE g \notin d.globs
    BY <2>1 DEF Imports
  <2>2. CASE g \in d.globs
    <3>1. GlobIs(d, g, s, i)
      BY <1>3, <2>2 DEF Imports
    <3> DEFINE from == c.defs[g[3]].scope
    <3>2. g[3] \in 1..Len(c.defs) /\ c.defs[g[3]].kind \in {"mod", "enum"} /\ g[2] = s /\ g[1] = i
      BY <1>1, <3>1 DEF GlobIs
    <3>3. from \in 1..Len(c.scopes)
      <4>1. from \in Nat /\ from <= Len(c.scopes) /\ from # NoScope
        BY <3>2, TyOfDef DEF DefOK, DefRecords
      <4> QED BY <1>1, <4>1 DEF NoScope
    <3>4. ASSUME ~e.taken PROVE GlobOK(e, g)
      <4>1. ~d.taken /\ GlobOK(d, g)
        BY <3>1, <3>4 DEF Imports, GlobIs
      <4>2. CASE from = s
        BY <1>1, <3>2, <4>2 DEF GlobOK
      <4>3. CASE from # s
        <5>1. \A x \in Entries : e.scopes[from].entries[x] = d.scopes[from].entries[x]
          BY <1>1, <3>3, <4>3 DEF Imports
        <5> HIDE DEF from
        <5>2. ASSUME NEW x \in Entries, Held(e, from, x), e.defs[e.scopes[from].entries[x]].kind # "generic"
              PROVE  e.scopes[s].entries[x] = e.scopes[from].entries[x]
          <6>1. Held(d, from, x) /\ d.defs[d.scopes[from].entries[x]].kind # "generic"
            BY <1>1, <5>1, <5>2 DEF Held
          <6>2. d.scopes[s].entries[x] = d.scopes[from].entries[x]
            BY <1>1, <3>2, <4>1, <6>1, Zenon DEF GlobOK, from
          <6>3. Held(d, s, x)
            BY <6>1, <6>2 DEF Held
          <6>4. e.scopes[s].entries[x] = d.scopes[s].entries[x]
            BY <1>1, <3>4, <6>3 DEF Imports, KeepsNames
          <6> QED BY <5>1, <6>2, <6>4
        <5> QED BY <1>1, <3>2, <5>2, Zenon DEF GlobOK, from
      <4> QED BY <4>2, <4>3
    <3> QED BY <1>1, <3>2, <3>4 DEF GlobIs
  <2> QED BY <2>1, <2>2
<1>4. \A t \in 1..Len(c.scopes) :
        /\ e.scopes[t].parent = c.scopes[t].parent
        /\ t # s => \A x \in Entries : e.scopes[t].entries[x] = c.scopes[t].entries[x]
  BY <1>1 DEF Imports
<1>5. SameReports(c, e) /\ HeldStays(c, e)
  BY <1>1 DEF Imports, SameReports, HeldStays
<1>6. /\ SameOwn(c, e) /\ SameWalk(c, e) /\ e.impls = c.impls /\ (c.panicked => e.panicked) /\ (c.taken => e.taken)
      /\ c.globs \subseteq e.globs
  BY DEF Imports, SameOwn, SameWalk
<1> QED BY <1>1, <1>2, <1>3, <1>4, <1>5, <1>6 DEF Imports

LEMMA ImportKeeps ==
  ASSUME NEW c, Arena(c), NEW s \in 1..Len(c.scopes), NEW brought, DOMAIN brought \subseteq Entries, NEW d, NEW i,
         Imported(c, d, s, brought)
  PROVE  Imports(c, d, s, i)
<1>1. KeepsNames(c, d)
  <2> SUFFICES ASSUME ~d.taken, NEW t \in 1..Len(c.scopes), NEW e \in Entries, Held(c, t, e)
               PROVE  d.scopes[t].entries[e] = c.scopes[t].entries[e]
    BY DEF KeepsNames
  <2>1. d.scopes[t].entries[e] = EntryAfter(c, s, brought, t, e)
    BY DEF Imported
  <2>2. t = s /\ e \in DOMAIN brought => brought[e] = c.scopes[t].entries[e]
    BY DEF Imported, Held
  <2> QED BY <2>1, <2>2 DEF EntryAfter
<1>2. SameReports(c, d) /\ HeldStays(c, d)
  BY DEF Imported, SameReports, HeldStays, EntryAfter, Held
<1>3. \A t \in 1..Len(c.scopes) :
        /\ d.scopes[t].parent = c.scopes[t].parent
        /\ t # s => \A e \in Entries : d.scopes[t].entries[e] = c.scopes[t].entries[e]
  BY DEF Imported, EntryAfter
<1> QED BY <1>1, <1>2, <1>3 DEF Imported, Imports

LEMMA ComplaintIs ==
  ASSUME NEW c, Arena(c), NEW what \in {"UnresolvedImport", "InvalidGlobTarget"}, NEW s, NEW i \in Nat
  PROVE  Imports(c, Diagnose(c, what, i), s, i)
<1> DEFINE d == Diagnose(c, what, i)
<1>1. c \in Contexts /\ what \in Reports
  BY DEF Arena, Reports
<1>2. d \in Contexts /\ Untouched(c, d) /\ d.panicked = c.panicked /\ d.diags = c.diags \cup {<<what, i>>}
  BY <1>1, DiagnoseIs
<1> HIDE DEF d
<1>3. Arena(d)
  BY <1>2, ArenaIsOfItsParts
<1>4. SameReports(c, d)
  BY <1>2 DEF SameReports
<1> QED BY <1>2, <1>3, <1>4 DEF Untouched, Imports, SameOwn, SameWalk, KeepsNames, HeldStays, Held, d

LEMMA UseSimpleIs ==
  ASSUME NEW c, Arena(c), NEW s \in 1..Len(c.scopes), NEW tree \in Trees, tree.path # <<>>,
         NEW x \in 1..Len(c.defs), c.defs[x].kind # "generic", NEW i
  PROVE  Imports(c, UseSimple(c, s, tree, x), s, i)
<1> DEFINE name == IF tree.name = NoName THEN Last(tree.path) ELSE tree.name
           e == <<name, Namespace(KindOf(c, x))>>
           brought == [k \in {e} |-> x]
<1>1. name \in Words
  <2>1. tree.path \in Seq(Symbols) /\ tree.name \in Symbols \cup {NoName}
    BY DEF Trees
  <2>2. Last(tree.path) \in Symbols
    <3>1. Len(tree.path) \in 1..Len(tree.path)
      BY <2>1
    <3> QED BY <2>1, <3>1 DEF Last
  <2> QED BY <2>1, <2>2 DEF Words
<1>2. e \in Entries
  BY <1>1 DEF Entries, Words, Namespace, Spaces
<1>3. c.defs[x].kind \in DefKinds
  BY TyOfDef DEF DefRecords
<1>4. Fits(c.defs[x], s, e)
  BY <1>3 DEF Fits, Namespace, KindOf, DefKinds
<1>5. DOMAIN brought = {e} /\ brought[e] = x
  OBVIOUS
<1>6. UseSimple(c, s, tree, x) = Import(c, s, brought)
  BY DEF UseSimple
<1> HIDE DEF brought, e
<1>7. Imported(c, Import(c, s, brought), s, brought)
  BY <1>2, <1>4, <1>5, ImportIs
<1>8. Imports(c, Import(c, s, brought), s, i)
  BY <1>2, <1>5, <1>7, ImportKeeps
<1> QED BY <1>6, <1>8

LEMMA UseGlobIs ==
  ASSUME NEW c, Arena(c), NEW s \in 1..Len(c.scopes), NEW x \in 1..Len(c.defs), NEW i \in Nat
  PROVE  Imports(c, UseGlob(c, s, x, i), s, i)
<1>1. CASE KindOf(c, x) \notin {"mod", "enum"}
  BY <1>1, ComplaintIs DEF UseGlob
<1>2. CASE KindOf(c, x) \in {"mod", "enum"}
  <2> DEFINE from == c.defs[x].scope
             g == <<i, s, x>>
             c1 == [c EXCEPT !.globs = @ \cup {g}]
             all == Offered(c, from)
             d == Import(c1, s, all)
  <2>1. c \in Contexts /\ Len(c.defs) \in Nat /\ Len(c.scopes) \in Nat
    BY Sizes DEF Arena
  <2>2. from \in 1..Len(c.scopes)
    <3>1. from \in Nat /\ from <= Len(c.scopes) /\ from # NoScope
      BY <1>2, TyOfDef DEF DefOK, DefRecords, KindOf
    <3> QED BY <2>1, <3>1 DEF NoScope
  <2>3. /\ c1.scopes = c.scopes /\ c1.defs = c.defs /\ c1.own = c.own /\ c1.def = c.def /\ c1.at = c.at
        /\ c1.fill = c.fill /\ c1.impls = c.impls /\ c1.taken = c.taken /\ c1.panicked = c.panicked /\ c1.diags = c.diags
        /\ c1.globs = c.globs \cup {g}
    BY <2>1 DEF Contexts
  <2>4. c1 \in Contexts
    <3>1. g \in Nat \X Nat \X Nat
      BY <2>1
    <3>2. c.globs \cup {g} \in SUBSET (Nat \X Nat \X Nat)
      BY <2>1, <3>1 DEF Contexts
    <3> HIDE DEF g
    <3> QED BY <2>1, <3>2 DEF Contexts
  <2> HIDE DEF c1
  <2>5. Arena(c1)
    <3>1. Longer(c, c1)
      BY <2>1, <2>3 DEF Longer
    <3>2. \A t \in 1..Len(c1.scopes) : ScopeOK(c1, t)
      BY <2>3 DEF Arena, ScopeOK
    <3>3. \A k \in (Len(c.defs) + 1)..Len(c1.defs) : DefOK(c1, c1.defs[k])
      BY <2>1, <2>3
    <3>4. \A j \in Ids : c1.own[j] <= Len(c1.scopes) /\ c1.at[j] <= Len(c1.scopes) /\ c1.def[j] <= Len(c1.defs)
      BY <2>3 DEF Arena
    <3>5. Len(c1.scopes) >= Len(c.scopes)
      BY <2>1, <2>3
    <3> QED BY <2>3, <2>4, <3>1, <3>2, <3>3, <3>4, <3>5, ArenaGrows
  <2>6. /\ DOMAIN all \subseteq Entries
        /\ \A e \in Entries : e \in DOMAIN all <=> Held(c, from, e) /\ c.defs[c.scopes[from].entries[e]].kind # "generic"
        /\ \A e \in DOMAIN all : all[e] = c.scopes[from].entries[e]
    BY Zenon DEF Offered, KindOf, Held
  <2> HIDE DEF all
  <2>7. ASSUME NEW e \in DOMAIN all PROVE all[e] \in 1..Len(c1.defs) /\ Fits(c1.defs[all[e]], s, e)
    <3>1. e \in Entries /\ all[e] = c.scopes[from].entries[e] /\ all[e] # NoDef /\ c.defs[all[e]].kind # "generic"
      BY <2>6, <2>7 DEF Held
    <3>2. ScopeOK(c, from) /\ c.scopes[from] \in ScopeRecords
      BY <2>1, <2>2, Sizes DEF Arena
    <3>3. all[e] \in Nat /\ all[e] <= Len(c.defs) /\ Fits(c.defs[all[e]], from, e)
      BY <3>1, <3>2, Zenon DEF ScopeOK, ScopeRecords
    <3>4. all[e] \in 1..Len(c.defs)
      <4> DEFINE k == all[e]
      <4>1. k \in Nat /\ k <= Len(c.defs) /\ k # 0
        BY <3>1, <3>3, Zenon DEF NoDef
      <4> HIDE DEF k
      <4>2. k \in 1..Len(c.defs)
        BY ONLY <2>1, <4>1
      <4> QED BY <4>2 DEF k
    <3> QED BY <2>3, <3>1, <3>3, <3>4, Zenon DEF Fits
  <2>8. Imported(c1, d, s, all)
    <3>1. s \in 1..Len(c1.scopes)
      BY <2>3
    <3> HIDE DEF from
    <3> QED BY <2>5, <2>6, <2>7, <3>1, ImportIs
  <2> HIDE DEF d
  <2>9. Imports(c1, d, s, i)
    <3>1. s \in 1..Len(c1.scopes)
      BY <2>3
    <3> QED BY <2>5, <2>6, <2>8, <3>1, ImportKeeps
  <2>10. d.globs = c.globs \cup {g} /\ d.defs = c.defs
    BY <2>3, <2>8 DEF Imported
  <2>11. ASSUME ~d.taken PROVE GlobOK(d, g)
    <3> SUFFICES ASSUME NEW e \in Entries, Held(d, from, e), d.defs[d.scopes[from].entries[e]].kind # "generic"
                 PROVE  d.scopes[s].entries[e] = d.scopes[from].entries[e]
      BY <2>10, Zenon DEF GlobOK
    <3>1. CASE from = s
      BY <3>1
    <3>2. CASE from # s
      <4>1. d.scopes[from].entries[e] = c.scopes[from].entries[e]
        <5>1. from \in 1..Len(c1.scopes)
          BY <2>2, <2>3, Zenon
        <5> HIDE DEF from
        <5>2. \A k \in Entries : d.scopes[from].entries[k] = c1.scopes[from].entries[k]
          BY <2>9, <3>2, <5>1 DEF Imports
        <5> QED BY <2>3, <5>2
      <4>2. e \in DOMAIN all /\ all[e] = c.scopes[from].entries[e]
        BY <2>6, <2>10, <4>1, Zenon DEF Held
      <4>3. d.scopes[s].entries[e] = all[e]
        BY <2>3, <2>8, <4>2, Zenon DEF Imported, EntryAfter
      <4> QED BY <4>1, <4>2, <4>3, Zenon
    <3> QED BY <3>1, <3>2, Zenon
  <2>12. GlobIs(d, g, s, i)
    BY <1>2, <2>10, <2>11 DEF GlobIs, KindOf
  <2> HIDE DEF g
  <2>13. Imports(c, d, s, i)
    <3>1. Arena(d) /\ d.defs = c.defs /\ SameOwn(c, d) /\ SameWalk(c, d) /\ d.impls = c.impls
      BY <2>3, <2>9 DEF Imports, SameOwn, SameWalk
    <3>2. /\ (c.panicked => d.panicked) /\ SameReports(c, d) /\ (c.taken => d.taken) /\ Len(d.scopes) = Len(c.scopes)
          /\ HeldStays(c, d)
      BY <2>3, <2>9 DEF Imports, SameReports, HeldStays, Held
    <3>3. KeepsNames(c, d)
      BY <2>3, <2>9 DEF Imports, KeepsNames, Held
    <3>4. \A t \in 1..Len(c.scopes) :
            /\ d.scopes[t].parent = c.scopes[t].parent
            /\ t # s => \A e \in Entries : d.scopes[t].entries[e] = c.scopes[t].entries[e]
      BY <2>3, <2>9 DEF Imports
    <3>5. c.globs \subseteq d.globs /\ \A h \in d.globs : h \in c.globs \/ GlobIs(d, h, s, i)
      BY <2>10, <2>12
    <3> QED BY <3>1, <3>2, <3>3, <3>4, <3>5 DEF Imports
  <2>14. d = UseGlob(c, s, x, i)
    BY <1>2 DEF UseGlob, d, c1, all, g
  <2> QED BY <2>13, <2>14
<1> QED BY <1>1, <1>2

LEMMA UsePathIs ==
  ASSUME NEW c, Arena(c), NEW s \in 1..Len(c.scopes), NEW tree \in Trees, tree.path # <<>>,
         NEW prefix \in 0..Len(c.defs)
  PROVE  LET x == UsePath(c, s, tree, prefix)
         IN  x \in 0..Len(c.defs) /\ (x # NoDef => c.defs[x].kind # "generic")
<1> DEFINE In(ns) == IF prefix = NoDef THEN ResolvePath(c, s, tree.path, ns) ELSE ResolvePathFrom(c, prefix, tree.path, ns)
           value == IF tree.shape = "simple" THEN In("values") ELSE NoDef
           y == OrElse(In("types"), value)
           x == UsePath(c, s, tree, prefix)
<1>1. Len(c.defs) \in Nat /\ Len(c.scopes) \in Nat /\ s \in 0..Len(c.scopes)
  BY Sizes DEF Arena
<1>2. tree.path \in Seq(Words)
  BY DEF Trees, Words
<1>3. ASSUME NEW ns \in Spaces PROVE In(ns) \in 0..Len(c.defs)
  BY <1>1, <1>2, ResolvePathIs, ResolvePathFromIs
<1>4. "types" \in Spaces /\ "values" \in Spaces
  BY DEF Spaces
<1>5. x = NoGeneric(c, y)
  BY DEF UsePath
<1> HIDE DEF In, x
<1>6. y \in 0..Len(c.defs)
  BY <1>1, <1>3, <1>4 DEF OrElse, NoDef
<1> HIDE DEF y
<1>7. x = IF y # NoDef /\ c.defs[y].kind = "generic" THEN NoDef ELSE y
  BY <1>5 DEF NoGeneric, KindOf
<1>8. x \in 0..Len(c.defs) /\ (x # NoDef => c.defs[x].kind # "generic")
  BY <1>1, <1>6, <1>7 DEF NoDef
<1> QED BY <1>8 DEF x

LEMMA LowerUseTreeIs ==
  ASSUME NEW c, Arena(c), NEW s \in 1..Len(c.scopes), NEW tree \in Trees, tree.path # <<>>,
         NEW x \in 0..Len(c.defs), x # NoDef => c.defs[x].kind # "generic", NEW i \in Nat
  PROVE  Imports(c, LowerUseTree(c, s, i, tree, x), s, i)
<1>1. CASE x = NoDef
  <2>1. Imports(c, Diagnose(c, "UnresolvedImport", i), s, i)
    BY ComplaintIs
  <2> QED BY <1>1, <2>1 DEF LowerUseTree
<1>2. CASE x # NoDef
  <2>1. x \in 1..Len(c.defs) /\ c.defs[x].kind # "generic"
    BY <1>2, Sizes DEF Arena, NoDef
  <2>2. tree.shape \in {"simple", "glob", "nested"}
    BY DEF Trees
  <2>3. CASE tree.shape = "simple"
    <3>1. LowerUseTree(c, s, i, tree, x) = UseSimple(c, s, tree, x)
      BY <1>2, <2>3 DEF LowerUseTree
    <3> QED BY <2>1, <3>1, UseSimpleIs
  <2>4. CASE tree.shape = "glob"
    <3>1. LowerUseTree(c, s, i, tree, x) = UseGlob(c, s, x, i)
      BY <1>2, <2>4 DEF LowerUseTree
    <3> QED BY <2>1, <3>1, UseGlobIs
  <2>5. CASE tree.shape = "nested"
    <3>1. LowerUseTree(c, s, i, tree, x) = c
      BY <1>2, <2>5 DEF LowerUseTree
    <3> QED BY <3>1, ImportsNothing
  <2> QED BY <2>2, <2>3, <2>4, <2>5
<1> QED BY <1>1, <1>2

\* The walk of a use after n branches.
Branches(c, w, s, i, n) ==
  /\ w \in [cx : Contexts, named : Seq(0..Len(c.defs))] /\ Len(w.named) = n /\ Imports(c, w.cx, s, i)

LEMMA LowerBranchIs ==
  ASSUME NEW c, Arena(c), NEW s \in 1..Len(c.scopes), NEW i \in Nat, NEW n \in Nat, NEW w, Branches(c, w, s, i, n),
         NEW tree \in Trees, tree.path # <<>>, tree.group <= n
  PROVE  Branches(c, LowerBranch(w, s, i, tree), s, i, n + 1)
<1> DEFINE prefix == IF tree.group = 0 THEN NoDef ELSE w.named[tree.group]
           D == 0..Len(c.defs)
<1>1. /\ w \in [cx : Contexts, named : Seq(D)] /\ Len(w.named) = n /\ Imports(c, w.cx, s, i)
      /\ w.named \in Seq(D) /\ Arena(w.cx) /\ w.cx.defs = c.defs /\ Len(w.cx.scopes) = Len(c.scopes)
  BY DEF Branches, Imports
<1>2. prefix \in D
  <2>1. CASE tree.group = 0
    BY <2>1, Sizes DEF Arena, NoDef
  <2>2. CASE tree.group # 0
    <3>1. tree.group \in Nat
      BY DEF Trees
    <3>2. tree.group \in 1..Len(w.named)
      BY <1>1, <2>2, <3>1
    <3> HIDE DEF D
    <3>3. w.named[tree.group] \in D
      BY <1>1, <3>2
    <3> QED BY <2>2, <3>3
  <2> QED BY <2>1, <2>2
<1> HIDE DEF D
<1>3. ASSUME NEW x \in D PROVE Append(w.named, x) \in Seq(D) /\ Len(Append(w.named, x)) = n + 1
  BY <1>1
<1>4. LowerBranch(w, s, i, tree) =
        IF tree.group # 0 /\ prefix = NoDef THEN [w EXCEPT !.named = Append(@, NoDef)]
        ELSE Branched(w, s, i, tree, UsePath(w.cx, s, tree, prefix))
  BY DEF LowerBranch
<1>5. CASE tree.group # 0 /\ prefix = NoDef
  <2> DEFINE v == [w EXCEPT !.named = Append(@, NoDef)]
  <2>1. NoDef \in D
    BY <1>2, <1>5
  <2>2. v.cx = w.cx /\ v.named = Append(w.named, NoDef) /\ v \in [cx : Contexts, named : Seq(D)]
    BY <1>1, <1>3, <2>1
  <2> HIDE DEF v
  <2>3. Branches(c, v, s, i, n + 1)
    BY <1>1, <1>3, <2>1, <2>2 DEF Branches, D
  <2> QED BY <1>4, <1>5, <2>3 DEF v
<1>6. CASE ~(tree.group # 0 /\ prefix = NoDef)
  <2> HIDE DEF prefix
  <2> DEFINE x == UsePath(w.cx, s, tree, prefix)
             e == LowerUseTree(w.cx, s, i, tree, x)
             v == Branched(w, s, i, tree, x)
  <2>1. s \in 1..Len(w.cx.scopes) /\ prefix \in 0..Len(w.cx.defs)
    BY <1>1, <1>2 DEF D
  <2>2. x \in 0..Len(w.cx.defs) /\ (x # NoDef => w.cx.defs[x].kind # "generic")
    BY <1>1, <2>1, UsePathIs
  <2> HIDE DEF x
  <2>3. Imports(w.cx, e, s, i)
    BY <1>1, <2>1, <2>2, LowerUseTreeIs
  <2>4. v = [cx |-> e, named |-> Append(w.named, x)]
    BY DEF Branched
  <2> HIDE DEF e
  <2>5. Imports(c, e, s, i)
    BY <1>1, <2>3, ImportsMore
  <2>6. e \in Contexts /\ x \in D
    BY <1>1, <2>2, <2>5 DEF Imports, Arena, D
  <2> HIDE DEF v
  <2>7. v \in [cx : Contexts, named : Seq(D)] /\ Len(v.named) = n + 1 /\ v.cx = e
    BY <1>3, <2>4, <2>6
  <2>8. Branches(c, v, s, i, n + 1)
    BY <2>5, <2>7 DEF Branches, D
  <2> QED BY <1>4, <1>6, <2>8 DEF v, x, prefix
<1> QED BY <1>5, <1>6

StepBranch(w, s, i, trees, n) == LowerBranch(w, s, i, trees[n])
BranchesFolded(c, s, i, trees, m, f) ==
  f = [k \in 0..m |-> IF k = 0 THEN [cx |-> c, named |-> <<>>] ELSE StepBranch(f[k - 1], s, i, trees, k)]

LEMMA BranchesFoldedIs ==
  ASSUME NEW c, NEW s, NEW i, NEW trees, NEW m \in Nat
  PROVE  \E f : BranchesFolded(c, s, i, trees, m, f)
<1> DEFINE w == [cx |-> c, named |-> <<>>]
           S == {n \in Nat : \E f : BranchesFolded(c, s, i, trees, n, f)}
<1>1. 0 \in S
  <2> DEFINE f == [k \in 0..0 |-> w]
  <2>1. f = [k \in 0..0 |-> IF k = 0 THEN w ELSE StepBranch(f[k - 1], s, i, trees, k)]
    <3> HIDE DEF w
    <3>1. \A k \in 0..0 : k = 0
      OBVIOUS
    <3> QED BY <3>1
  <2>2. BranchesFolded(c, s, i, trees, 0, f)
    BY <2>1 DEF BranchesFolded
  <2> QED BY <2>2
<1>2. ASSUME NEW n \in Nat, n \in S PROVE n + 1 \in S
  <2>1. PICK f : BranchesFolded(c, s, i, trees, n, f)
    BY <1>2
  <2> DEFINE last == StepBranch(f[n], s, i, trees, n + 1)
             g == [k \in 0..(n + 1) |-> IF k <= n THEN f[k] ELSE last]
             h == [k \in 0..(n + 1) |-> IF k = 0 THEN w ELSE StepBranch(g[k - 1], s, i, trees, k)]
  <2>a. BranchesFolded(c, s, i, trees, n + 1, g) <=> g = h
    BY DEF BranchesFolded
  <2>b. f = [k \in 0..n |-> IF k = 0 THEN w ELSE StepBranch(f[k - 1], s, i, trees, k)]
    BY <2>1 DEF BranchesFolded
  <2> HIDE DEF w
  <2>2. ASSUME NEW k \in 0..(n + 1) PROVE g[k] = h[k]
    <3>1. CASE k = n + 1
      <4>1. g[n] = f[n]
        OBVIOUS
      <4>2. h[k] = StepBranch(g[k - 1], s, i, trees, k)
        BY <3>1
      <4>3. k - 1 = n
        BY <3>1
      <4>4. h[k] = last
        BY <3>1, <4>1, <4>2, <4>3
      <4>5. g[k] = last
        BY <3>1
      <4> QED BY <4>4, <4>5
    <3>2. CASE k # n + 1
      <4>1. k \in 0..n /\ k <= n
        BY <3>2
      <4>2. g[k] = f[k]
        BY <4>1
      <4>3. f[k] = IF k = 0 THEN w ELSE StepBranch(f[k - 1], s, i, trees, k)
        BY <2>b, <4>1
      <4>4. k # 0 => g[k - 1] = f[k - 1]
        BY <4>1
      <4>5. h[k] = IF k = 0 THEN w ELSE StepBranch(g[k - 1], s, i, trees, k)
        OBVIOUS
      <4> QED BY <4>2, <4>3, <4>4, <4>5
    <3> QED BY <3>1, <3>2
  <2>3. g = h
    <3> HIDE DEF last
    <3>1. g = [k \in 0..(n + 1) |-> g[k]] /\ h = [k \in 0..(n + 1) |-> h[k]]
      OBVIOUS
    <3> HIDE DEF g, h
    <3> QED BY <2>2, <3>1
  <2> HIDE DEF g, h
  <2> QED BY <2>3, <2>a
<1> HIDE DEF S
<1>3. m \in S
  BY <1>1, <1>2, EveryNatural
<1> QED BY <1>3 DEF S

LEMMA LowerUseIs ==
  ASSUME NEW c, Arena(c), NEW s \in 1..Len(c.scopes), NEW i \in Nat, NEW f, f.trees \in Seq(Trees),
         \A n \in DOMAIN f.trees : f.trees[n].path # <<>> /\ f.trees[n].group < n
  PROVE  Imports(c, LowerUse(c, s, i, f), s, i)
<1> DEFINE m == Len(f.trees)
           cxs == CHOOSE g : BranchesFolded(c, s, i, f.trees, m, g)
<1>1. m \in Nat /\ DOMAIN f.trees = 1..m
  OBVIOUS
<1>2. BranchesFolded(c, s, i, f.trees, m, cxs)
  BY <1>1, BranchesFoldedIs
<1>3. LowerUse(c, s, i, f) = cxs[m].cx
  BY DEF LowerUse, After, BranchesFolded, StepBranch
<1> HIDE DEF cxs
<1> DEFINE S == {n \in Nat : n <= m => Branches(c, cxs[n], s, i, n)}
<1>4. 0 \in S
  <2>1. cxs[0] = [cx |-> c, named |-> <<>>]
    BY <1>1, <1>2 DEF BranchesFolded
  <2>2. Imports(c, c, s, i) /\ c \in Contexts
    BY ImportsNothing DEF Arena
  <2>3. Branches(c, cxs[0], s, i, 0)
    BY <2>1, <2>2 DEF Branches
  <2> QED BY <2>3
<1>5. ASSUME NEW n \in Nat, n \in S PROVE n + 1 \in S
  <2> SUFFICES ASSUME n + 1 <= m PROVE Branches(c, cxs[n + 1], s, i, n + 1)
    OBVIOUS
  <2>1. Branches(c, cxs[n], s, i, n)
    BY <1>1, <1>5
  <2>2. n + 1 \in 0..m /\ n + 1 # 0 /\ (n + 1) - 1 = n /\ n + 1 \in DOMAIN f.trees
    BY <1>1
  <2>3. cxs[n + 1] = LowerBranch(cxs[n], s, i, f.trees[n + 1])
    BY <1>2, <2>2 DEF BranchesFolded, StepBranch
  <2>4. f.trees[n + 1] \in Trees /\ f.trees[n + 1].path # <<>> /\ f.trees[n + 1].group < n + 1
    BY <1>1, <2>2
  <2>5. f.trees[n + 1].group <= n
    <3>1. f.trees[n + 1].group \in Nat
      BY <2>4 DEF Trees
    <3> QED BY <2>4, <3>1
  <2> QED BY <2>1, <2>3, <2>4, <2>5, LowerBranchIs
<1>6. m \in S
  <2> HIDE DEF S
  <2> QED BY <1>1, <1>4, <1>5, EveryNatural
<1>7. Branches(c, cxs[m], s, i, m)
  BY <1>1, <1>6
<1> QED BY <1>3, <1>7 DEF Branches

(***************************************************************************)
(* Writing an item.                                                        *)
(***************************************************************************)
OpenOK(p, o) ==
  /\ o \in Seq(1..Len(p))
  /\ \A k \in 1..Len(o) : p[o[k]].around = {o[j] : j \in 1..(k - 1)}

\* The next item of a program, inside of the open ones.
Placed(f, form, o) ==
  f = [form EXCEPT !.up = IF o = <<>> THEN NoItem ELSE Last(o), !.around = ToSet(o)]

LEMMA PlacedIs ==
  ASSUME NEW form, IsForm(form), NEW p, Program(p), NEW o, OpenOK(p, o), NEW f, Placed(f, form, o)
  PROVE  /\ f \in Items /\ f.up = (IF o = <<>> THEN NoItem ELSE Last(o)) /\ f.around = ToSet(o)
         /\ f.kind = form.kind /\ f.name = form.name /\ f.path = form.path /\ f.variants = form.variants
         /\ f.generics = form.generics /\ f.trees = form.trees
         /\ (o = <<>> => f.around = {})
         /\ o # <<>> => f.up \in 1..Len(p) /\ f.around = p[f.up].around \cup {f.up}
<1>1. form \in Items /\ o \in Seq(1..Len(p)) /\ Len(p) \in Nat /\ Len(o) \in Nat
  BY DEF IsForm, OpenOK, Program
<1>2. o # <<>> => Len(o) \in 1..Len(o) /\ Last(o) = o[Len(o)] /\ Last(o) \in 1..Len(p)
  BY <1>1 DEF Last
<1>3. ToSet(o) = {o[j] : j \in 1..Len(o)}
  BY <1>1 DEF ToSet
<1>4. ToSet(o) \in SUBSET Nat
  BY <1>1, <1>3
<1> DEFINE u == IF o = <<>> THEN NoItem ELSE Last(o)
<1>5. u \in Nat
  BY <1>1, <1>2 DEF NoItem
<1>6. f = [form EXCEPT !.up = u, !.around = ToSet(o)]
  BY DEF Placed
<1> HIDE DEF u
<1>7. /\ f \in Items /\ f.up = u /\ f.around = ToSet(o)
      /\ f.kind = form.kind /\ f.name = form.name /\ f.path = form.path /\ f.variants = form.variants
      /\ f.generics = form.generics /\ f.trees = form.trees
  BY <1>1, <1>4, <1>5, <1>6 DEF Items
<1>8. o = <<>> => ToSet(o) = {}
  BY <1>3
<1>9. ASSUME o # <<>> PROVE u \in 1..Len(p) /\ ToSet(o) = p[u].around \cup {u}
  <2>1. u = o[Len(o)] /\ u \in 1..Len(p) /\ Len(o) \in 1..Len(o)
    BY <1>2, <1>9 DEF u
  <2>2. p[u].around = {o[j] : j \in 1..(Len(o) - 1)}
    BY <2>1 DEF OpenOK
  <2>3. 1..Len(o) = (1..(Len(o) - 1)) \cup {Len(o)}
    BY <1>1, <2>1
  <2> QED BY <1>3, <2>1, <2>2, <2>3
<1> QED BY <1>7, <1>8, <1>9 DEF u

LEMMA ProgramGrows ==
  ASSUME NEW form, IsForm(form), NEW p, Program(p), NEW o, OpenOK(p, o), NEW f, Placed(f, form, o),
         Len(p) < MaxItems, o # <<>> => MayHold(p[f.up].kind, f.kind)
  PROVE  LET q == Append(p, f)
         IN  /\ Program(q) /\ Len(q) = Len(p) + 1 /\ q[Len(p) + 1] = f
             /\ \A j \in 1..Len(p) : q[j] = p[j]
             /\ OpenOK(q, Append(o, Len(p) + 1))
<1> DEFINE q == Append(p, f)
           n == Len(p) + 1
<1>1. p \in Seq(Items) /\ Len(p) \in Nat /\ MaxItems \in Nat /\ o \in Seq(1..Len(p)) /\ Len(o) \in Nat
  BY NamesAssumption DEF Program, OpenOK
<1>2. /\ f \in Items /\ f.up = (IF o = <<>> THEN NoItem ELSE Last(o)) /\ f.around = ToSet(o)
      /\ f.kind = form.kind /\ f.name = form.name /\ f.path = form.path /\ f.variants = form.variants
      /\ f.generics = form.generics /\ f.trees = form.trees
      /\ (o = <<>> => f.around = {})
      /\ o # <<>> => f.up \in 1..Len(p) /\ f.around = p[f.up].around \cup {f.up}
  BY PlacedIs
<1>3. q \in Seq(Items) /\ Len(q) = n /\ q[n] = f /\ \A j \in 1..Len(p) : q[j] = p[j]
  BY <1>1, <1>2
<1> HIDE DEF q
<1>4. ASSUME NEW j \in 1..Len(p) PROVE ItemOK(q, j)
  <2>1. ItemOK(p, j) /\ q[j] = p[j] /\ (p[j].up # NoItem => p[j].up \in 1..Len(p))
    BY <1>3, ProgramIs
  <2> QED BY <1>3, <2>1 DEF ItemOK
<1>5. ItemOK(q, n)
  <2>1. f.kind \in Kinds
    BY <1>2 DEF Items
  <2>2. f.kind \notin {"impl", "use"} => NamedItem(f)
    <3>1. f.kind \notin {"impl", "use"} => f.kind \in NamedKinds
      BY <2>1 DEF Kinds, NamedKinds
    <3> QED BY <1>2, <3>1 DEF IsForm, NamedItem
  <2>3. /\ f.kind = "impl" => f.path # <<>>
        /\ f.kind # "enum" => f.variants = <<>>
        /\ \A k \in DOMAIN f.trees : f.trees[k].path # <<>> /\ f.trees[k].group < k
    BY <1>2 DEF IsForm
  <2>4. f.up < n /\ (f.up # NoItem => o # <<>>)
    <3>1. CASE o = <<>>
      BY <1>1, <1>2, <3>1 DEF NoItem
    <3>2. CASE o # <<>>
      <4>1. f.up \in 1..Len(p)
        BY <1>2, <3>2
      <4> QED BY <1>1, <3>2, <4>1
    <3> QED BY <3>1, <3>2
  <2>5. f.up = NoItem => o = <<>>
    BY <1>2 DEF NoItem
  <2>6. f.up # NoItem => q[f.up] = p[f.up]
    BY <1>2, <1>3, <2>4
  <2> QED BY <1>2, <1>3, <2>2, <2>3, <2>4, <2>5, <2>6 DEF ItemOK
<1>6. Program(q)
  <2>1. n <= MaxItems
    BY <1>1
  <2>2. \A j \in 1..n : j \in 1..Len(p) \/ j = n
    BY <1>1
  <2> QED BY <1>3, <1>4, <1>5, <2>1, <2>2 DEF Program
<1>7. OpenOK(q, Append(o, n))
  <2> DEFINE r == Append(o, n)
  <2>1. r \in Seq(1..n) /\ Len(r) = Len(o) + 1 /\ r[Len(o) + 1] = n /\ \A k \in 1..Len(o) : r[k] = o[k]
    <3>1. o \in Seq(1..n) /\ n \in 1..n
      BY <1>1
    <3> QED BY <1>1, <3>1
  <2> HIDE DEF r
  <2>2. ASSUME NEW k \in 1..Len(r) PROVE q[r[k]].around = {r[j] : j \in 1..(k - 1)}
    <3>0. \A j \in 1..(k - 1) : r[j] = o[j]
      BY <1>1, <2>1
    <3>1. {r[j] : j \in 1..(k - 1)} = {o[j] : j \in 1..(k - 1)}
      BY <3>0
    <3>2. CASE k = Len(o) + 1
      <4>1. ToSet(o) = {o[j] : j \in 1..Len(o)}
        BY <1>1 DEF ToSet
      <4>2. k - 1 = Len(o)
        BY <1>1, <3>2
      <4>3. q[r[k]].around = ToSet(o)
        BY <1>2, <1>3, <2>1, <3>2
      <4> QED BY <3>1, <4>1, <4>2, <4>3
    <3>3. CASE k # Len(o) + 1
      <4>1. k \in 1..Len(o)
        BY <1>1, <2>1, <3>3
      <4>2. o[k] \in 1..Len(p) /\ p[o[k]].around = {o[j] : j \in 1..(k - 1)}
        <5>1. o \in Seq(1..Len(p))
          BY <1>1 DEF OpenOK
        <5>2. o[k] \in 1..Len(p)
          BY <4>1, <5>1
        <5> QED BY <4>1, <5>2 DEF OpenOK
      <4>3. q[r[k]].around = p[o[k]].around
        BY <1>3, <2>1, <4>1, <4>2
      <4> QED BY <3>1, <4>2, <4>3
    <3> QED BY <3>2, <3>3
  <2> QED BY <1>3, <2>1, <2>2 DEF OpenOK, r
<1> QED BY <1>3, <1>6, <1>7 DEF q

\* A program with another item at its end.
Extends(p, q) ==
  /\ Program(p) /\ Program(q) /\ Len(q) = Len(p) + 1 /\ \A j \in 1..Len(p) : q[j] = p[j]

LEMMA SameAbove ==
  ASSUME NEW p, NEW q, Extends(p, q)
  PROVE  \A j \in 1..Len(p) : Above(q, j) = Above(p, j)
<1> SUFFICES ASSUME NEW j \in 1..Len(p) PROVE Above(q, j) = Above(p, j)
  OBVIOUS
<1>1. Program(p) /\ q[j] = p[j] /\ Len(p) \in Nat
  BY DEF Extends, Program
<1>2. p[j].around \subseteq 1..(j - 1)
  BY <1>1, AroundIsEarlier
<1>3. \A a \in p[j].around : a \in 1..Len(p)
  BY <1>1, <1>2
<1>4. Over(q, j) = Over(p, j)
  BY <1>1, <1>3 DEF Over, Extends
<1> QED BY <1>4 DEF Above

LEMMA BooksGrow ==
  ASSUME NEW p, NEW q, Extends(p, q), NEW c, Books(p, c, NoItem, Len(p))
  PROVE  Books(q, c, NoItem, Len(p))
<1> DEFINE n == Len(p)
<1>1. /\ Program(p) /\ Program(q) /\ n \in Nat /\ Len(q) = n + 1 /\ \A j \in 1..n : q[j] = p[j]
      /\ Record(p, c) /\ Contents(p, c, NoItem, n) /\ Resolving(p, c, NoItem, n) /\ OwnsOfItems(p, c)
  BY DEF Extends, Program, Books, Record
<1>2. \A j \in Ids : Has(c, j) => j \in 1..n /\ q[j] = p[j] /\ j \in 1..(n + 1)
  BY <1>1 DEF OwnsOfItems
<1>3. \A j \in 1..n : p[j].up \in 0..(j - 1) /\ (p[j].up # NoItem => p[j].up \in 1..n /\ q[p[j].up] = p[p[j].up])
  BY <1>1, ProgramIs
<1>4. OwnsOfItems(q, c)
  BY <1>1, <1>2 DEF OwnsOfItems
<1>5. \A j \in Ids : Has(c, j) /\ q[j].kind \in NamedKinds => ItsOwn(q, c, j)
  BY <1>1, <1>2 DEF Record, ItsOwn
<1>6. \A x \in 1..Len(c.defs) : Known(q, c, x)
  <2> SUFFICES ASSUME NEW x \in 1..Len(c.defs) PROVE Known(q, c, x)
    OBVIOUS
  <2>1. Known(p, c, x)
    BY <1>1 DEF Record
  <2>2. c.defs[x].item \in 1..n => c.defs[x].item \in 1..(n + 1) /\ q[c.defs[x].item] = p[c.defs[x].item]
    BY <1>1
  <2> QED BY <1>1, <2>1, <2>2 DEF Known
<1>7. \A j \in Ids : Has(c, j) => (Said(c, j) <=> RepeatsIn(q, j))
  <2> SUFFICES ASSUME NEW j \in Ids, Has(c, j) PROVE RepeatsIn(q, j) <=> RepeatsIn(p, j)
    BY <1>1 DEF Record
  <2>1. j \in 1..n /\ q[j] = p[j] /\ \A k \in 1..(j - 1) : q[k] = p[k]
    BY <1>1, <1>2
  <2>2. p[j].up # 0 => q[p[j].up] = p[p[j].up]
    BY <1>3, <2>1 DEF NoItem
  <2> QED BY <2>1, <2>2 DEF RepeatsIn
<1>8. Clean(c) => \A j \in Ids : Has(c, j) /\ q[j].kind \in NamedKinds => EntriesOwn(q, c, j)
  BY <1>1, <1>2 DEF Record, EntriesOwn
<1>9. Record(q, c)
  BY <1>1, <1>4, <1>5, <1>6, <1>7, <1>8 DEF Record
<1>10. \A j \in 1..n : Mine(q, NoItem, j) <=> Mine(p, NoItem, j)
  BY <1>1, SameAbove DEF Mine
<1>11. Contents(q, c, NoItem, n)
  <2> SUFFICES ASSUME NEW o \in 0..Len(q), Owner(q, NoItem, n, o), NEW e \in Entries
               PROVE  Held(c, Around(c, o), e) <=> Given(q, o, n, e)
    BY DEF Contents
  <2>1. o \in 0..n /\ Owner(p, NoItem, n, o)
    BY <1>1, <1>10 DEF Owner, NoItem
  <2>2. o # NoItem => q[o] = p[o]
    BY <1>1, <2>1 DEF NoItem
  <2>3. Given(q, o, n, e) <=> Given(p, o, n, e)
    BY <1>1, <2>2 DEF Given
  <2> QED BY <1>1, <2>1, <2>3 DEF Contents
<1>12. Resolving(q, c, NoItem, n)
  <2> SUFFICES ASSUME NEW j \in 1..Len(q), Mine(q, NoItem, j) PROVE Has(c, j) <=> j <= n
    BY DEF Resolving
  <2>1. CASE j \in 1..n
    BY <1>1, <1>10, <2>1 DEF Resolving
  <2>2. CASE j = n + 1
    <3>1. j \in Ids
      BY <1>1, ProgramIs
    <3> QED BY <1>1, <1>2, <2>2, <3>1
  <2> QED BY <1>1, <2>1, <2>2
<1> QED BY <1>9, <1>11, <1>12 DEF Books

(***************************************************************************)
(* The invariant.                                                          *)
(***************************************************************************)
\* What is not in an impl is resolved, and what is in one once that is opened.
Settled(p, c) ==
  \A j \in 1..Len(p) :
    p[j].kind \in NamedKinds => (Has(c, j) <=> (Above(p, j) = NoItem \/ Has(c, Above(p, j))))

\* No impl is opened before the walk comes to it.
ToCome(p, c, n) == \A j \in 1..Len(p) : p[j].kind = "impl" /\ j >= n => ~Has(c, j)

\* Only what is resolved is entered, and an open impl knows its Self.
Entered(c) == \A j \in Ids : c.at[j] # NoScope => Has(c, j)
SelfThere(p, c) ==
  \A j \in 1..Len(p) : p[j].kind = "impl" /\ Has(c, j) => Held(c, c.own[j], <<SELF_TYPE, "types">>)

ImplsOpened(p, c, l) ==
  l \in Seq(1..Len(p)) /\ \A k \in 1..Len(l) : p[l[k]].kind = "impl" /\ Has(c, l[k])

WalkInv ==
  /\ Program(prog) /\ OpenOK(prog, open) /\ Record(prog, cx)
  /\ Settled(prog, cx) /\ Entered(cx) /\ SelfThere(prog, cx) /\ ImplsOpened(prog, cx, impls)
  /\ next \in Nat /\ next >= 1 /\ pass \in {"resolve", "lower", "collect", "check", "done"}
  /\ pass \in {"resolve", "lower"} => ToCome(prog, cx, next)
  /\ pass = "resolve" => Books(prog, cx, NoItem, Len(prog)) /\ next = 1 /\ impls = <<>>

LEMMA FirstArena ==
  ASSUME Init
  PROVE  Arena(cx) /\ Len(cx.scopes) = 1 /\ Len(cx.defs) = 0 /\ \A e \in Entries : ~Held(cx, Root, e)
<1>1. /\ cx.scopes = <<[parent |-> NoScope, entries |-> NoEntries]>> /\ cx.defs = <<>> /\ cx.impls = <<>>
      /\ cx.own = [i \in 1..MaxItems |-> NoScope] /\ cx.def = [i \in 1..MaxItems |-> NoDef]
      /\ cx.at = [i \in 1..MaxItems |-> NoScope]
  BY DEF Init
<1>2. [parent |-> NoScope, entries |-> NoEntries] \in ScopeRecords
  BY DEF ScopeRecords, NoEntries, NoScope, NoDef
<1>3. cx \in Contexts
  <2>1. <<[parent |-> NoScope, entries |-> NoEntries]>> \in Seq(ScopeRecords)
    BY <1>2
  <2> HIDE DEF ScopeRecords
  <2> QED BY <2>1 DEF Init, Contexts, Ids, NoScope, NoDef
<1>4. /\ Len(cx.scopes) = 1 /\ cx.scopes[1] = [parent |-> NoScope, entries |-> NoEntries] /\ Len(cx.defs) = 0
      /\ Len(cx.impls) = 0
  BY <1>1
<1>5. ASSUME NEW s \in 1..Len(cx.scopes) PROVE ScopeOK(cx, s)
  <2>1. s = 1
    BY <1>4
  <2>2. cx.scopes[s].parent = 0 /\ cx.scopes[s].entries = [e \in Entries |-> 0]
    BY <1>4, <2>1 DEF NoScope, NoEntries, NoDef
  <2> QED BY <1>4, <2>1, <2>2 DEF ScopeOK, NoDef
<1>6. \A i \in Ids : cx.own[i] <= Len(cx.scopes) /\ cx.at[i] <= Len(cx.scopes) /\ cx.def[i] <= Len(cx.defs)
  BY <1>1, <1>4 DEF Ids, NoScope, NoDef
<1>7. Arena(cx)
  BY <1>3, <1>4, <1>5, <1>6 DEF Arena
<1>8. \A e \in Entries : ~Held(cx, Root, e)
  BY <1>4 DEF Held, Root, NoEntries
<1> QED BY <1>4, <1>7, <1>8

LEMMA FirstWalk ==
  ASSUME Init
  PROVE  WalkInv
<1>1. /\ prog = <<>> /\ open = <<>> /\ pass = "resolve" /\ next = 1 /\ impls = <<>> /\ cx.diags = {}
      /\ \A j \in Ids : ~Has(cx, j) /\ cx.own[j] # Root /\ cx.at[j] = NoScope
  BY DEF Init, Ids, Has, Root, NoScope
<1>2. Len(prog) = 0 /\ 1..Len(prog) = {}
  BY <1>1
<1>3. Program(prog)
  BY <1>1, <1>2, NamesAssumption DEF Program
<1>4. OpenOK(prog, open) /\ ImplsOpened(prog, cx, impls)
  BY <1>1 DEF OpenOK, ImplsOpened
<1>5. Arena(cx) /\ Len(cx.scopes) = 1 /\ Len(cx.defs) = 0 /\ \A e \in Entries : ~Held(cx, Root, e)
  BY FirstArena
<1>6. Record(prog, cx)
  <2>1. OwnsApart(cx) /\ OwnsOfItems(prog, cx)
    BY <1>1 DEF OwnsApart, OwnsOfItems
  <2>2. \A x \in 1..Len(cx.defs) : Known(prog, cx, x)
    BY <1>5
  <2>3. \A j : ~Said(cx, j)
    BY <1>1 DEF Said
  <2> QED BY <1>1, <1>5, <2>1, <2>2, <2>3 DEF Record
<1>7. Contents(prog, cx, NoItem, 0)
  <2> SUFFICES ASSUME NEW o \in 0..0, NEW e \in Entries
               PROVE  Held(cx, Around(cx, o), e) <=> Given(prog, o, 0, e)
    BY <1>2 DEF Contents
  <2>1. o = NoItem
    BY DEF NoItem
  <2> QED BY <1>5, <2>1 DEF Given, Around
<1>8. Resolving(prog, cx, NoItem, 0)
  BY <1>2 DEF Resolving
<1>9. Books(prog, cx, NoItem, Len(prog))
  BY <1>2, <1>6, <1>7, <1>8 DEF Books
<1>10. Settled(prog, cx) /\ Entered(cx) /\ SelfThere(prog, cx) /\ ToCome(prog, cx, next)
  BY <1>1, <1>2 DEF Settled, Entered, SelfThere, ToCome
<1> QED BY <1>1, <1>3, <1>4, <1>6, <1>9, <1>10 DEF WalkInv

\* Resolving one more item: who has a scope.
LEMMA ResolvedHas ==
  ASSUME NEW c, Arena(c), NEW d, NEW s, NEW i \in Ids, NEW f, Resolved(c, d, s, i, f)
  PROVE  Has(d, i) /\ \A j \in Ids : j # i => (Has(d, j) <=> Has(c, j)) /\ d.own[j] = c.own[j]
<1>1. PICK k \in Nat : ResolvedAs(c, d, s, i, f, k)
  BY DEF Resolved
<1>2. c.own \in [Ids -> Nat] /\ Inner(c) # NoScope
  BY Sizes DEF Arena, Contexts, Inner, NoScope
<1>3. d.own = [c.own EXCEPT ![i] = Inner(c)]
  BY <1>1 DEF ResolvedAs, Owns
<1> QED BY <1>2, <1>3 DEF Has

WrittenAs(c, d) == d = c \/ \E s, i, f : Resolved(c, d, s, i, f)

LEMMA WriteIs ==
  ASSUME WalkInv, NEW forms \in Forms, NEW form \in forms.items, Write(form)
  PROVE  WalkInv' /\ WrittenAs(cx, cx')
<1> DEFINE f == [form EXCEPT !.up = IF open = <<>> THEN NoItem ELSE Last(open), !.around = ToSet(open)]
           i == Len(prog) + 1
           hidden == \E a \in f.around : prog[a].kind = "impl"
<1>1. /\ pass = "resolve" /\ Len(prog) < MaxItems /\ (open # <<>> => MayHold(prog[f.up].kind, f.kind))
      /\ prog' = Append(prog, f) /\ open' = Append(open, i)
      /\ cx' = (IF hidden THEN cx ELSE ResolveItem(cx, i, f)) /\ pass' = pass /\ next' = next /\ impls' = impls
  BY DEF Write
<1>2. Placed(f, form, open)
  BY DEF Placed
<1> HIDE DEF f
<1>3. /\ Program(prog) /\ OpenOK(prog, open) /\ Record(prog, cx) /\ Books(prog, cx, NoItem, Len(prog)) /\ next = 1
      /\ impls = <<>> /\ Settled(prog, cx) /\ Entered(cx) /\ ToCome(prog, cx, 1) /\ Arena(cx) /\ OwnsOfItems(prog, cx)
      /\ Len(prog) \in Nat
  BY <1>1 DEF WalkInv, Record, Program
<1>4. IsForm(form)
  BY FormsAssumption
<1>5. /\ Program(prog') /\ Len(prog') = i /\ prog'[i] = f /\ (\A j \in 1..Len(prog) : prog'[j] = prog[j])
      /\ OpenOK(prog', open')
  BY <1>1, <1>2, <1>3, <1>4, ProgramGrows
<1>6. Extends(prog, prog')
  BY <1>3, <1>5 DEF Extends
<1>7. Books(prog', cx, NoItem, Len(prog))
  BY <1>3, <1>6, BooksGrow
<1>8. i \in Nat /\ i \in 1..Len(prog') /\ i \in Ids
  <2>1. i \in Nat /\ i \in 1..Len(prog')
    BY <1>3, <1>5
  <2> QED BY <1>5, <2>1, ProgramIs
<1>9. hidden <=> Above(prog', i) # NoItem
  <2>1. (\E a \in f.around : prog'[a].kind = "impl") <=> Above(prog', i) # NoItem
    BY <1>5, <1>8, AboveIs
  <2>2. f.around \subseteq 1..Len(prog)
    <3>1. f.around \subseteq 1..(i - 1)
      BY <1>5, <1>8, AroundIsEarlier
    <3> QED BY <1>3, <3>1
  <2> QED BY <1>5, <2>1, <2>2
<1> HIDE DEF hidden
<1>10. ~Has(cx, i)
  BY <1>3, <1>8 DEF OwnsOfItems
<1>11. /\ Books(prog', cx', NoItem, i) /\ cx'.at = cx.at
       /\ \A j \in Ids : j # i => (Has(cx', j) <=> Has(cx, j))
       /\ (Has(cx', i) <=> Mine(prog', NoItem, i)) /\ WrittenAs(cx, cx')
  <2>1. CASE Mine(prog', NoItem, i)
    <3>1. cx' = ResolveItem(cx, i, prog'[i])
      BY <1>1, <1>5, <1>9, <2>1 DEF Mine
    <3>2. Books(prog', cx', NoItem, i) /\ Resolved(cx, cx', Around(cx, prog'[i].up), i, prog'[i])
      BY <1>3, <1>5, <1>7, <2>1, <3>1, ResolveStep
    <3>3. cx'.at = cx.at
      BY <3>2 DEF Resolved, SameRest
    <3>4. Has(cx', i) /\ \A j \in Ids : j # i => (Has(cx', j) <=> Has(cx, j))
      BY <1>3, <1>8, <3>2, ResolvedHas
    <3>5. WrittenAs(cx, cx')
      BY <3>2 DEF WrittenAs
    <3> QED BY <2>1, <3>2, <3>3, <3>4, <3>5
  <2>2. CASE ~Mine(prog', NoItem, i)
    <3>1. cx' = cx
      <4>1. CASE hidden
        BY <1>1, <4>1
      <4>2. CASE ~hidden
        <5>1. f.kind \notin NamedKinds
          BY <1>5, <1>9, <2>2, <4>2 DEF Mine
        <5> QED BY <1>1, <4>2, <5>1 DEF NamedKinds, ResolveItem
      <4> QED BY <4>1, <4>2
    <3>2. Books(prog', cx, NoItem, i)
      BY <1>3, <1>5, <1>7, <2>2, PassedBy
    <3>3. WrittenAs(cx, cx')
      BY <3>1 DEF WrittenAs
    <3> QED BY <1>10, <2>2, <3>1, <3>2, <3>3
  <2> QED BY <2>1, <2>2
<1>12. \A j \in 1..i : j \in 1..Len(prog) \/ j = i
  BY <1>3
<1>13. \A j \in Ids : Has(cx, j) => Has(cx', j)
  BY <1>10, <1>11
<1>14. ToCome(prog', cx', 1)
  <2> SUFFICES ASSUME NEW j \in 1..i, prog'[j].kind = "impl" PROVE ~Has(cx', j)
    BY <1>5 DEF ToCome
  <2>1. CASE j = i
    BY <1>11, <2>1 DEF Mine, NamedKinds
  <2>2. CASE j # i
    <3>1. j \in 1..Len(prog) /\ j \in Ids /\ prog[j].kind = "impl" /\ j >= 1
      BY <1>3, <1>5, <1>12, <2>2, ProgramIs
    <3> QED BY <1>3, <1>11, <2>2, <3>1 DEF ToCome
  <2> QED BY <2>1, <2>2
<1>15. Settled(prog', cx')
  <2> SUFFICES ASSUME NEW j \in 1..i, prog'[j].kind \in NamedKinds
               PROVE  Has(cx', j) <=> (Above(prog', j) = NoItem \/ Has(cx', Above(prog', j)))
    BY <1>5 DEF Settled
  <2> DEFINE a == Above(prog', j)
  <2>1. a # NoItem => a \in 1..(j - 1) /\ prog'[a].kind = "impl"
    BY <1>5, AboveIs
  <2>2. a # NoItem => ~Has(cx', a)
    <3>1. a # NoItem => a \in 1..Len(prog') /\ a >= 1
      BY <1>5, <2>1
    <3> QED BY <1>14, <2>1, <3>1 DEF ToCome
  <2>3. CASE j = i
    BY <1>11, <2>2, <2>3 DEF Mine
  <2>4. CASE j # i
    <3>1. j \in 1..Len(prog) /\ j \in Ids /\ prog[j].kind \in NamedKinds
      BY <1>3, <1>5, <1>12, <2>4, ProgramIs
    <3>2. a = Above(prog, j)
      BY <1>6, <3>1, SameAbove
    <3>3. a # NoItem => ~Has(cx, a)
      <4>1. a # NoItem => a \in Ids
        BY <1>5, <2>1, ProgramIs
      <4> QED BY <1>13, <2>2, <4>1
    <3> HIDE DEF a
    <3>4. Has(cx, j) <=> (a = NoItem \/ Has(cx, a))
      BY <1>3, <3>1, <3>2 DEF Settled
    <3>5. Has(cx', j) <=> Has(cx, j)
      BY <1>11, <2>4, <3>1
    <3> QED BY <2>2, <3>3, <3>4, <3>5 DEF a
  <2> QED BY <2>3, <2>4
<1>16. Entered(cx')
  BY <1>3, <1>11, <1>13 DEF Entered
<1>17. SelfThere(prog', cx')
  <2>1. \A j \in 1..Len(prog') : j >= 1
    BY <1>5
  <2> QED BY <1>14, <2>1 DEF SelfThere, ToCome
<1>18. ImplsOpened(prog', cx', impls')
  BY <1>1, <1>3 DEF ImplsOpened
<1>19. Record(prog', cx')
  BY <1>11 DEF Books
<1> QED BY <1>1, <1>3, <1>5, <1>11, <1>14, <1>15, <1>16, <1>17, <1>18, <1>19 DEF WalkInv

LEMMA WalkKept ==
  ASSUME WalkInv, pass # "resolve", prog' = prog, open' = open, Arena(cx'), Keeps(prog, cx, cx', NoItem),
         SameOwn(cx, cx'), HeldStays(cx, cx'), Entered(cx'), next' \in Nat, next' >= 1, ImplsOpened(prog, cx', impls'),
         pass' \in {"lower", "collect", "check", "done"},
         pass' = "lower" => pass = "lower" /\ next' >= next
  PROVE  WalkInv'
<1>1. /\ Program(prog) /\ OpenOK(prog, open) /\ Record(prog, cx) /\ Settled(prog, cx) /\ SelfThere(prog, cx)
      /\ next \in Nat /\ (pass = "lower" => ToCome(prog, cx, next))
  BY DEF WalkInv
<1>2. Record(prog, cx')
  BY <1>1, RecordKept
<1>3. Settled(prog, cx') /\ (pass' = "lower" => ToCome(prog, cx', next'))
  <2>1. \A j : Has(cx', j) <=> Has(cx, j)
    BY DEF SameOwn, Has
  <2>2. Len(prog) \in Nat
    BY <1>1 DEF Program
  <2> QED BY <1>1, <2>1, <2>2 DEF Settled, ToCome
<1>4. SelfThere(prog, cx')
  <2> SUFFICES ASSUME NEW j \in 1..Len(prog), prog[j].kind = "impl", Has(cx', j)
               PROVE  Held(cx', cx'.own[j], <<SELF_TYPE, "types">>)
    BY DEF SelfThere
  <2>1. Has(cx, j) /\ cx'.own[j] = cx.own[j]
    BY DEF SameOwn, Has
  <2>2. Held(cx, cx.own[j], <<SELF_TYPE, "types">>)
    BY <1>1, <2>1 DEF SelfThere
  <2>3. cx.own[j] \in 1..Len(cx.scopes)
    <3>1. Arena(cx) /\ j \in Ids
      BY <1>1, ProgramIs DEF Record
    <3>2. cx.own[j] \in Nat /\ cx.own[j] <= Len(cx.scopes) /\ Len(cx.scopes) \in Nat
      BY <3>1, Sizes DEF Arena, Contexts
    <3> QED BY <2>1, <3>2 DEF Has, NoScope
  <2>4. <<SELF_TYPE, "types">> \in Entries
    BY DEF Entries, Spaces
  <2> QED BY <2>1, <2>2, <2>3, <2>4 DEF HeldStays
<1> QED BY <1>1, <1>2, <1>3, <1>4 DEF WalkInv

(* Where the walk looks, and what it may find there.                           *)
LEMMA HereIs ==
  ASSUME WalkInv, NEW i \in 1..Len(prog)
  PROVE  /\ i \in Ids /\ ItemOK(prog, i) /\ Arena(cx) /\ Here(cx, i) \in 0..Len(cx.scopes)
         /\ Here(cx, i) # NoScope => /\ Here(cx, i) \in 1..Len(cx.scopes)
                                     /\ prog[i].up # NoItem => Has(cx, prog[i].up)
                                     /\ prog[i].kind \in NamedKinds => Has(cx, i)
<1> DEFINE u == prog[i].up
           s == Here(cx, i)
<1>1. /\ Program(prog) /\ Record(prog, cx) /\ Arena(cx) /\ Settled(prog, cx) /\ Entered(cx)
  BY DEF WalkInv, Record
<1>2. i \in Ids /\ ItemOK(prog, i) /\ (u # NoItem => u \in 1..Len(prog) /\ u \in Ids)
  BY <1>1, ProgramIs
<1>3. cx.at \in [Ids -> Nat] /\ Len(cx.scopes) \in Nat /\ Len(cx.scopes) >= 1
  BY <1>1, Sizes DEF Arena, Contexts
<1>4. s = IF u = NoItem THEN Root ELSE cx.at[u]
  BY DEF Here, NoItem
<1> HIDE DEF s
<1>5. s \in 0..Len(cx.scopes)
  <2>1. CASE u = NoItem
    BY <1>3, <1>4, <2>1 DEF Root
  <2>2. CASE u # NoItem
    <3>1. cx.at[u] \in Nat /\ cx.at[u] <= Len(cx.scopes)
      BY <1>1, <1>2, <1>3, <2>2 DEF Arena
    <3> QED BY <1>3, <1>4, <2>2, <3>1
  <2> QED BY <2>1, <2>2
<1>6. ASSUME s # NoScope, u # NoItem PROVE Has(cx, u)
  BY <1>1, <1>2, <1>4, <1>6 DEF Entered
<1>7. ASSUME s # NoScope, prog[i].kind \in NamedKinds PROVE Has(cx, i)
  <2>1. CASE u = NoItem
    BY <1>1, <1>7, <2>1, AboveIs DEF Settled
  <2>2. CASE u # NoItem
    <3>1. Above(prog, i) = (IF prog[u].kind = "impl" THEN u ELSE Above(prog, u)) /\ Has(cx, u) /\ u \in 1..Len(prog)
      BY <1>1, <1>2, <1>6, <1>7, <2>2, AboveIs
    <3>2. CASE prog[u].kind = "impl"
      BY <1>1, <1>7, <3>1, <3>2 DEF Settled
    <3>3. CASE prog[u].kind # "impl"
      <4>1. prog[u].kind \in NamedKinds
        BY <1>2, <2>2, <3>3 DEF ItemOK, MayHold, NamedKinds
      <4>2. Above(prog, u) = NoItem \/ Has(cx, Above(prog, u))
        BY <1>1, <3>1, <4>1 DEF Settled
      <4> QED BY <1>1, <1>7, <3>1, <3>3, <4>2 DEF Settled
    <3> QED BY <3>2, <3>3
  <2> QED BY <2>1, <2>2
<1>8. s # NoScope => s \in 1..Len(cx.scopes)
  BY <1>3, <1>5 DEF NoScope
<1> QED BY <1>1, <1>2, <1>5, <1>6, <1>7, <1>8 DEF s

LEMMA RetouchHeld ==
  ASSUME NEW c, NEW d, d.scopes = c.scopes
  PROVE  HeldStays(c, d)
BY DEF HeldStays, Held

(* Lowering an item that was looked for in a scope.                            *)
LEMMA LowerNamedItemIs ==
  ASSUME NEW c, Arena(c), NEW s \in 0..Len(c.scopes), NEW i \in Ids, NEW f, NamedItem(f)
  PROVE  Lowered(c, LowerItem(c, s, i, f), s, i, f)
<1>1. f.kind \in NamedKinds
  BY DEF NamedItem
<1>2. CASE f.kind = "fn"
  <2>1. LowerItem(c, s, i, f) = LowerFn(c, s, i, f)
    BY <1>2 DEF LowerItem
  <2> QED BY <1>2, <2>1, LowerFnIs
<1>3. CASE f.kind = "alias"
  <2>1. LowerItem(c, s, i, f) = LowerTyAlias(c, s, i, f)
    BY <1>3 DEF LowerItem
  <2> QED BY <1>3, <2>1, LowerTyAliasIs
<1>4. CASE f.kind \notin {"fn", "alias"}
  <2>1. LowerItem(c, s, i, f) = LowerNamed(c, s, i, f)
    BY <1>1, <1>4 DEF LowerItem, NamedKinds
  <2> QED BY <1>4, <2>1, LowerNamedIs
<1> QED BY <1>2, <1>3, <1>4

LEMMA LoweredEntered ==
  ASSUME NEW c, Arena(c), Entered(c), NEW d, NEW s, NEW i \in Ids, NEW f, Lowered(c, d, s, i, f), Has(c, i)
  PROVE  Entered(d)
<1>1. c.at \in [Ids -> Nat] /\ \A j : Has(d, j) <=> Has(c, j)
  BY DEF Arena, Contexts, Lowered, Retouch, SameOwn, Has
<1>2. \A j \in Ids : j # i => d.at[j] = c.at[j]
  BY <1>1 DEF Lowered, Filled, SameWalk
<1> QED BY <1>1, <1>2 DEF Entered

LEMMA LowerNextIs ==
  ASSUME WalkInv, Lower
  PROVE  WalkInv'
<1> DEFINE i == next
           s == Here(cx, i)
           f == prog[i]
<1>1. /\ pass = "lower" /\ next <= Len(prog) /\ prog' = prog /\ open' = open /\ pass' = pass /\ next' = next + 1
      /\ cx' = (IF s = NoScope THEN cx ELSE LowerItem(cx, s, i, f))
      /\ impls' = (IF f.kind = "impl" /\ s # NoScope THEN Append(impls, i) ELSE impls)
  BY DEF Lower
<1>2. /\ Program(prog) /\ OpenOK(prog, open) /\ Record(prog, cx) /\ Settled(prog, cx) /\ Entered(cx)
      /\ SelfThere(prog, cx) /\ ImplsOpened(prog, cx, impls) /\ next \in Nat /\ next >= 1 /\ ToCome(prog, cx, next)
  BY <1>1 DEF WalkInv
<1>3. i \in 1..Len(prog) /\ Len(prog) \in Nat
  <2>1. Len(prog) \in Nat
    BY <1>2 DEF Program
  <2> QED BY <1>1, <1>2, <2>1
<1>4. /\ i \in Ids /\ ItemOK(prog, i) /\ Arena(cx) /\ s \in 0..Len(cx.scopes)
      /\ s # NoScope => /\ s \in 1..Len(cx.scopes) /\ (f.up # NoItem => Has(cx, f.up))
                        /\ f.kind \in NamedKinds => Has(cx, i)
  BY <1>3, HereIs
<1>5. f.kind \in NamedKinds \cup {"impl", "use"} /\ f \in Items
  BY <1>2, <1>3, ProgramIs
<1>6. next' \in Nat /\ next' >= 1 /\ next' >= next
  BY <1>1, <1>2
<1> HIDE DEF s
<1>7. CASE s = NoScope
  <2>1. cx' = cx /\ impls' = impls
    BY <1>1, <1>7
  <2>2. Retouch(cx, cx) /\ HeldStays(cx, cx)
    BY <1>4, UntouchedIs, RetouchHeld DEF Untouched, SameReports
  <2>3. Keeps(prog, cx, cx, NoItem) /\ SameOwn(cx, cx)
    BY <1>4, <2>2, RetouchKeeps DEF SameOwn
  <2> QED BY <1>1, <1>2, <1>4, <1>6, <2>1, <2>2, <2>3, WalkKept
<1>8. CASE s # NoScope /\ f.kind \in NamedKinds
  <2>1. NamedItem(f) /\ cx' = LowerItem(cx, s, i, f) /\ impls' = impls /\ Has(cx, i)
    BY <1>1, <1>4, <1>8 DEF ItemOK, NamedKinds
  <2>2. Lowered(cx, cx', s, i, f)
    BY <1>4, <2>1, LowerNamedItemIs
  <2>3. Retouch(cx, cx') /\ Arena(cx') /\ cx'.scopes = cx.scopes /\ SameOwn(cx, cx')
    BY <2>2 DEF Lowered, Retouch
  <2>4. Keeps(prog, cx, cx', NoItem) /\ HeldStays(cx, cx') /\ Entered(cx')
    BY <1>2, <1>4, <2>1, <2>2, <2>3, RetouchKeeps, RetouchHeld, LoweredEntered
  <2>5. ImplsOpened(prog, cx', impls')
    BY <1>2, <2>1, <2>3 DEF ImplsOpened, SameOwn, Has
  <2> QED BY <1>1, <1>6, <2>3, <2>4, <2>5, WalkKept
<1>9. CASE s # NoScope /\ f.kind = "use"
  <2>1. cx' = LowerUse(cx, s, i, f) /\ impls' = impls
    BY <1>1, <1>9 DEF LowerItem
  <2>2. f.trees \in Seq(Trees) /\ \A n \in DOMAIN f.trees : f.trees[n].path # <<>> /\ f.trees[n].group < n
    BY <1>4, <1>5 DEF Items, ItemOK
  <2>3. Imports(cx, cx', s, i)
    BY <1>2, <1>4, <1>9, <2>1, <2>2, LowerUseIs
  <2>4. Arena(cx') /\ SameOwn(cx, cx') /\ HeldStays(cx, cx')
    BY <2>3 DEF Imports
  <2>5. Keeps(prog, cx, cx', NoItem)
    <3>1. KeepsDefs(cx, cx')
      BY <1>4, <2>3, Sizes DEF Arena, Imports, KeepsDefs, SameDef
    <3>2. KeepsOwns(prog, cx, cx', NoItem)
      BY <2>4 DEF SameOwn, KeepsOwns
    <3> QED BY <2>3, <3>1, <3>2 DEF Imports, Keeps
  <2>6. Entered(cx') /\ ImplsOpened(prog, cx', impls')
    BY <1>2, <2>1, <2>3, <2>4 DEF Imports, SameWalk, SameOwn, Has, Entered, ImplsOpened
  <2> QED BY <1>1, <1>6, <2>4, <2>5, <2>6, WalkKept
<1>10. CASE s # NoScope /\ f.kind = "impl"
  <2>1. cx' = OpenImpl(cx, s, i, f) /\ impls' = Append(impls, i)
    BY <1>1, <1>10 DEF LowerItem
  <2>2. Closed(prog, cx, i)
    <3>1. ~Has(cx, i)
      BY <1>2, <1>3, <1>10 DEF ToCome
    <3>2. \A j \in 1..Len(prog) : Mine(prog, i, j) => ~Has(cx, j)
      <4>1. i # NoItem
        BY <1>3 DEF NoItem
      <4> QED BY <1>2, <3>1, <4>1 DEF Settled, Mine
    <3> QED BY <1>3, <1>4, <1>10, <3>1, <3>2 DEF Closed
  <2>3. Record(prog, cx') /\ ImplOpened(cx, cx', i)
    BY <1>2, <1>4, <1>10, <2>1, <2>2, OpenImplIs
  <2>4. /\ \A j \in Ids : Has(cx', j) <=> (Has(cx, j) \/ j = i \/ (j \in 1..Len(prog) /\ Mine(prog, i, j)))
        /\ \A j \in Ids : Has(cx, j) => cx'.own[j] = cx.own[j]
        /\ Leaves(cx, cx', Len(cx.scopes)) /\ Held(cx', cx'.own[i], <<SELF_TYPE, "types">>)
        /\ cx'.at = [cx.at EXCEPT ![i] = Inner(cx)]
    BY <2>3 DEF ImplOpened
  <2>5. Settled(prog, cx')
    <3> SUFFICES ASSUME NEW j \in 1..Len(prog), prog[j].kind \in NamedKinds
                 PROVE  Has(cx', j) <=> (Above(prog, j) = NoItem \/ Has(cx', Above(prog, j)))
      BY DEF Settled
    <3>1. j \in Ids /\ j # i /\ (Above(prog, j) # NoItem => Above(prog, j) \in Ids /\ prog[Above(prog, j)].kind = "impl")
      <4>1. j \in Ids /\ (Above(prog, j) # NoItem => Above(prog, j) \in 1..(j - 1) /\ prog[Above(prog, j)].kind = "impl")
        BY <1>2, ProgramIs, AboveIs
      <4>2. Above(prog, j) \in 1..(j - 1) => Above(prog, j) \in 1..Len(prog)
        BY <1>3
      <4>3. Above(prog, j) \in 1..Len(prog) => Above(prog, j) \in Ids
        BY <1>2, ProgramIs
      <4> QED BY <1>10, <4>1, <4>2, <4>3 DEF NamedKinds
    <3>2. Has(cx', j) <=> (Has(cx, j) \/ Above(prog, j) = i)
      BY <2>4, <3>1 DEF Mine
    <3>3. Above(prog, j) # NoItem => (Has(cx', Above(prog, j)) <=> (Has(cx, Above(prog, j)) \/ Above(prog, j) = i))
      BY <2>4, <3>1 DEF Mine, NamedKinds
    <3>4. Has(cx, j) <=> (Above(prog, j) = NoItem \/ Has(cx, Above(prog, j)))
      BY <1>2 DEF Settled
    <3>5. i # NoItem
      BY <1>3 DEF NoItem
    <3> QED BY <3>2, <3>3, <3>4, <3>5
  <2>6. Entered(cx')
    <3>1. cx.at \in [Ids -> Nat]
      BY <1>4 DEF Arena, Contexts
    <3> QED BY <1>2, <1>4, <2>4, <3>1 DEF Entered
  <2>7. SelfThere(prog, cx')
    <3> SUFFICES ASSUME NEW j \in 1..Len(prog), prog[j].kind = "impl", Has(cx', j)
                 PROVE  Held(cx', cx'.own[j], <<SELF_TYPE, "types">>)
      BY DEF SelfThere
    <3>1. CASE j = i
      BY <2>4, <3>1
    <3>2. CASE j # i
      <4>1. j \in Ids
        BY <1>2, ProgramIs
      <4>2. Has(cx, j) /\ cx'.own[j] = cx.own[j]
        BY <2>4, <3>2, <4>1 DEF Mine, NamedKinds
      <4>3. Held(cx, cx.own[j], <<SELF_TYPE, "types">>)
        BY <1>2, <4>2 DEF SelfThere
      <4>4. cx.own[j] \in 1..Len(cx.scopes)
        <5>1. cx.own[j] \in Nat /\ cx.own[j] <= Len(cx.scopes) /\ Len(cx.scopes) \in Nat
          BY <1>4, <4>1, Sizes DEF Arena, Contexts
        <5> QED BY <4>2, <5>1 DEF Has, NoScope
      <4>5. <<SELF_TYPE, "types">> \in Entries
        BY DEF Entries, Spaces
      <4> QED BY <2>4, <4>2, <4>3, <4>4, <4>5, SMTT(30) DEF Leaves, Held
    <3> QED BY <3>1, <3>2
  <2>8. ToCome(prog, cx', next')
    <3> SUFFICES ASSUME NEW j \in 1..Len(prog), prog[j].kind = "impl", j >= next + 1 PROVE ~Has(cx', j)
      BY <1>1 DEF ToCome
    <3>1. j \in Ids /\ j # i /\ ~Has(cx, j)
      <4>1. j \in Ids /\ j # i /\ j >= next
        BY <1>2, ProgramIs
      <4> QED BY <1>2, <4>1 DEF ToCome
    <3> QED BY <2>4, <3>1 DEF Mine, NamedKinds
  <2>9. ImplsOpened(prog, cx', impls')
    <3>1. impls \in Seq(1..Len(prog)) /\ \A k \in 1..Len(impls) : prog[impls[k]].kind = "impl" /\ Has(cx, impls[k])
      BY <1>2 DEF ImplsOpened
    <3>2. impls' \in Seq(1..Len(prog)) /\ Len(impls') = Len(impls) + 1 /\ impls'[Len(impls) + 1] = i
          /\ \A k \in 1..Len(impls) : impls'[k] = impls[k]
      BY <1>3, <2>1, <3>1
    <3>3. \A k \in 1..Len(impls) : impls[k] \in 1..Len(prog)
      BY <3>1
    <3>4. \A k \in 1..Len(impls) : Has(cx', impls[k])
      <4>1. \A j \in 1..Len(prog) : j \in Ids
        BY <1>2, ProgramIs
      <4> QED BY <2>4, <3>1, <3>3, <4>1
    <3>5. Has(cx', i) /\ Len(impls) \in Nat
      BY <1>4, <2>4, <3>1
    <3> HIDE DEF i
    <3>6. \A k \in 1..(Len(impls) + 1) : k \in 1..Len(impls) \/ k = Len(impls) + 1
      BY <3>5
    <3> QED BY <1>10, <3>1, <3>2, <3>4, <3>5, <3>6 DEF ImplsOpened
  <2> QED BY <1>1, <1>2, <1>6, <2>3, <2>5, <2>6, <2>7, <2>8, <2>9 DEF WalkInv
<1> QED BY <1>5, <1>7, <1>8, <1>9, <1>10

(***************************************************************************)
(* The passes after lowering, and the ends of impls and passes.            *)
(***************************************************************************)
\* Definitions with other marks, and items entered otherwise.
Revisit(c, ds, as) == [c EXCEPT !.defs = ds, !.at = as]
SameButMarks(c, ds) ==
  /\ ds \in Seq(DefRecords) /\ Len(ds) = Len(c.defs)
  /\ \A x \in 1..Len(c.defs) : SameDef(ds[x], c.defs[x]) /\ ds[x].of = c.defs[x].of
PlacesOK(c, as) == as \in [Ids -> Nat] /\ \A j \in Ids : as[j] <= Len(c.scopes)

LEMMA RevisitIs ==
  ASSUME NEW c, Arena(c), NEW ds, SameButMarks(c, ds), NEW as, PlacesOK(c, as)
  PROVE  LET d == Revisit(c, ds, as)
         IN  /\ Arena(d) /\ (\A p : Keeps(p, c, d, NoItem)) /\ SameOwn(c, d) /\ HeldStays(c, d)
             /\ d.scopes = c.scopes /\ d.defs = ds /\ d.at = as /\ d.own = c.own /\ d.def = c.def /\ d.fill = c.fill
             /\ d.diags = c.diags /\ d.taken = c.taken /\ d.globs = c.globs /\ d.impls = c.impls /\ d.panicked = c.panicked
<1> DEFINE d == Revisit(c, ds, as)
<1>1. c \in Contexts /\ ds \in Seq(DefRecords) /\ as \in [Ids -> Nat]
  BY DEF Arena, SameButMarks, PlacesOK
<1>2. /\ d.scopes = c.scopes /\ d.defs = ds /\ d.at = as /\ d.own = c.own /\ d.def = c.def /\ d.fill = c.fill
      /\ d.diags = c.diags /\ d.taken = c.taken /\ d.globs = c.globs /\ d.impls = c.impls /\ d.panicked = c.panicked
  BY <1>1 DEF Revisit, Contexts
<1>3. d \in Contexts
  BY <1>1 DEF Revisit, Contexts
<1> HIDE DEF d
<1>4. \A x \in 1..Len(c.defs) : SameDef(d.defs[x], c.defs[x]) /\ TyOK(c, d.defs[x].of)
  BY <1>2, TyOfDef DEF SameButMarks
<1>5. Touched(c, d)
  BY <1>2, <1>3, <1>4 DEF Touched, SameOwn, Arena, SameButMarks, PlacesOK
<1>6. Arena(d) /\ KeepsDefs(c, d) /\ KeepsNames(c, d)
  BY <1>5, TouchedIs
<1>7. (\A p : Keeps(p, c, d, NoItem)) /\ SameOwn(c, d) /\ HeldStays(c, d)
  BY <1>2, <1>6 DEF Keeps, KeepsOwns, SameOwn, SameReports, HeldStays, Held
<1> QED BY <1>2, <1>6, <1>7 DEF d

\* One definition marked, one item entered.
LEMMA MarkedIs ==
  ASSUME NEW c, Arena(c), NEW x \in 1..Len(c.defs), NEW i \in Nat
  PROVE  /\ SameButMarks(c, [c.defs EXCEPT ![x].collected = i]) /\ SameButMarks(c, [c.defs EXCEPT ![x].checked = i])
         /\ SameButMarks(c, c.defs)
         /\ \A y \in 1..Len(c.defs) :
              /\ [c.defs EXCEPT ![x].collected = i][y].collected = (IF y = x THEN i ELSE c.defs[y].collected)
              /\ [c.defs EXCEPT ![x].collected = i][y].checked = c.defs[y].checked
              /\ [c.defs EXCEPT ![x].checked = i][y].checked = (IF y = x THEN i ELSE c.defs[y].checked)
              /\ [c.defs EXCEPT ![x].checked = i][y].collected = c.defs[y].collected
<1>1. c.defs \in Seq(DefRecords) /\ Len(c.defs) \in Nat /\ DOMAIN c.defs = 1..Len(c.defs) /\ c.defs[x] \in DefRecords
  BY Sizes, TyOfDef DEF Arena, Contexts
<1> DEFINE a == [c.defs[x] EXCEPT !.collected = i]
           b == [c.defs[x] EXCEPT !.checked = i]
<1>2. /\ a \in DefRecords /\ SameDef(a, c.defs[x]) /\ a.of = c.defs[x].of /\ a.collected = i /\ a.checked = c.defs[x].checked
      /\ b \in DefRecords /\ SameDef(b, c.defs[x]) /\ b.of = c.defs[x].of /\ b.checked = i /\ b.collected = c.defs[x].collected
  BY <1>1 DEF DefRecords, SameDef
<1>3. [c.defs EXCEPT ![x].collected = i] = [c.defs EXCEPT ![x] = a] /\ [c.defs EXCEPT ![x].checked = i] = [c.defs EXCEPT ![x] = b]
  OBVIOUS
<1> HIDE DEF a, b
<1>4. ASSUME NEW def \in DefRecords, SameDef(def, c.defs[x]), def.of = c.defs[x].of
      PROVE  /\ SameButMarks(c, [c.defs EXCEPT ![x] = def])
             /\ \A y \in 1..Len(c.defs) : [c.defs EXCEPT ![x] = def][y] = IF y = x THEN def ELSE c.defs[y]
  <2> DEFINE ds == [c.defs EXCEPT ![x] = def]
  <2>1. ds \in Seq(DefRecords) /\ DOMAIN ds = 1..Len(c.defs)
    BY <1>1
  <2>2. Len(ds) = Len(c.defs) /\ \A y \in 1..Len(c.defs) : ds[y] = IF y = x THEN def ELSE c.defs[y]
    BY <1>1, <2>1
  <2> HIDE DEF ds
  <2>3. SameButMarks(c, ds)
    BY <1>4, <2>1, <2>2 DEF SameButMarks, SameDef
  <2> QED BY <2>2, <2>3 DEF ds
<1>5. SameButMarks(c, c.defs)
  BY <1>1 DEF SameButMarks, SameDef
<1>6. SameButMarks(c, [c.defs EXCEPT ![x].collected = i]) /\ SameButMarks(c, [c.defs EXCEPT ![x].checked = i])
  BY <1>2, <1>3, <1>4
<1>7. ASSUME NEW y \in 1..Len(c.defs)
      PROVE  /\ [c.defs EXCEPT ![x].collected = i][y].collected = (IF y = x THEN i ELSE c.defs[y].collected)
             /\ [c.defs EXCEPT ![x].collected = i][y].checked = c.defs[y].checked
             /\ [c.defs EXCEPT ![x].checked = i][y].checked = (IF y = x THEN i ELSE c.defs[y].checked)
             /\ [c.defs EXCEPT ![x].checked = i][y].collected = c.defs[y].collected
  BY <1>2, <1>3, <1>4
<1> QED BY <1>5, <1>6, <1>7

LEMMA PlacesOKIs ==
  ASSUME NEW c, Arena(c), NEW i \in Ids, NEW s \in 0..Len(c.scopes)
  PROVE  PlacesOK(c, c.at) /\ PlacesOK(c, [c.at EXCEPT ![i] = s]) /\ PlacesOK(c, [j \in 1..MaxItems |-> NoScope])
<1>1. c.at \in [Ids -> Nat] /\ Len(c.scopes) \in Nat /\ s \in Nat /\ s <= Len(c.scopes) /\ \A j \in Ids : c.at[j] <= Len(c.scopes)
  BY Sizes DEF Arena, Contexts
<1> QED BY <1>1 DEF PlacesOK, Ids, NoScope

WithImpl(c, R, m) == [c EXCEPT !.diags = c.diags \cup R, !.impls = Append(c.impls, m)]

MayFile(c, R, m) ==
  Arena(c) /\ R \in SUBSET ((Reports \ {"AlreadyDefined"}) \X Nat) /\ m \in ImplRecords /\ ImplOK(c, m)

LEMMA FiledIs ==
  ASSUME NEW c, NEW R, NEW m, MayFile(c, R, m), NEW p
  PROVE  LET d == WithImpl(c, R, m)
         IN  /\ Arena(d) /\ Keeps(p, c, d, NoItem) /\ SameOwn(c, d) /\ HeldStays(c, d)
             /\ d.scopes = c.scopes /\ d.defs = c.defs /\ d.at = c.at /\ d.own = c.own /\ d.def = c.def /\ d.fill = c.fill
             /\ d.taken = c.taken /\ d.globs = c.globs /\ d.panicked = c.panicked
             /\ d.diags = c.diags \cup R /\ d.impls = Append(c.impls, m)
<1> USE DEF MayFile
<1> DEFINE d == WithImpl(c, R, m)
<1>1. c \in Contexts /\ c.impls \in Seq(ImplRecords) /\ c.diags \in SUBSET (Reports \X Nat)
  BY DEF Arena, Contexts
<1>2. Append(c.impls, m) \in Seq(ImplRecords) /\ c.diags \cup R \in SUBSET (Reports \X Nat)
  <2>1. R \in SUBSET (Reports \X Nat)
    OBVIOUS
  <2> QED BY <1>1, <2>1
<1>3. /\ d.scopes = c.scopes /\ d.defs = c.defs /\ d.at = c.at /\ d.own = c.own /\ d.def = c.def /\ d.fill = c.fill
      /\ d.taken = c.taken /\ d.globs = c.globs /\ d.panicked = c.panicked
      /\ d.diags = c.diags \cup R /\ d.impls = Append(c.impls, m)
  BY <1>1 DEF Contexts, WithImpl
<1>4. d \in Contexts
  BY <1>1, <1>2 DEF Contexts, WithImpl
<1> HIDE DEF d
<1>5. ASSUME NEW k \in 1..Len(d.impls) PROVE ImplOK(c, d.impls[k])
  <2>1. Len(d.impls) = Len(c.impls) + 1 /\ Len(c.impls) \in Nat /\ d.impls[Len(c.impls) + 1] = m
        /\ \A j \in 1..Len(c.impls) : d.impls[j] = c.impls[j]
    BY <1>1, <1>3
  <2>2. k \in 1..Len(c.impls) \/ k = Len(c.impls) + 1
    BY <2>1
  <2> QED BY <2>1, <2>2 DEF Arena
<1>6. \A x \in 1..Len(c.defs) : SameDef(d.defs[x], c.defs[x]) /\ TyOK(c, d.defs[x].of)
  BY <1>3, TyOfDef DEF SameDef
<1>7. Touched(c, d)
  BY <1>3, <1>4, <1>5, <1>6 DEF Touched, SameOwn, Arena
<1>8. Arena(d) /\ KeepsDefs(c, d) /\ KeepsNames(c, d)
  BY <1>7, TouchedIs
<1>9. SameReports(c, d)
  <2>1. \A i : <<"AlreadyDefined", i>> \notin R
    OBVIOUS
  <2> QED BY <1>3, <2>1 DEF SameReports
<1>10. Keeps(p, c, d, NoItem) /\ SameOwn(c, d) /\ HeldStays(c, d)
  BY <1>3, <1>8, <1>9 DEF Keeps, KeepsOwns, SameOwn, HeldStays, Held
<1> QED BY <1>3, <1>8, <1>10 DEF d

LEMMA ShortcomingsAre ==
  ASSUME NEW c, NEW i \in Nat, NEW trait
  PROVE  Shortcomings(c, i, trait) \in SUBSET ((Reports \ {"AlreadyDefined"}) \X Nat)
BY DEF Shortcomings, Reports

LEMMA TraitIs ==
  ASSUME NEW c, Arena(c), NEW i \in Ids, NEW f \in Items
  PROVE  TraitOf(c, i, f) \in 0..Len(c.defs) /\ (TraitOf(c, i, f) # NoDef => c.defs[TraitOf(c, i, f)].kind = "trait")
<1>1. Len(c.defs) \in Nat /\ Len(c.scopes) \in Nat /\ c.own[i] \in Nat /\ c.own[i] <= Len(c.scopes)
  BY Sizes DEF Arena, Contexts
<1>2. c.own[i] \in 0..Len(c.scopes)
  BY <1>1
<1>3. f.trait \in Seq(Words)
  BY DEF Items, Paths, Words
<1>4. CASE f.trait = <<>>
  BY <1>1, <1>4 DEF TraitOf, NoDef
<1>5. CASE f.trait # <<>>
  <2>1. "types" \in Spaces
    BY DEF Spaces
  <2>2. ResolvePath(c, c.own[i], f.trait, "types") \in 0..Len(c.defs)
    BY <1>2, <1>3, <1>5, <2>1, ResolvePathIs
  <2> QED BY <1>1, <1>5, <2>2 DEF TraitOf, NoDef, KindOf
<1> QED BY <1>4, <1>5

LEMMA FrontIs ==
  ASSUME NEW S, NEW l \in Seq(S), l # <<>>
  PROVE  Front(l) \in Seq(S) /\ Len(Front(l)) = Len(l) - 1 /\ \A k \in 1..(Len(l) - 1) : Front(l)[k] = l[k]
<1>1. Len(l) \in Nat /\ Len(l) - 1 \in Nat /\ Len(l) >= 1
  OBVIOUS
<1>2. Front(l) = SubSeq(l, 1, Len(l) - 1)
  BY DEF Front
<1>3. DOMAIN l = 1..Len(l) /\ \A k \in 1..Len(l) : l[k] \in S
  OBVIOUS
<1> DEFINE n == Len(l) - 1
<1>4. \A k \in 1..n : k \in 1..Len(l) /\ 1 + k - 1 = k
  BY <1>1
<1>5. Front(l) = [k \in 1..n |-> l[k]]
  BY <1>1, <1>2, <1>3, <1>4
<1> HIDE DEF n
<1>6. n \in Nat /\ [k \in 1..n |-> l[k]] \in Seq(S)
  BY <1>1, <1>3, <1>4 DEF n
<1> QED BY <1>5, <1>6 DEF n

LEMMA EndImplIs ==
  ASSUME WalkInv, EndImpl
  PROVE  /\ WalkInv' /\ SameWalk(cx, cx') /\ cx'.defs = cx.defs
         /\ Keeps(prog, cx, cx', NoItem) /\ SameOwn(cx, cx')
         /\ cx'.scopes = cx.scopes /\ cx'.taken = cx.taken /\ cx'.globs = cx.globs
<1> DEFINE i == Last(impls)
           f == prog[i]
           trait == TraitOf(cx, i, f)
           self == Lookup(cx, cx.own[i], SELF_TYPE, "types")
           m == [target |-> ImplTargetOf(cx, cx.defs[self].of), scope |-> cx.own[i], trait |-> trait, item |-> i]
           R == Shortcomings(cx, i, trait)
<1>1. /\ pass = "lower" /\ impls # <<>> /\ prog' = prog /\ open' = open /\ pass' = pass /\ next' = next
      /\ impls' = Front(impls) /\ cx' = FileUnder(cx, i, trait)
  BY DEF EndImpl, ImplDone, CloseImpl
<1>2. /\ Program(prog) /\ Record(prog, cx) /\ Entered(cx) /\ Arena(cx)
      /\ SelfThere(prog, cx) /\ ImplsOpened(prog, cx, impls) /\ next \in Nat /\ next >= 1
  BY DEF WalkInv, Record
<1>3. /\ impls \in Seq(1..Len(prog)) /\ Len(impls) \in Nat /\ Len(impls) \in 1..Len(impls) /\ i = impls[Len(impls)]
      /\ i \in 1..Len(prog)
  BY <1>1, <1>2 DEF ImplsOpened, Last
<1>4. i \in Ids /\ f \in Items /\ i \in Nat
  BY <1>2, <1>3, ProgramIs
<1>5. f.kind = "impl" /\ Has(cx, i) /\ Held(cx, cx.own[i], <<SELF_TYPE, "types">>)
  BY <1>2, <1>3 DEF ImplsOpened, SelfThere
<1>6. cx.own[i] \in 1..Len(cx.scopes)
  <2>1. cx.own[i] \in Nat /\ cx.own[i] <= Len(cx.scopes) /\ Len(cx.scopes) \in Nat
    BY <1>2, <1>4, Sizes DEF Arena, Contexts
  <2> QED BY <1>5, <2>1 DEF Has, NoScope
<1>7. self \in 1..Len(cx.defs)
  <2>1. "types" \in Spaces /\ SELF_TYPE \in Words
    BY DEF Spaces, Words
  <2>2. self = cx.scopes[cx.own[i]].entries[<<SELF_TYPE, "types">>] /\ self \in 0..Len(cx.defs)
    BY <1>2, <1>6, <2>1, LookupIs
  <2>3. self # NoDef
    BY <1>5, <2>2 DEF Held
  <2> QED BY <2>2, <2>3 DEF NoDef
<1>8. trait \in 0..Len(cx.defs) /\ (trait # NoDef => cx.defs[trait].kind = "trait")
  BY <1>2, <1>4, TraitIs
<1>9. R \in SUBSET ((Reports \ {"AlreadyDefined"}) \X Nat)
  BY <1>4, ShortcomingsAre
<1> HIDE DEF i, trait, R, self
<1>10. ImplTargetOf(cx, cx.defs[self].of) \in 0..Len(cx.defs)
  <2>1. TyOK(cx, cx.defs[self].of)
    BY <1>2, <1>7, TyOfDef
  <2> QED BY <1>2, <2>1, ImplTargetIs
<1>11. m \in ImplRecords /\ ImplOK(cx, m)
  <2>1. Len(cx.defs) \in Nat /\ Len(cx.scopes) \in Nat
    BY <1>2, Sizes DEF Arena
  <2> QED BY <1>4, <1>6, <1>8, <1>10, <2>1 DEF ImplRecords, ImplOK
<1>12. cx' = [cx EXCEPT !.diags = cx.diags \cup R, !.impls = Append(cx.impls, m)]
  <2>1. cx \in Contexts
    BY <1>2 DEF Arena
  <2> DEFINE c1 == [cx EXCEPT !.diags = cx.diags \cup R]
  <2>2. c1.defs = cx.defs /\ c1.scopes = cx.scopes /\ c1.own = cx.own /\ c1.impls = cx.impls
    BY <2>1 DEF Contexts
  <2>3. c1 = [cx EXCEPT !.diags = @ \cup R]
    BY <2>1 DEF Contexts
  <2>4. cx' = FileImpl(c1, i, trait)
    BY <1>1, <2>3 DEF FileUnder, R
  <2>5. Lookup(c1, c1.own[i], SELF_TYPE, "types") = self
    BY <2>2 DEF Lookup, self
  <2>6. \A ty : ResolveTy(c1, ty) = ResolveTy(cx, ty)
    BY <2>2 DEF ResolveTy
  <2>7. \A ty : ImplTargetOf(c1, ty) = ImplTargetOf(cx, ty)
    BY <2>2, <2>6 DEF ImplTargetOf, KindOf
  <2> HIDE DEF c1
  <2>8. FileImpl(c1, i, trait) =
          [c1 EXCEPT !.impls = Append(@, [target |-> ImplTargetOf(c1, c1.defs[self].of), scope |-> c1.own[i],
                                          trait |-> trait, item |-> i])]
    BY <2>5 DEF FileImpl
  <2>9. FileImpl(c1, i, trait) = [c1 EXCEPT !.impls = Append(cx.impls, m)]
    BY <2>2, <2>7, <2>8
  <2>10. [c1 EXCEPT !.impls = Append(cx.impls, m)] = [cx EXCEPT !.diags = cx.diags \cup R, !.impls = Append(cx.impls, m)]
    BY <2>1 DEF c1, Contexts
  <2> QED BY <2>4, <2>9, <2>10
<1> HIDE DEF m
<1>13. /\ Arena(cx') /\ Keeps(prog, cx, cx', NoItem) /\ SameOwn(cx, cx') /\ HeldStays(cx, cx') /\ cx'.at = cx.at
       /\ cx'.own = cx.own
  <2> DEFINE d == WithImpl(cx, R, m)
  <2>1. Arena(d) /\ Keeps(prog, cx, d, NoItem) /\ SameOwn(cx, d) /\ HeldStays(cx, d) /\ d.at = cx.at /\ d.own = cx.own
    <3>1. MayFile(cx, R, m)
      BY <1>2, <1>9, <1>11 DEF MayFile
    <3> QED BY ONLY <3>1, FiledIs
  <2> HIDE DEF d
  <2>2. cx' = d
    BY <1>12 DEF d, WithImpl
  <2> QED BY <2>1, <2>2
<1>17. /\ cx'.at = cx.at /\ cx'.fill = cx.fill /\ cx'.defs = cx.defs
       /\ cx'.scopes = cx.scopes /\ cx'.taken = cx.taken /\ cx'.globs = cx.globs
  BY <1>2, <1>12 DEF Arena, Contexts
<1>14. Entered(cx')
  BY <1>2, <1>13 DEF Entered, Has
<1>15. ImplsOpened(prog, cx', impls')
  <2>1. impls' \in Seq(1..Len(prog)) /\ Len(impls') = Len(impls) - 1 /\ \A k \in 1..Len(impls') : impls'[k] = impls[k]
    BY <1>1, <1>3, FrontIs
  <2>2. \A k \in 1..Len(impls') : k \in 1..Len(impls)
    BY <1>3, <2>1
  <2> QED BY <1>2, <1>13, <2>1, <2>2 DEF ImplsOpened, Has
<1>16. WalkInv'
  BY <1>1, <1>2, <1>13, <1>14, <1>15, WalkKept
<1> QED BY <1>13, <1>16, <1>17 DEF SameWalk

LEMMA LeaveIs ==
  ASSUME WalkInv, Leave
  PROVE  WalkInv'
<1>1. open # <<>> /\ open' = Front(open) /\ UNCHANGED <<prog, pass, next, impls, cx>>
  BY DEF Leave
<1>2. OpenOK(prog, open) /\ open \in Seq(1..Len(prog))
  BY DEF WalkInv, OpenOK
<1>3. /\ open' \in Seq(1..Len(prog)) /\ Len(open') = Len(open) - 1 /\ Len(open) \in Nat
      /\ \A k \in 1..(Len(open) - 1) : open'[k] = open[k]
  BY <1>1, <1>2, FrontIs
<1>4. OpenOK(prog, open')
  <2>1. ASSUME NEW k \in 1..Len(open') PROVE prog[open'[k]].around = {open'[j] : j \in 1..(k - 1)}
    <3>1. k \in 1..Len(open) /\ k \in 1..(Len(open) - 1) /\ \A j \in 1..(k - 1) : j \in 1..(Len(open) - 1)
      <4>1. Len(open) \in Nat /\ Len(open') = Len(open) - 1
        BY <1>3
      <4> QED BY <4>1
    <3>2. prog[open[k]].around = {open[j] : j \in 1..(k - 1)}
      BY <1>2, <3>1 DEF OpenOK
    <3>3. open'[k] = open[k] /\ \A j \in 1..(k - 1) : open'[j] = open[j]
      BY <1>3, <3>1
    <3>4. {open'[j] : j \in 1..(k - 1)} = {open[j] : j \in 1..(k - 1)}
      BY <3>3
    <3> QED BY <3>2, <3>3, <3>4
  <2> QED BY <1>3, <2>1 DEF OpenOK
<1> QED BY <1>1, <1>4 DEF WalkInv

LEMMA ResolveDoneIs ==
  ASSUME WalkInv, ResolveDone
  PROVE  WalkInv'
<1>1. pass = "resolve" /\ pass' = "lower" /\ UNCHANGED <<prog, open, next, impls, cx>>
  BY DEF ResolveDone
<1> QED BY <1>1 DEF WalkInv

LEMMA TurnIs ==
  ASSUME WalkInv, NEW from \in {"lower", "collect", "check"}, NEW to \in {"collect", "check", "done"}, Turn(from, to)
  PROVE  WalkInv'
<1>1. /\ pass = from /\ pass' = to /\ next' = 1 /\ impls = <<>> /\ UNCHANGED <<prog, open, impls>>
      /\ cx' = [cx EXCEPT !.at = [i \in 1..MaxItems |-> NoScope]]
  BY DEF Turn
<1>2. /\ Arena(cx) /\ ImplsOpened(prog, cx, impls)
  BY DEF WalkInv, Record
<1> DEFINE none == [i \in 1..MaxItems |-> NoScope]
<1>3. cx' = Revisit(cx, cx.defs, none)
  <2>1. cx \in Contexts
    BY <1>2 DEF Arena
  <2> QED BY <1>1, <2>1 DEF Revisit, Contexts
<1>4. SameButMarks(cx, cx.defs)
  BY <1>2, Sizes DEF Arena, Contexts, SameButMarks, SameDef
<1>5. PlacesOK(cx, none)
  <2>1. Len(cx.scopes) \in Nat
    BY <1>2, Sizes DEF Arena
  <2> QED BY <2>1 DEF PlacesOK, Ids, NoScope
<1>6. none \in [Ids -> {NoScope}]
  BY DEF Ids
<1> HIDE DEF none
<1>7. Arena(cx') /\ Keeps(prog, cx, cx', NoItem) /\ SameOwn(cx, cx') /\ HeldStays(cx, cx') /\ cx'.at = none
  BY <1>2, <1>3, <1>4, <1>5, RevisitIs
<1>8. Entered(cx') /\ ImplsOpened(prog, cx', impls')
  BY <1>1, <1>2, <1>6, <1>7 DEF Entered, SameOwn, Has, ImplsOpened
<1>9. pass # "resolve" /\ pass' \in {"lower", "collect", "check", "done"} /\ pass' # "lower" /\ next' \in Nat /\ next' >= 1
  BY <1>1
<1> QED BY <1>1, <1>7, <1>8, <1>9, WalkKept

\* What collecting an item notes.
LEMMA CollectIs ==
  ASSUME NEW c, Arena(c), NEW i \in Ids, NEW f, f.kind \in {"fn", "mod"} => NamedItem(f), Here(c, i) \in 0..Len(c.scopes)
  PROVE  LET x == FoundAs(c, Here(c, i), f.kind, f.name)
         IN  /\ f.kind \notin {"fn", "mod"} \/ x = NoDef => Collect(c, i, f) = c
             /\ f.kind \in {"fn", "mod"} /\ x # NoDef =>
                  /\ x \in 1..Len(c.defs) /\ c.defs[x].scope \in 1..Len(c.scopes) /\ Here(c, i) \in 1..Len(c.scopes)
                  /\ x = c.scopes[Here(c, i)].entries[<<f.name, Namespace(f.kind)>>] /\ c.defs[x].kind = f.kind
                  /\ Collect(c, i, f) = Revisit(c, [c.defs EXCEPT ![x].collected = i], [c.at EXCEPT ![i] = c.defs[x].scope])
<1> DEFINE s == Here(c, i)
           x == FoundAs(c, s, f.kind, f.name)
<1>1. f.kind \notin {"fn", "mod"} \/ x = NoDef => Collect(c, i, f) = c
  BY DEF Collect
<1>2. ASSUME f.kind \in {"fn", "mod"}, x # NoDef
      PROVE  /\ x \in 1..Len(c.defs) /\ c.defs[x].scope \in 1..Len(c.scopes) /\ s \in 1..Len(c.scopes)
             /\ x = c.scopes[s].entries[<<f.name, Namespace(f.kind)>>] /\ c.defs[x].kind = f.kind
             /\ Collect(c, i, f) = Revisit(c, [c.defs EXCEPT ![x].collected = i], [c.at EXCEPT ![i] = c.defs[x].scope])
  <2>1. f.kind \in DefKinds /\ f.name \in Words
    BY <1>2 DEF NamedItem, Items, DefKinds, Words
  <2> HIDE DEF x, s
  <2>2. /\ x \in 0..Len(c.defs) /\ s \in 1..Len(c.scopes) /\ c.defs[x].kind = f.kind
        /\ x = c.scopes[s].entries[<<f.name, Namespace(f.kind)>>]
    BY <1>2, <2>1, FoundAsIs DEF x, s
  <2>3. x \in 1..Len(c.defs)
    BY <1>2, <2>2 DEF NoDef
  <2>4. c.defs[x].scope \in Nat /\ c.defs[x].scope <= Len(c.scopes) /\ c.defs[x].scope # NoScope /\ Len(c.scopes) \in Nat
    BY <1>2, <2>2, <2>3, TyOfDef, Sizes, Zenon DEF Arena, DefOK, DefRecords
  <2>5. c.defs[x].scope \in 1..Len(c.scopes)
    BY <2>4 DEF NoScope
  <2>6. c \in Contexts
    BY DEF Arena
  <2>7. Collect(c, i, f) = [c EXCEPT !.defs[x].collected = i, !.at[i] = c.defs[x].scope]
    BY <1>2 DEF Collect, x, s
  <2>8. Collect(c, i, f) = Revisit(c, [c.defs EXCEPT ![x].collected = i], [c.at EXCEPT ![i] = c.defs[x].scope])
    BY <2>6, <2>7 DEF Revisit, Contexts
  <2> QED BY <2>2, <2>3, <2>5, <2>8, Zenon
<1> QED BY <1>1, <1>2

\* A step of a pass after lowering.
LEMMA RevisitKeeps ==
  ASSUME WalkInv, pass \in {"collect", "check"}, NEW marks, SameButMarks(cx, marks), NEW places, PlacesOK(cx, places),
         cx' = Revisit(cx, marks, places), \A j \in Ids : places[j] # NoScope => Has(cx, j),
         UNCHANGED <<prog, open, pass, impls>>, next' \in Nat, next' >= 1
  PROVE  WalkInv'
<1>1. Arena(cx) /\ ImplsOpened(prog, cx, impls)
  BY DEF WalkInv, Record
<1> DEFINE there == Revisit(cx, marks, places)
<1>5. Arena(there) /\ Keeps(prog, cx, there, NoItem) /\ SameOwn(cx, there) /\ HeldStays(cx, there) /\ there.at = places
  <2>1. Arena(cx) /\ SameButMarks(cx, marks) /\ PlacesOK(cx, places)
    BY <1>1
  <2> HIDE DEF there
  <2>2. there = Revisit(cx, marks, places)
    BY DEF there
  <2> QED BY ONLY <2>1, <2>2, RevisitIs
<1>6. cx' = there
  OBVIOUS
<1> HIDE DEF there
<1>2. Arena(cx') /\ Keeps(prog, cx, cx', NoItem) /\ SameOwn(cx, cx') /\ HeldStays(cx, cx') /\ cx'.at = places
  BY <1>5, <1>6
<1>3. Entered(cx') /\ ImplsOpened(prog, cx', impls')
  BY <1>1, <1>2 DEF Entered, SameOwn, Has, ImplsOpened
<1>4. pass # "resolve" /\ pass' \in {"lower", "collect", "check", "done"} /\ pass' # "lower"
  OBVIOUS
<1> QED BY <1>2, <1>3, <1>4, WalkKept

LEMMA CollectItemIs ==
  ASSUME WalkInv, CollectItem
  PROVE  WalkInv'
<1> DEFINE i == next
           f == prog[i]
           s == Here(cx, i)
           x == FoundAs(cx, s, f.kind, f.name)
<1>1. /\ pass = "collect" /\ next <= Len(prog) /\ cx' = Collect(cx, i, f) /\ next' = next + 1
      /\ UNCHANGED <<prog, open, pass, impls>>
  BY DEF CollectItem
<1>2. Program(prog) /\ Arena(cx) /\ Entered(cx) /\ next \in Nat /\ next >= 1
  BY DEF WalkInv, Record
<1>3. i \in 1..Len(prog)
  <2>1. Len(prog) \in Nat
    BY <1>2 DEF Program
  <2> QED BY <1>1, <1>2, <2>1
<1>4. /\ i \in Ids /\ ItemOK(prog, i) /\ s \in 0..Len(cx.scopes)
      /\ s # NoScope /\ f.kind \in NamedKinds => Has(cx, i)
  BY <1>3, HereIs
<1>5. f.kind \in {"fn", "mod"} => NamedItem(f) /\ f.kind \in NamedKinds
  BY <1>4 DEF ItemOK, NamedKinds
<1>6. next' \in Nat /\ next' >= 1
  BY <1>1, <1>2
<1>7. CASE f.kind \notin {"fn", "mod"} \/ x = NoDef
  <2>1. cx' = cx
    BY <1>1, <1>7 DEF Collect
  <2>2. cx = Revisit(cx, cx.defs, cx.at)
    BY <1>2 DEF Revisit, Arena, Contexts
  <2>3. SameButMarks(cx, cx.defs) /\ PlacesOK(cx, cx.at)
    BY <1>2, Sizes DEF Arena, Contexts, SameButMarks, PlacesOK, SameDef
  <2>4. \A j \in Ids : cx.at[j] # NoScope => Has(cx, j)
    BY <1>2 DEF Entered
  <2> QED BY <1>1, <1>6, <2>1, <2>2, <2>3, <2>4, RevisitKeeps
<1>8. CASE f.kind \in {"fn", "mod"} /\ x # NoDef
  <2> DEFINE marks == [cx.defs EXCEPT ![x].collected = i]
             places == [cx.at EXCEPT ![i] = cx.defs[x].scope]
  <2>1. /\ x \in 1..Len(cx.defs) /\ cx.defs[x].scope \in 1..Len(cx.scopes) /\ s \in 1..Len(cx.scopes)
        /\ Collect(cx, i, f) = Revisit(cx, marks, places)
    BY <1>2, <1>4, <1>5, <1>8, CollectIs
  <2>2. SameButMarks(cx, marks)
    BY <1>2, <2>1, MarkedIs
  <2>3. PlacesOK(cx, places)
    <3>1. cx.defs[x].scope \in 0..Len(cx.scopes)
      BY <2>1
    <3> QED BY <1>2, <1>4, <3>1, PlacesOKIs
  <2>4. \A j \in Ids : places[j] # NoScope => Has(cx, j)
    <3>1. cx.at \in [Ids -> Nat] /\ s # NoScope
      BY <1>2, <2>1 DEF Arena, Contexts, NoScope
    <3> QED BY <1>2, <1>4, <1>5, <1>8, <3>1 DEF Entered
  <2>5. pass \in {"collect", "check"} /\ UNCHANGED <<prog, open, pass, impls>> /\ cx' = Revisit(cx, marks, places)
    BY <1>1, <2>1
  <2> HIDE DEF marks, places
  <2> QED BY <1>6, <2>2, <2>3, <2>4, <2>5, RevisitKeeps
<1> QED BY <1>7, <1>8

\* What checking an item does.
Marked(c, y, i) == IF c.defs[y].checked = NoItem THEN [c.defs EXCEPT ![y].checked = i] ELSE c.defs
Visiting(c, i, s) == [c.at EXCEPT ![i] = s]

LEMMA CheckBodyIs ==
  ASSUME NEW c, Arena(c), NEW y \in 1..Len(c.defs), NEW i \in Nat
  PROVE  /\ CheckBody(c, y, i) = Revisit(c, Marked(c, y, i), c.at) /\ SameButMarks(c, Marked(c, y, i))
         /\ Marked(c, y, i)[y].checked = (IF c.defs[y].checked = NoItem THEN i ELSE c.defs[y].checked)
         /\ \A z \in 1..Len(c.defs) : /\ z # y => Marked(c, y, i)[z].checked = c.defs[z].checked
                                      /\ Marked(c, y, i)[z].collected = c.defs[z].collected
<1>1. c \in Contexts
  BY DEF Arena
<1>2. CheckBody(c, y, i) = Revisit(c, Marked(c, y, i), c.at)
  BY <1>1 DEF CheckBody, Revisit, Marked, Contexts
<1>3. SameButMarks(c, Marked(c, y, i))
  BY MarkedIs DEF Marked
<1>4. ASSUME NEW z \in 1..Len(c.defs)
      PROVE  /\ Marked(c, y, i)[z].checked = (IF z = y /\ c.defs[y].checked = NoItem THEN i ELSE c.defs[z].checked)
             /\ Marked(c, y, i)[z].collected = c.defs[z].collected
  BY MarkedIs DEF Marked
<1> QED BY <1>2, <1>3, <1>4

CheckedAs(c, d, i, f, x, y) ==
  /\ f.kind = "fn" /\ y # NoDef =>
       /\ y \in 1..Len(c.defs)
       /\ d = Revisit(c, Marked(c, y, i), IF Marked(c, y, i)[y].checked = i THEN Visiting(c, i, c.defs[y].scope) ELSE c.at)
  /\ f.kind \in {"mod", "trait"} /\ Walked(i, f) /\ x # NoDef =>
       x \in 1..Len(c.defs) /\ d = Revisit(c, c.defs, Visiting(c, i, c.defs[x].scope))
  /\ f.kind = "impl" /\ Walked(i, f) => d = Revisit(c, c.defs, Visiting(c, i, c.own[i]))
  /\ \/ f.kind = "fn" /\ y # NoDef
     \/ f.kind \in {"mod", "trait"} /\ Walked(i, f) /\ x # NoDef
     \/ f.kind = "impl" /\ Walked(i, f)
     \/ d = c

LEMMA CheckIs ==
  ASSUME NEW c, Arena(c), NEW i \in Ids, NEW f, f.kind \in NamedKinds => NamedItem(f), Here(c, i) \in 0..Len(c.scopes)
  PROVE  CheckedAs(c, Check(c, i, f), i, f, FoundAs(c, Here(c, i), f.kind, f.name), FnDefOf(c, i, f))
<1> DEFINE s == Here(c, i)
           x == FoundAs(c, s, f.kind, f.name)
           y == FnDefOf(c, i, f)
<1>1. c \in Contexts /\ Len(c.defs) \in Nat /\ c.def[i] \in Nat /\ c.def[i] <= Len(c.defs) /\ i \in Nat
  <2>1. c \in Contexts /\ c.def \in [Ids -> Nat] /\ c.def[i] <= Len(c.defs)
    BY DEF Arena, Contexts
  <2>2. i \in Nat
    BY NamesAssumption DEF Ids
  <2> QED BY <2>1, <2>2, Sizes
<1>2. f.kind \in {"fn", "mod", "trait"} => x \in 0..Len(c.defs)
  <2>1. f.kind \in {"fn", "mod", "trait"} => f.kind \in DefKinds /\ f.name \in Words
    BY DEF NamedKinds, NamedItem, Items, DefKinds, Words
  <2> QED BY <2>1, FoundAsIs
<1>3. f.kind = "fn" => y \in 0..Len(c.defs)
  <2> SUFFICES ASSUME f.kind = "fn" PROVE y \in 0..Len(c.defs)
    OBVIOUS
  <2>1. y \in {NoDef, c.def[i], x}
    BY DEF FnDefOf
  <2> HIDE DEF y, x
  <2> QED BY <1>1, <1>2, <2>1 DEF NoDef
<1> HIDE DEF s, x, y
<1> SUFFICES CheckedAs(c, Check(c, i, f), i, f, x, y)
  BY DEF s, x, y
<1>4. CASE f.kind = "fn" /\ y # NoDef
  <2>1. y \in 1..Len(c.defs)
    BY <1>3, <1>4 DEF NoDef
  <2> DEFINE c1 == CheckBody(c, y, i)
  <2>2. Check(c, i, f) = IF c1.defs[y].checked = i THEN [c1 EXCEPT !.at[i] = c.defs[y].scope] ELSE c1
    BY <1>4 DEF Check, y
  <2>3. c1 = Revisit(c, Marked(c, y, i), c.at)
    BY <1>1, <2>1, CheckBodyIs
  <2>4. c1.defs = Marked(c, y, i) /\ c1.at = c.at
    BY <1>1, <2>3 DEF Revisit, Contexts
  <2>5. [c1 EXCEPT !.at[i] = c.defs[y].scope] = Revisit(c, Marked(c, y, i), Visiting(c, i, c.defs[y].scope))
    BY <1>1, <2>3 DEF Revisit, Visiting, Contexts
  <2> HIDE DEF c1
  <2>6. Check(c, i, f) = Revisit(c, Marked(c, y, i), IF Marked(c, y, i)[y].checked = i
                                                     THEN Visiting(c, i, c.defs[y].scope) ELSE c.at)
    BY <2>2, <2>3, <2>4, <2>5
  <2> QED BY <1>4, <2>1, <2>6 DEF CheckedAs
<1>5. CASE f.kind \in {"mod", "trait"} /\ Walked(i, f) /\ x # NoDef
  <2>1. x \in 1..Len(c.defs)
    BY <1>2, <1>5 DEF NoDef
  <2>2. Check(c, i, f) = [c EXCEPT !.at[i] = c.defs[x].scope]
    BY <1>5 DEF Check, x, s
  <2>3. Check(c, i, f) = Revisit(c, c.defs, Visiting(c, i, c.defs[x].scope))
    BY <1>1, <2>2 DEF Revisit, Visiting, Contexts
  <2> QED BY <1>5, <2>1, <2>3 DEF CheckedAs
<1>6. CASE f.kind = "impl" /\ Walked(i, f)
  <2>1. Check(c, i, f) = [c EXCEPT !.at[i] = c.own[i]]
    BY <1>6 DEF Check
  <2>2. Check(c, i, f) = Revisit(c, c.defs, Visiting(c, i, c.own[i]))
    BY <1>1, <2>1 DEF Revisit, Visiting, Contexts
  <2> QED BY <1>6, <2>2 DEF CheckedAs
<1>7. CASE ~(f.kind = "fn" /\ y # NoDef) /\ ~(f.kind \in {"mod", "trait"} /\ Walked(i, f) /\ x # NoDef)
           /\ ~(f.kind = "impl" /\ Walked(i, f))
  <2>1. Check(c, i, f) = c
    BY <1>7 DEF Check, y, x, s
  <2> QED BY <1>7, <2>1 DEF CheckedAs
<1> QED BY <1>4, <1>5, <1>6, <1>7

LEMMA StillEntered ==
  ASSUME NEW c, Arena(c), Entered(c), NEW i \in Ids, NEW s \in Nat, s # NoScope => Has(c, i)
  PROVE  \A j \in Ids : Visiting(c, i, s)[j] # NoScope => Has(c, j)
<1>1. c.at \in [Ids -> Nat]
  BY DEF Arena, Contexts
<1> QED BY <1>1 DEF Visiting, Entered

LEMMA FoundHere ==
  ASSUME NEW c, NEW s, NEW kind, NEW name, FoundAs(c, s, kind, name) # NoDef
  PROVE  s # NoScope
BY DEF FoundAs

LEMMA CheckItemIs ==
  ASSUME WalkInv, CheckItem
  PROVE  WalkInv'
<1> DEFINE i == next
           f == prog[i]
           s == Here(cx, i)
           x == FoundAs(cx, s, f.kind, f.name)
           y == FnDefOf(cx, i, f)
<1>1. /\ pass = "check" /\ next <= Len(prog) /\ cx' = Check(cx, i, f) /\ next' = next + 1
      /\ UNCHANGED <<prog, open, pass, impls>>
  BY DEF CheckItem
<1>2. Program(prog) /\ Arena(cx) /\ Entered(cx) /\ next \in Nat /\ next >= 1
  BY DEF WalkInv, Record
<1>3. i \in 1..Len(prog)
  <2>1. Len(prog) \in Nat
    BY <1>2 DEF Program
  <2> QED BY <1>1, <1>2, <2>1
<1>4. /\ i \in Ids /\ ItemOK(prog, i) /\ s \in 0..Len(cx.scopes)
      /\ s # NoScope /\ f.kind \in NamedKinds => Has(cx, i)
  BY <1>3, HereIs
<1>5. f.kind \in NamedKinds => NamedItem(f)
  BY <1>4 DEF ItemOK, NamedKinds
<1>6. next' \in Nat /\ next' >= 1
  BY <1>1, <1>2
<1>7. CheckedAs(cx, cx', i, f, x, y)
  BY <1>1, <1>2, <1>4, <1>5, CheckIs
<1>8. y # NoDef /\ f.kind = "fn" => s # NoScope
  <2> SUFFICES ASSUME y # NoDef, f.kind = "fn" PROVE s # NoScope
    OBVIOUS
  <2>1. CASE f.up # 0 /\ prog[f.up].kind = "impl"
    <3>1. cx.at[f.up] # NoScope
      BY <2>1 DEF FnDefOf
    <3> QED BY <2>1, <3>1 DEF Here
  <2>2. CASE ~(f.up # 0 /\ prog[f.up].kind = "impl")
    <3>1. y = FoundAs(cx, s, "fn", f.name)
      BY <2>2 DEF FnDefOf
    <3> QED BY <3>1, FoundHere
  <2> QED BY <2>1, <2>2
<1>9. x # NoDef => s # NoScope
  BY FoundHere
<1>10. i \in Nat /\ Len(cx.scopes) \in Nat
  BY <1>2, Sizes DEF Arena
<1>11. \A d \in 1..Len(cx.defs) : cx.defs[d].scope \in 0..Len(cx.scopes) /\ cx.defs[d].scope \in Nat
  BY <1>2, <1>10, TyOfDef DEF DefOK, DefRecords
<1>12. SameButMarks(cx, cx.defs) /\ PlacesOK(cx, cx.at) /\ cx = Revisit(cx, cx.defs, cx.at)
       /\ \A j \in Ids : cx.at[j] # NoScope => Has(cx, j)
  BY <1>2, Sizes DEF Arena, Contexts, SameButMarks, PlacesOK, SameDef, Revisit, Entered
<1>13. UNCHANGED <<prog, open, pass, impls>> /\ pass \in {"collect", "check"}
  BY <1>1
<1>14. ASSUME NEW n \in 0..Len(cx.scopes), n # NoScope => Has(cx, i)
       PROVE  PlacesOK(cx, Visiting(cx, i, n)) /\ \A j \in Ids : Visiting(cx, i, n)[j] # NoScope => Has(cx, j)
  <2>1. n \in Nat
    BY <1>10
  <2> QED BY <1>2, <1>4, <1>14, <2>1, PlacesOKIs, StillEntered DEF Visiting
<1> HIDE DEF x, y, s
<1>15. CASE f.kind = "fn" /\ y # NoDef
  <2>1. /\ y \in 1..Len(cx.defs)
        /\ cx' = Revisit(cx, Marked(cx, y, i), IF Marked(cx, y, i)[y].checked = i
                                               THEN Visiting(cx, i, cx.defs[y].scope) ELSE cx.at)
    BY <1>7, <1>15 DEF CheckedAs
  <2>2. SameButMarks(cx, Marked(cx, y, i))
    BY <1>2, <1>10, <2>1, CheckBodyIs
  <2>3. Has(cx, i)
    BY <1>4, <1>8, <1>15 DEF NamedKinds
  <2>4. PlacesOK(cx, Visiting(cx, i, cx.defs[y].scope)) /\ \A j \in Ids : Visiting(cx, i, cx.defs[y].scope)[j] # NoScope => Has(cx, j)
    BY <1>11, <1>14, <2>1, <2>3
  <2>5. CASE Marked(cx, y, i)[y].checked = i
    <3>1. cx' = Revisit(cx, Marked(cx, y, i), Visiting(cx, i, cx.defs[y].scope))
      BY <2>1, <2>5
    <3> QED BY <1>6, <1>13, <2>2, <2>4, <3>1, RevisitKeeps
  <2>6. CASE Marked(cx, y, i)[y].checked # i
    <3>1. cx' = Revisit(cx, Marked(cx, y, i), cx.at)
      BY <2>1, <2>6
    <3> QED BY <1>6, <1>12, <1>13, <2>2, <3>1, RevisitKeeps
  <2> QED BY <2>5, <2>6
<1>16. CASE f.kind \in {"mod", "trait"} /\ Walked(i, f) /\ x # NoDef
  <2>1. x \in 1..Len(cx.defs) /\ cx' = Revisit(cx, cx.defs, Visiting(cx, i, cx.defs[x].scope))
    BY <1>7, <1>16 DEF CheckedAs
  <2>2. Has(cx, i)
    BY <1>4, <1>9, <1>16 DEF NamedKinds
  <2>3. PlacesOK(cx, Visiting(cx, i, cx.defs[x].scope)) /\ \A j \in Ids : Visiting(cx, i, cx.defs[x].scope)[j] # NoScope => Has(cx, j)
    BY <1>11, <1>14, <2>1, <2>2
  <2> QED BY <1>6, <1>12, <1>13, <2>1, <2>3, RevisitKeeps
<1>17. CASE f.kind = "impl" /\ Walked(i, f)
  <2>1. cx' = Revisit(cx, cx.defs, Visiting(cx, i, cx.own[i]))
    BY <1>7, <1>17 DEF CheckedAs
  <2>2. cx.own[i] \in 0..Len(cx.scopes)
    BY <1>2, <1>4, <1>10 DEF Arena, Contexts
  <2>3. cx.own[i] # NoScope => Has(cx, i)
    BY DEF Has
  <2>4. PlacesOK(cx, Visiting(cx, i, cx.own[i])) /\ \A j \in Ids : Visiting(cx, i, cx.own[i])[j] # NoScope => Has(cx, j)
    BY <1>14, <2>2, <2>3
  <2> QED BY <1>6, <1>12, <1>13, <2>1, <2>4, RevisitKeeps
<1>18. CASE cx' = cx
  <2>1. cx' = Revisit(cx, cx.defs, cx.at)
    BY <1>12, <1>18
  <2> QED BY <1>6, <1>12, <1>13, <2>1, RevisitKeeps
<1>19. \/ f.kind = "fn" /\ y # NoDef
       \/ f.kind \in {"mod", "trait"} /\ Walked(i, f) /\ x # NoDef
       \/ f.kind = "impl" /\ Walked(i, f)
       \/ cx' = cx
  BY <1>7 DEF CheckedAs
<1> QED BY <1>15, <1>16, <1>17, <1>18, <1>19

LEMMA ReferencedIs ==
  ASSUME WalkInv, NEW d \in DOMAIN cx.defs, CheckReferenced(d)
  PROVE  WalkInv'
<1>1. /\ pass = "check" /\ cx' = CheckBody(cx, d, cx.defs[d].collected) /\ UNCHANGED <<prog, open, pass, next, impls>>
  BY DEF CheckReferenced
<1>2. Arena(cx) /\ Entered(cx) /\ next \in Nat /\ next >= 1
  BY DEF WalkInv, Record
<1>3. d \in 1..Len(cx.defs) /\ cx.defs[d].collected \in Nat
  <2>1. d \in 1..Len(cx.defs)
    BY <1>2, Sizes DEF Arena
  <2> QED BY <1>2, <2>1, TyOfDef DEF DefRecords
<1> DEFINE i == cx.defs[d].collected
           marks == Marked(cx, d, i)
<1>4. cx' = Revisit(cx, marks, cx.at) /\ SameButMarks(cx, marks)
  BY <1>1, <1>2, <1>3, CheckBodyIs
<1>5. PlacesOK(cx, cx.at) /\ \A j \in Ids : cx.at[j] # NoScope => Has(cx, j)
  BY <1>2 DEF Arena, Contexts, PlacesOK, Entered
<1>6. next' \in Nat /\ next' >= 1 /\ UNCHANGED <<prog, open, pass, impls>> /\ pass \in {"collect", "check"}
  BY <1>1, <1>2
<1> HIDE DEF marks
<1> QED BY <1>4, <1>5, <1>6, RevisitKeeps

LEMMA WalkNext ==
  ASSUME WalkInv, [Next]_vars
  PROVE  WalkInv'
<1>1. CASE UNCHANGED vars
  BY <1>1 DEF vars, WalkInv
<1>2. CASE Next
  <2>1. ASSUME NEW forms \in Forms, NEW f \in forms.items, Write(f) PROVE WalkInv'
    BY <2>1, FormsAssumption, WriteIs
  <2>2. ASSUME Done PROVE WalkInv'
    BY <1>1, <2>2 DEF Done
  <2>3. ASSUME Turn("lower", "collect") \/ Turn("collect", "check") \/ Turn("check", "done") PROVE WalkInv'
    BY <2>3, TurnIs
  <2> QED BY <1>2, <2>1, <2>2, <2>3, LeaveIs, ResolveDoneIs, LowerNextIs, EndImplIs, CollectItemIs, CheckItemIs,
             ReferencedIs DEF Next
<1> QED BY <1>1, <1>2

\* What resolution wrote down of every item holds in every state.
THEOREM NamesOnRecord == Spec => []WalkInv
<1>1. Init => WalkInv
  BY FirstWalk
<1>2. WalkInv /\ [Next]_vars => WalkInv'
  BY WalkNext
<1> QED BY <1>1, <1>2, PTL DEF Spec

\* An item is reported as already defined exactly when the text repeats its
\* name: whatever the program, for every state of every walk.
THEOREM RepeatsAreReported == Spec => []RepeatsReported
<1>1. WalkInv => RepeatsReported
  <2> SUFFICES ASSUME WalkInv, NEW i \in DOMAIN prog, cx.own[i] # NoScope
               PROVE  <<"AlreadyDefined", i>> \in cx.diags <=> Repeats(i)
    BY DEF RepeatsReported
  <2>1. Program(prog) /\ Record(prog, cx)
    BY DEF WalkInv
  <2>2. i \in 1..Len(prog)
    BY <2>1 DEF Program
  <2>3. i \in Ids
    BY <2>1, <2>2, ProgramIs
  <2>4. Said(cx, i) <=> RepeatsIn(prog, i)
    BY <2>1, <2>3 DEF Record, Has
  <2>5. RepeatsIn(prog, i) <=> Repeats(i)
    BY DEF RepeatsIn, Repeats
  <2> QED BY <2>4, <2>5 DEF Said
<1> QED BY <1>1, NamesOnRecord, PTL

\* A generic parameter is named in its own scope only, and a name among the
\* values is one: no declaration, no import and no impl makes it otherwise.
THEOREM GenericsAtHome == Spec => [](GenericsStayHome /\ EntriesOfTheirKind)
<1>1. ASSUME WalkInv, NEW s \in Scopes, NEW n \in Symbols, NEW ns \in Spaces, Lookup(cx, s, n, ns) # NoDef
      PROVE  Fits(cx.defs[Lookup(cx, s, n, ns)], s, <<n, ns>>)
  <2>1. Arena(cx) /\ n \in Words
    BY <1>1 DEF WalkInv, Record, Words
  <2>2. <<n, ns>> \in Entries /\ Lookup(cx, s, n, ns) = cx.scopes[s].entries[<<n, ns>>]
    BY <2>1, LookupIs DEF Scopes
  <2> QED BY <1>1, <2>1, <2>2 DEF Arena, ScopeOK, Scopes
<1>2. WalkInv => GenericsStayHome
  <2> SUFFICES ASSUME WalkInv, NEW s \in Scopes, NEW n \in Symbols, Lookup(cx, s, n, "types") # NoDef,
                      KindOf(cx, Lookup(cx, s, n, "types")) = "generic"
               PROVE  cx.defs[Lookup(cx, s, n, "types")].scope = s
    BY DEF GenericsStayHome
  <2>1. "types" \in Spaces
    BY DEF Spaces
  <2>2. Fits(cx.defs[Lookup(cx, s, n, "types")], s, <<n, "types">>)
    BY <1>1, <2>1
  <2> QED BY <2>2 DEF Fits, KindOf
<1>3. WalkInv => EntriesOfTheirKind
  <2> SUFFICES ASSUME WalkInv, NEW s \in Scopes, NEW n \in Symbols
               PROVE  LET v == Lookup(cx, s, n, "values")
                          ty == Lookup(cx, s, n, "types")
                      IN  /\ v # NoDef => \/ KindOf(cx, v) \in {"fn", "variant"}
                                          \/ KindOf(cx, v) = "struct" /\ ~cx.defs[v].record
                          /\ ty # NoDef => KindOf(cx, ty) \notin {"fn", "variant"}
    BY DEF EntriesOfTheirKind
  <2> DEFINE v == Lookup(cx, s, n, "values")
             ty == Lookup(cx, s, n, "types")
  <2>1. {"types", "values"} = Spaces
    BY DEF Spaces
  <2>2. v # NoDef => Fits(cx.defs[v], s, <<n, "values">>)
    BY <1>1, <2>1
  <2>3. ty # NoDef => Fits(cx.defs[ty], s, <<n, "types">>)
    BY <1>1, <2>1
  <2> HIDE DEF v, ty
  <2>4. v # NoDef => \/ KindOf(cx, v) \in {"fn", "variant"}
                     \/ KindOf(cx, v) = "struct" /\ ~cx.defs[v].record
    BY <2>2 DEF Fits, KindOf
  <2>5. ty # NoDef => KindOf(cx, ty) \notin {"fn", "variant"}
    BY <2>3 DEF Fits, KindOf
  <2> QED BY <2>4, <2>5 DEF v, ty
<1>4. WalkInv => GenericsStayHome /\ EntriesOfTheirKind
  BY <1>2, <1>3
<1> QED BY <1>4, NamesOnRecord, PTL

(***************************************************************************)
(* A program that repeats no name and whose imports take none: every pass  *)
(* finds each of its items where, and as what, it was declared.            *)
(***************************************************************************)
AtOwn(c) == \A j \in Ids : c.at[j] # NoScope => c.at[j] = c.own[j]

NoMarks(c) == \A x \in 1..Len(c.defs) : c.defs[x].collected = NoItem /\ c.defs[x].checked = NoItem
MarkOK(p, c, x, k) == k # NoItem => k \in 1..Len(p) /\ p[k].kind \in NamedKinds /\ Has(c, k) /\ c.def[k] = x
Marks(p, c) == \A x \in 1..Len(c.defs) : MarkOK(p, c, x, c.defs[x].collected) /\ MarkOK(p, c, x, c.defs[x].checked)

\* Items collect_fn_mod_items comes to, and items the checking walk enters.
Gathered(p, j) == p[j].kind \in {"fn", "mod"} /\ \A a \in p[j].around : p[a].kind \in {"fn", "mod"}
Reached(p, j) ==
  /\ p[j].kind \in {"fn", "mod", "trait", "impl"}
  /\ \A a \in p[j].around \cup {j} : p[a].kind # "fn" => (p[a].up = NoItem \/ p[p[a].up].kind # "fn")

LoweredAs(p, c, j) ==
  p[j].kind # "use" => /\ Has(c, j)
                       /\ p[j].kind \in NamedKinds =>
                            c.fill[j] = c.def[j] \/ (p[j].kind = "alias" /\ p[j].path = <<>>)
EnteredOwn(c, j) == Has(c, j) /\ c.at[j] = c.own[j]
CollectedAs(c, j) == c.defs[c.def[j]].collected = j
CheckedUnder(c, j) == c.defs[c.def[j]].checked = j

SeenRight ==
  /\ AtOwn(cx)
  /\ pass \in {"collect", "check", "done"} => Marks(prog, cx)
  /\ pass # "resolve" =>
       \A j \in 1..Len(prog) : (pass = "lower" => j < next) => LoweredAs(prog, cx, j)
  /\ pass = "lower" =>
       \A j \in 1..Len(prog) : j < next /\ prog[j].kind \notin {"use", "alias"} => EnteredOwn(cx, j)
  /\ pass = "collect" => \A j \in 1..Len(prog) : j < next /\ Gathered(prog, j) => EnteredOwn(cx, j)
  /\ pass \in {"collect", "check", "done"} =>
       \A j \in 1..Len(prog) : (pass = "collect" => j < next) /\ Gathered(prog, j) => CollectedAs(cx, j)
  /\ pass = "check" => \A j \in 1..Len(prog) : j < next /\ Reached(prog, j) => EnteredOwn(cx, j)
  /\ pass \in {"check", "done"} =>
       \A j \in 1..Len(prog) :
         (pass = "check" => j < next) /\ prog[j].kind = "fn" /\ Reached(prog, j) => CheckedUnder(cx, j)

SeenInv ==
  /\ WalkInv
  /\ pass = "resolve" => \A j \in Ids : cx.at[j] = NoScope
  /\ pass \in {"resolve", "lower"} => NoMarks(cx)
  /\ Clean(cx) => SeenRight

LEMMA CleanBefore ==
  ASSUME NEW p, NEW c, NEW d, NEW i, Keeps(p, c, d, i), Clean(d)
  PROVE  Clean(c)
BY DEF Keeps, Clean, SameReports, Said

\* Where the walk looks an item up it finds the item's own definition.
LEMMA FoundOwn ==
  ASSUME WalkInv, Clean(cx), AtOwn(cx), NEW i \in 1..Len(prog), prog[i].kind \in NamedKinds, Here(cx, i) # NoScope
  PROVE  /\ FoundAs(cx, Here(cx, i), prog[i].kind, prog[i].name) = cx.def[i] /\ Has(cx, i)
         /\ cx.def[i] \in 1..Len(cx.defs) /\ cx.def[i] # NoDef /\ cx.defs[cx.def[i]].scope = cx.own[i]
         /\ cx.defs[cx.def[i]].kind = prog[i].kind /\ cx.defs[cx.def[i]].item = i
         /\ Here(cx, i) = Around(cx, prog[i].up)
<1> DEFINE f == prog[i]
           s == Here(cx, i)
           e == <<f.name, Namespace(f.kind)>>
<1>1. /\ Program(prog) /\ Record(prog, cx)
  BY DEF WalkInv
<1>2. /\ i \in Ids /\ ItemOK(prog, i) /\ Arena(cx) /\ s \in 1..Len(cx.scopes) /\ Has(cx, i)
      /\ (f.up # NoItem => Has(cx, f.up) /\ f.up \in Ids)
  <2>1. f.up # NoItem => f.up \in 1..Len(prog)
    BY <1>1, ProgramIs
  <2>2. f.up \in 1..Len(prog) => f.up \in Ids
    BY <1>1, ProgramIs
  <2> QED BY <2>1, <2>2, HereIs
<1>3. s = Around(cx, f.up)
  <2>1. CASE f.up = NoItem
    BY <2>1 DEF Here, Around, NoItem
  <2>2. CASE f.up # NoItem
    <3>1. s = cx.at[f.up]
      BY <2>2 DEF Here, NoItem
    <3> QED BY <1>2, <2>2, <3>1 DEF AtOwn, Around
  <2> QED BY <2>1, <2>2
<1>4. NamedItem(f)
  BY <1>2 DEF ItemOK, NamedKinds
<1>5. e \in NamesOf(f) /\ f.name \in Words /\ Namespace(f.kind) \in Spaces
  <2>1. e \in NamesOf(f)
    BY DEF NamesOf, Namespace, NamedKinds
  <2> QED BY <1>4, <2>1, NamedItemIs DEF Namespace, Spaces
<1>6. ItsOwn(prog, cx, i) /\ EntriesOwn(prog, cx, i)
  BY <1>1, <1>2 DEF Record
<1>7. cx.def[i] \in 1..Len(cx.defs) /\ cx.defs[cx.def[i]].kind = f.kind /\ cx.defs[cx.def[i]].scope = cx.own[i]
      /\ cx.defs[cx.def[i]].item = i /\ cx.scopes[s].entries[e] = cx.def[i] /\ cx.def[i] # NoDef
  <2>1. cx.def[i] \in 1..Len(cx.defs) => cx.def[i] # NoDef
    BY DEF NoDef
  <2> QED BY <1>3, <1>5, <1>6, <2>1 DEF ItsOwn, EntriesOwn
<1>8. Lookup(cx, s, f.name, Namespace(f.kind)) = cx.def[i]
  BY <1>7 DEF Lookup
<1>10. s # NoScope
  OBVIOUS
<1> HIDE DEF s
<1>9. FoundAs(cx, s, f.kind, f.name) = cx.def[i]
  BY <1>7, <1>8, <1>10 DEF FoundAs, KindOf
<1> QED BY <1>2, <1>3, <1>7, <1>9 DEF s

\* What an item stands in holds items, comes before it, and is around it.
LEMMA UpIs ==
  ASSUME NEW p, Program(p), NEW i \in 1..Len(p), p[i].up # NoItem
  PROVE  /\ p[i].up \in 1..Len(p) /\ p[i].up \in Ids /\ p[i].up < i /\ p[p[i].up].kind \in {"fn", "mod", "trait", "impl"}
         /\ p[i].up \in p[i].around /\ p[p[i].up].around \subseteq p[i].around
<1>1. p[i].up \in 1..Len(p) /\ p[i].up < i /\ p[i].around = p[p[i].up].around \cup {p[i].up} /\ MayHold(p[p[i].up].kind, p[i].kind)
  BY ProgramIs DEF ItemOK
<1>2. p[i].up \in Ids
  BY <1>1, ProgramIs
<1> QED BY <1>1, <1>2 DEF MayHold

LEMMA HereOwn ==
  ASSUME WalkInv, NEW i \in 1..Len(prog), prog[i].up # NoItem => EnteredOwn(cx, prog[i].up)
  PROVE  Here(cx, i) # NoScope
BY DEF Here, Root, NoScope, EnteredOwn, Has, NoItem

LEMMA FirstSeen ==
  ASSUME Init
  PROVE  SeenInv
<1>1. WalkInv
  BY FirstWalk
<1>2. pass = "resolve" /\ prog = <<>> /\ cx.defs = <<>> /\ \A j \in Ids : cx.at[j] = NoScope
  BY DEF Init, Ids
<1>3. NoMarks(cx)
  BY <1>2 DEF NoMarks
<1>4. SeenRight
  BY <1>2 DEF SeenRight, AtOwn
<1> QED BY <1>1, <1>2, <1>3, <1>4 DEF SeenInv

LEMMA WriteSeen ==
  ASSUME SeenInv, NEW forms \in Forms, NEW form \in forms.items, Write(form)
  PROVE  SeenInv'
<1>1. pass = "resolve" /\ pass' = "resolve"
  BY DEF Write
<1>2. WalkInv /\ (\A j \in Ids : cx.at[j] = NoScope) /\ NoMarks(cx) /\ Arena(cx)
  BY <1>1 DEF SeenInv, WalkInv, Record
<1>3. WalkInv' /\ WrittenAs(cx, cx')
  BY <1>2, WriteIs
<1>4. (\A j \in Ids : cx'.at[j] = NoScope) /\ NoMarks(cx')
  <2>1. CASE cx' = cx
    BY <1>2, <2>1
  <2>2. ASSUME NEW s, NEW i, NEW f, Resolved(cx, cx', s, i, f)
        PROVE  (\A j \in Ids : cx'.at[j] = NoScope) /\ NoMarks(cx')
    <3>1. Longer(cx, cx') /\ NewDefs(cx, cx', i) /\ SameRest(cx, cx') /\ Len(cx.defs) \in Nat /\ Len(cx'.defs) \in Nat
      BY <1>2, <2>2, Sizes DEF Resolved, Arena
    <3>2. \A x \in 1..Len(cx'.defs) : x \in 1..Len(cx.defs) \/ x \in (Len(cx.defs) + 1)..Len(cx'.defs)
      BY <3>1
    <3> QED BY <1>2, <3>1, <3>2 DEF Longer, NewDefs, NewDef, SameRest, NoMarks
  <2> QED BY <1>3, <2>1, <2>2 DEF WrittenAs
<1>5. SeenRight'
  BY <1>1, <1>4 DEF SeenRight, AtOwn
<1> QED BY <1>1, <1>3, <1>4, <1>5 DEF SeenInv

\* Nothing of what the passes remember changes.
LEMMA SeenStays ==
  ASSUME SeenInv, WalkInv', pass' = pass, next' = next, prog' = prog, Keeps(prog, cx, cx', NoItem), SameOwn(cx, cx'),
         SameWalk(cx, cx'), Len(cx'.defs) = Len(cx.defs),
         \A x \in 1..Len(cx.defs) : cx'.defs[x].collected = cx.defs[x].collected /\ cx'.defs[x].checked = cx.defs[x].checked
  PROVE  SeenInv'
<1>1. \A j : Has(cx', j) <=> Has(cx, j)
  BY DEF SameOwn, Has
<1>2. (pass' = "resolve" => \A j \in Ids : cx'.at[j] = NoScope) /\ (pass' \in {"resolve", "lower"} => NoMarks(cx'))
  BY DEF SeenInv, SameWalk, NoMarks
<1>3. ASSUME Clean(cx') PROVE SeenRight'
  <2>1. SeenRight
    BY <1>3, CleanBefore DEF SeenInv
  <2>2. \A j \in 1..Len(prog) : prog[j].kind \in NamedKinds /\ Has(cx, j) => cx.def[j] \in 1..Len(cx.defs)
    <3>1. \A j \in 1..Len(prog) : j \in Ids
      BY ProgramIs DEF SeenInv, WalkInv
    <3> QED BY <3>1 DEF SeenInv, WalkInv, Record, ItsOwn
  <2>3. \A j \in 1..Len(prog) : pass # "resolve" /\ (pass = "lower" => j < next) => LoweredAs(prog, cx, j)
    BY <2>1 DEF SeenRight
  <2>4. \A j \in 1..Len(prog) : LoweredAs(prog, cx, j) => LoweredAs(prog, cx', j)
    BY <1>1 DEF LoweredAs, SameOwn, SameWalk
  <2>5. \A j \in 1..Len(prog) : EnteredOwn(cx, j) => EnteredOwn(cx', j)
    BY <1>1 DEF EnteredOwn, SameOwn, SameWalk
  <2>6. \A j \in 1..Len(prog) : Gathered(prog, j) /\ LoweredAs(prog, cx, j) /\ CollectedAs(cx, j) => CollectedAs(cx', j)
    BY <2>2 DEF CollectedAs, SameOwn, Gathered, LoweredAs, NamedKinds
  <2>7. \A j \in 1..Len(prog) : prog[j].kind = "fn" /\ LoweredAs(prog, cx, j) /\ CheckedUnder(cx, j) => CheckedUnder(cx', j)
    BY <2>2 DEF CheckedUnder, SameOwn, LoweredAs, NamedKinds
  <2>8. AtOwn(cx')
    BY <2>1 DEF SeenRight, AtOwn, SameOwn, SameWalk
  <2>9. Marks(prog, cx) => Marks(prog, cx')
    BY <1>1 DEF Marks, MarkOK, SameOwn
  <2> QED BY <2>1, <2>3, <2>4, <2>5, <2>6, <2>7, <2>8, <2>9 DEF SeenRight
<1> QED BY <1>2, <1>3 DEF SeenInv

LEMMA LeaveSeen ==
  ASSUME SeenInv, Leave
  PROVE  SeenInv'
<1>1. pass = "resolve" /\ UNCHANGED <<prog, pass, next, impls, cx>>
  BY DEF Leave
<1>2. WalkInv'
  BY LeaveIs DEF SeenInv
<1> QED BY <1>1, <1>2 DEF SeenInv, SeenRight

LEMMA ResolveDoneSeen ==
  ASSUME SeenInv, ResolveDone
  PROVE  SeenInv'
<1>1. pass = "resolve" /\ pass' = "lower" /\ UNCHANGED <<prog, open, next, impls, cx>>
  BY DEF ResolveDone
<1>2. WalkInv' /\ NoMarks(cx') /\ next' = 1 /\ \A j \in Ids : cx'.at[j] = NoScope
  BY <1>1, ResolveDoneIs DEF SeenInv, WalkInv
<1>3. \A j \in 1..Len(prog') : ~(j < next')
  <2>1. Len(prog') \in Nat
    BY <1>2 DEF WalkInv, Program
  <2> QED BY <1>2, <2>1
<1>4. SeenRight'
  BY <1>1, <1>2, <1>3 DEF SeenRight, AtOwn
<1> QED BY <1>1, <1>2, <1>4 DEF SeenInv
(* Lowering.                                                                   *)
LEMMA LowerStepSeen ==
  ASSUME SeenInv, pass = "lower", pass' = "lower", prog' = prog, next' = next + 1, next \in 1..Len(prog), WalkInv',
         NoMarks(cx'),
         Clean(cx') => /\ AtOwn(cx') /\ LoweredAs(prog, cx', next) /\ Clean(cx)
                       /\ prog[next].kind \notin {"use", "alias"} => EnteredOwn(cx', next)
                       /\ \A j \in 1..Len(prog) : j < next =>
                            /\ LoweredAs(prog, cx, j) => LoweredAs(prog, cx', j)
                            /\ EnteredOwn(cx, j) => EnteredOwn(cx', j)
  PROVE  SeenInv'
<1>1. ASSUME Clean(cx') PROVE SeenRight'
  <2>1. SeenRight
    BY <1>1 DEF SeenInv
  <2>2. \A j \in 1..Len(prog) : j < next + 1 => j < next \/ j = next
    OBVIOUS
  <2>3. \A j \in 1..Len(prog) : j < next + 1 => LoweredAs(prog, cx', j)
    BY <1>1, <2>1, <2>2 DEF SeenRight
  <2>4. \A j \in 1..Len(prog) : j < next + 1 /\ prog[j].kind \notin {"use", "alias"} => EnteredOwn(cx', j)
    BY <1>1, <2>1, <2>2 DEF SeenRight
  <2> QED BY <1>1, <2>3, <2>4 DEF SeenRight
<1> QED BY <1>1 DEF SeenInv

LEMMA LowerSeen ==
  ASSUME SeenInv, Lower
  PROVE  SeenInv'
<1> DEFINE i == next
           s == Here(cx, i)
           f == prog[i]
<1>1. /\ pass = "lower" /\ next <= Len(prog) /\ prog' = prog /\ open' = open /\ pass' = "lower" /\ next' = next + 1
      /\ cx' = (IF s = NoScope THEN cx ELSE LowerItem(cx, s, i, f))
  BY DEF Lower
<1>2. WalkInv /\ Program(prog) /\ Record(prog, cx) /\ Entered(cx) /\ ToCome(prog, cx, next) /\ next \in Nat /\ next >= 1
      /\ NoMarks(cx) /\ Settled(prog, cx)
  BY <1>1 DEF SeenInv, WalkInv
<1>3. i \in 1..Len(prog)
  <2>1. Len(prog) \in Nat
    BY <1>2 DEF Program
  <2> QED BY <1>1, <1>2, <2>1
<1>4. WalkInv'
  BY <1>2, LowerNextIs
<1>5. /\ i \in Ids /\ ItemOK(prog, i) /\ Arena(cx) /\ s \in 0..Len(cx.scopes)
      /\ s # NoScope => s \in 1..Len(cx.scopes) /\ (f.up # NoItem => Has(cx, f.up))
  BY <1>2, <1>3, HereIs
<1>6. f.kind \in NamedKinds \cup {"impl", "use"} /\ f \in Items
  BY <1>2, <1>3, ProgramIs
<1>7. Clean(cx) => SeenRight
  BY DEF SeenInv
<1>8. Clean(cx) => s # NoScope
  <2> SUFFICES ASSUME Clean(cx) PROVE s # NoScope
    OBVIOUS
  <2>1. f.up # NoItem => f.up \in 1..Len(prog) /\ f.up < i /\ prog[f.up].kind \in {"fn", "mod", "trait", "impl"}
    BY <1>2, <1>3, UpIs
  <2>2. f.up # NoItem => EnteredOwn(cx, f.up)
    BY <1>1, <1>7, <2>1 DEF SeenRight
  <2> QED BY <1>2, <1>3, <2>2, HereOwn
<1>9. cx.at \in [Ids -> Nat] /\ cx.fill \in [Ids -> Nat] /\ Len(cx.defs) \in Nat
  BY <1>5, Sizes DEF Arena, Contexts
<1>20. \A j \in 1..Len(prog) : j \in Ids
  BY <1>2, ProgramIs
<1>10. CASE s = NoScope
  <2>1. cx' = cx
    BY <1>1, <1>10
  <2> QED BY <1>1, <1>2, <1>3, <1>4, <1>8, <1>10, <2>1, LowerStepSeen
<1>11. CASE s # NoScope /\ f.kind \in NamedKinds
  <2>1. NamedItem(f) /\ cx' = LowerItem(cx, s, i, f)
    BY <1>1, <1>5, <1>11 DEF ItemOK, NamedKinds
  <2>2. Lowered(cx, cx', s, i, f)
    BY <1>5, <2>1, LowerNamedItemIs
  <2>3. Retouch(cx, cx') /\ SameOwn(cx, cx') /\ Len(cx'.defs) = Len(cx.defs) /\ SameMarks(cx, cx')
    BY <2>2 DEF Lowered, Retouch
  <2>4. Keeps(prog, cx, cx', NoItem)
    BY <1>5, <2>3, RetouchKeeps
  <2>5. NoMarks(cx')
    BY <1>2, <2>3 DEF NoMarks, SameMarks
  <2>6. ASSUME Clean(cx') PROVE Clean(cx) /\ SeenRight
    BY <1>7, <2>4, <2>6, CleanBefore
  <2>7. ASSUME Clean(cx')
        PROVE  FoundAs(cx, s, f.kind, f.name) = cx.def[i] /\ Has(cx, i) /\ cx.def[i] # NoDef
               /\ cx.defs[cx.def[i]].scope = cx.own[i]
    <3>1. AtOwn(cx)
      BY <2>6, <2>7 DEF SeenRight
    <3> QED BY <1>2, <1>3, <1>11, <2>6, <2>7, <3>1, FoundOwn
  <2> HIDE DEF s
  <2>8. ASSUME Clean(cx')
        PROVE  IF f.kind = "alias" /\ f.path = <<>> THEN SameWalk(cx, cx')
               ELSE cx'.fill = [cx.fill EXCEPT ![i] = cx.def[i]] /\ cx'.at = [cx.at EXCEPT ![i] = cx.own[i]]
    BY <2>2, <2>7, <2>8 DEF Lowered, Filled
  <2>9. ASSUME Clean(cx')
        PROVE  /\ AtOwn(cx') /\ LoweredAs(prog, cx', i) /\ Clean(cx)
               /\ f.kind \notin {"use", "alias"} => EnteredOwn(cx', i)
               /\ \A j \in 1..Len(prog) : j < i =>
                    /\ LoweredAs(prog, cx, j) => LoweredAs(prog, cx', j)
                    /\ EnteredOwn(cx, j) => EnteredOwn(cx', j)
    <3>1. \A j : Has(cx', j) <=> Has(cx, j)
      BY <2>3 DEF SameOwn, Has
    <3>2. AtOwn(cx)
      BY <2>6, <2>9 DEF SeenRight
    <3>3. AtOwn(cx')
      BY <1>5, <1>9, <2>3, <2>8, <2>9, <3>2 DEF AtOwn, SameOwn, SameWalk
    <3>4. LoweredAs(prog, cx', i)
      BY <1>5, <1>9, <2>3, <2>7, <2>8, <2>9, <3>1 DEF LoweredAs, SameOwn
    <3>5. f.kind \notin {"use", "alias"} => EnteredOwn(cx', i)
      BY <1>5, <1>9, <2>3, <2>7, <2>8, <2>9, <3>1 DEF EnteredOwn, SameOwn
    <3>6. \A j \in Ids : j # i => cx'.fill[j] = cx.fill[j] /\ cx'.at[j] = cx.at[j]
      BY <1>9, <2>8, <2>9 DEF SameWalk
    <3>7. \A j \in 1..Len(prog) : j < i => j \in Ids /\ j # i
      BY <1>2, <1>20
    <3> HIDE DEF i
    <3>8. \A j \in 1..Len(prog) : j < i =>
            /\ LoweredAs(prog, cx, j) => LoweredAs(prog, cx', j)
            /\ EnteredOwn(cx, j) => EnteredOwn(cx', j)
      BY <2>3, <3>1, <3>6, <3>7 DEF LoweredAs, EnteredOwn, SameOwn
    <3> QED BY <2>6, <2>9, <3>3, <3>4, <3>5, <3>8
  <2> QED BY <1>1, <1>3, <1>4, <2>5, <2>9, LowerStepSeen
<1>12. CASE s # NoScope /\ f.kind = "use"
  <2>1. cx' = LowerUse(cx, s, i, f)
    BY <1>1, <1>12 DEF LowerItem
  <2>2. f.trees \in Seq(Trees) /\ \A n \in DOMAIN f.trees : f.trees[n].path # <<>> /\ f.trees[n].group < n
    BY <1>5, <1>6 DEF Items, ItemOK
  <2>3. Imports(cx, cx', s, i)
    BY <1>2, <1>5, <1>12, <2>1, <2>2, LowerUseIs
  <2>4. cx'.defs = cx.defs /\ SameOwn(cx, cx') /\ SameWalk(cx, cx') /\ (Clean(cx') => Clean(cx))
    BY <2>3 DEF Imports, Clean, SameReports, Said
  <2>5. NoMarks(cx')
    BY <1>2, <2>4 DEF NoMarks
  <2>6. ASSUME Clean(cx')
        PROVE  /\ AtOwn(cx') /\ LoweredAs(prog, cx', i) /\ Clean(cx)
               /\ f.kind \notin {"use", "alias"} => EnteredOwn(cx', i)
               /\ \A j \in 1..Len(prog) : j < i =>
                    /\ LoweredAs(prog, cx, j) => LoweredAs(prog, cx', j)
                    /\ EnteredOwn(cx, j) => EnteredOwn(cx', j)
    <3>1. AtOwn(cx')
      BY <1>7, <2>4, <2>6 DEF SeenRight, AtOwn, SameOwn, SameWalk
    <3>2. LoweredAs(prog, cx', i)
      BY <1>12 DEF LoweredAs
    <3>3. \A j : Has(cx', j) <=> Has(cx, j)
      BY <2>4 DEF SameOwn, Has
    <3> QED BY <1>12, <2>4, <2>6, <3>1, <3>2, <3>3 DEF LoweredAs, EnteredOwn, SameOwn, SameWalk
  <2> QED BY <1>1, <1>3, <1>4, <2>5, <2>6, LowerStepSeen
<1>13. CASE s # NoScope /\ f.kind = "impl"
  <2>1. cx' = OpenImpl(cx, s, i, f)
    BY <1>1, <1>13 DEF LowerItem
  <2>2. Closed(prog, cx, i)
    <3>1. ~Has(cx, i)
      BY <1>2, <1>3, <1>13 DEF ToCome
    <3>2. \A j \in 1..Len(prog) : Mine(prog, i, j) => ~Has(cx, j)
      <4>1. i # NoItem
        BY <1>3 DEF NoItem
      <4> QED BY <1>2, <3>1, <4>1 DEF Settled, Mine
    <3> QED BY <1>3, <1>5, <1>13, <3>1, <3>2 DEF Closed
  <2>3. Record(prog, cx') /\ ImplOpened(cx, cx', i)
    BY <1>2, <1>5, <1>13, <2>1, <2>2, OpenImplIs
  <2>4. /\ \A j \in Ids : Has(cx, j) => cx'.own[j] = cx.own[j] /\ cx'.def[j] = cx.def[j] /\ Has(cx', j)
        /\ cx'.at = [cx.at EXCEPT ![i] = Inner(cx)] /\ cx'.own[i] = Inner(cx) /\ cx'.fill = cx.fill
        /\ cx'.taken = cx.taken /\ Longer(cx, cx') /\ Fresh(cx, cx')
    BY <2>3 DEF ImplOpened
  <2>5. NoMarks(cx')
    <3>1. Len(cx'.defs) \in Nat
      BY <1>4, Sizes DEF WalkInv, Record, Arena
    <3>2. \A x \in 1..Len(cx'.defs) : x \in 1..Len(cx.defs) \/ x \in (Len(cx.defs) + 1)..Len(cx'.defs)
      BY <1>9, <3>1
    <3> QED BY <1>2, <2>4, <3>2 DEF NoMarks, Longer, Fresh
  <2>6. ASSUME Clean(cx') PROVE Clean(cx)
    <3>1. ASSUME NEW j, Said(cx, j) PROVE FALSE
      <4>1. j \in Ids /\ Has(cx, j) /\ RepeatsIn(prog, j)
        BY <1>2, <3>1 DEF Record
      <4>2. Has(cx', j)
        BY <2>4, <4>1
      <4>3. Said(cx', j)
        BY <2>3, <4>1, <4>2 DEF Record
      <4> QED BY <2>6, <4>3 DEF Clean
    <3> QED BY <2>4, <2>6, <3>1 DEF Clean
  <2>7. ASSUME Clean(cx')
        PROVE  /\ AtOwn(cx') /\ LoweredAs(prog, cx', i) /\ Clean(cx)
               /\ f.kind \notin {"use", "alias"} => EnteredOwn(cx', i)
               /\ \A j \in 1..Len(prog) : j < i =>
                    /\ LoweredAs(prog, cx, j) => LoweredAs(prog, cx', j)
                    /\ EnteredOwn(cx, j) => EnteredOwn(cx', j)
    <3>1. Has(cx', i) /\ cx'.at[i] = cx'.own[i]
      <4>1. Inner(cx) # NoScope
        BY <1>5, Sizes DEF Arena, Inner, NoScope
      <4> QED BY <1>5, <1>9, <2>4, <4>1 DEF Has
    <3>2. \A j \in Ids : j # i => cx'.at[j] = cx.at[j]
      BY <1>9, <2>4
    <3>3. AtOwn(cx')
      <4>1. AtOwn(cx)
        BY <1>7, <2>6, <2>7 DEF SeenRight
      <4>2. \A j \in Ids : cx.at[j] # NoScope => Has(cx, j)
        BY <1>2 DEF Entered
      <4> QED BY <2>4, <3>1, <3>2, <4>1, <4>2 DEF AtOwn
    <3>4. LoweredAs(prog, cx', i)
      BY <1>13, <3>1 DEF LoweredAs, NamedKinds
    <3>5. \A j \in 1..Len(prog) : j < i => j \in Ids /\ j # i
      BY <1>2, <1>20
    <3> HIDE DEF i
    <3>6. \A j \in 1..Len(prog) : j < i =>
            /\ LoweredAs(prog, cx, j) => LoweredAs(prog, cx', j)
            /\ EnteredOwn(cx, j) => EnteredOwn(cx', j)
      BY <2>4, <3>2, <3>5 DEF LoweredAs, EnteredOwn
    <3> QED BY <2>6, <2>7, <3>1, <3>3, <3>4, <3>6 DEF EnteredOwn
  <2> QED BY <1>1, <1>3, <1>4, <2>5, <2>7, LowerStepSeen
<1> QED BY <1>6, <1>10, <1>11, <1>12, <1>13
LEMMA EndImplSeen ==
  ASSUME SeenInv, EndImpl
  PROVE  SeenInv'
<1>1. pass' = pass /\ next' = next /\ prog' = prog
  BY DEF EndImpl
<1>2. /\ WalkInv' /\ SameWalk(cx, cx') /\ cx'.defs = cx.defs
      /\ Keeps(prog, cx, cx', NoItem) /\ SameOwn(cx, cx')
  BY EndImplIs DEF SeenInv
<1> QED BY <1>1, <1>2, SeenStays
(* The ends of the passes.                                                     *)
LEMMA TurnSeen ==
  ASSUME SeenInv, NEW from, NEW to, Turn(from, to),
         <<from, to>> \in {<<"lower", "collect">>, <<"collect", "check">>, <<"check", "done">>}
  PROVE  SeenInv'
<1>1. /\ pass = from /\ pass' = to /\ next' = 1 /\ next > Len(prog) /\ UNCHANGED <<prog, open, impls>>
      /\ cx' = [cx EXCEPT !.at = [i \in 1..MaxItems |-> NoScope]]
  BY DEF Turn
<1>2. \/ pass = "lower" /\ pass' = "collect"
      \/ pass = "collect" /\ pass' = "check"
      \/ pass = "check" /\ pass' = "done"
  BY <1>1
<1>3. WalkInv'
  BY <1>1, <1>2, TurnIs DEF SeenInv
<1>4. cx \in Contexts /\ Len(prog) \in Nat /\ next \in Nat
  BY DEF SeenInv, WalkInv, Record, Arena, Program
<1>5. /\ cx'.own = cx.own /\ cx'.def = cx.def /\ cx'.defs = cx.defs /\ cx'.fill = cx.fill /\ cx'.taken = cx.taken
      /\ cx'.diags = cx.diags /\ cx'.at = [i \in 1..MaxItems |-> NoScope]
  BY <1>1, <1>4 DEF Contexts
<1>6. (\A j \in 1..Len(prog) : j < next) /\ \A j \in 1..Len(prog) : ~(j < next')
  BY <1>1, <1>4
<1>7. ASSUME Clean(cx') PROVE SeenRight'
  <2>1. Clean(cx)
    BY <1>5, <1>7 DEF Clean, Said
  <2>2. SeenRight
    BY <2>1 DEF SeenInv
  <2>3. AtOwn(cx')
    BY <1>5 DEF AtOwn, Ids
  <2>4. Marks(prog, cx')
    <3>1. NoMarks(cx) => Marks(prog, cx)
      BY DEF NoMarks, Marks, MarkOK
    <3>2. Marks(prog, cx)
      BY <1>2, <2>2, <3>1 DEF SeenRight, SeenInv
    <3> QED BY <1>5, <3>2 DEF Marks, MarkOK, Has
  <2>5. \A j \in 1..Len(prog) : LoweredAs(prog, cx', j)
    BY <1>2, <1>5, <1>6, <2>2 DEF SeenRight, LoweredAs, Has
  <2>6. pass' \in {"check", "done"} => \A j \in 1..Len(prog) : Gathered(prog, j) => CollectedAs(cx', j)
    BY <1>2, <1>5, <1>6, <2>2 DEF SeenRight, CollectedAs
  <2>7. pass' = "done" => \A j \in 1..Len(prog) : prog[j].kind = "fn" /\ Reached(prog, j) => CheckedUnder(cx', j)
    BY <1>2, <1>5, <1>6, <2>2 DEF SeenRight, CheckedUnder
  <2> HIDE DEF Turn
  <2>8. prog' = prog /\ pass' \in {"collect", "check", "done"}
    BY <1>1, <1>2
  <2> QED BY <1>6, <2>3, <2>4, <2>5, <2>6, <2>7, <2>8 DEF SeenRight
<1> QED BY <1>2, <1>3, <1>7 DEF SeenInv
(* Collecting and checking.                                                    *)
LEMMA VisitSeen ==
  ASSUME SeenInv, pass \in {"collect", "check"}, pass' = pass, prog' = prog, WalkInv',
         Clean(cx') =>
           /\ AtOwn(cx') /\ Marks(prog, cx') /\ Clean(cx)
           /\ cx'.own = cx.own /\ cx'.def = cx.def /\ cx'.fill = cx.fill
           /\ \A j \in 1..Len(prog) : j < next' =>
                /\ pass = "collect" /\ Gathered(prog, j) => EnteredOwn(cx', j) /\ CollectedAs(cx', j)
                /\ pass = "check" /\ Reached(prog, j) => EnteredOwn(cx', j) /\ (prog[j].kind = "fn" => CheckedUnder(cx', j))
           /\ pass = "check" => \A j \in 1..Len(prog) : Gathered(prog, j) => CollectedAs(cx', j)
  PROVE  SeenInv'
<1>1. ASSUME Clean(cx') PROVE SeenRight'
  <2>1. SeenRight
    BY <1>1 DEF SeenInv
  <2>2. \A j \in 1..Len(prog) : LoweredAs(prog, cx', j)
    BY <1>1, <2>1 DEF SeenRight, LoweredAs, Has
  <2> QED BY <1>1, <2>2 DEF SeenRight
<1> QED BY <1>1 DEF SeenInv

Revisited(c, d, ds, as) ==
  /\ d.defs = ds /\ d.at = as /\ d.own = c.own /\ d.def = c.def /\ d.fill = c.fill
  /\ d.taken = c.taken /\ d.diags = c.diags /\ d.scopes = c.scopes /\ d.globs = c.globs

LEMMA RevisitedIs ==
  ASSUME NEW c, Arena(c), NEW ds, NEW as
  PROVE  Revisited(c, Revisit(c, ds, as), ds, as)
BY DEF Arena, Contexts, Revisit, Revisited

LEMMA DefsApart ==
  ASSUME NEW p, NEW c, Record(p, c), NEW i \in Ids, NEW j \in Ids, Has(c, i), Has(c, j),
         p[i].kind \in NamedKinds, p[j].kind \in NamedKinds, c.def[i] = c.def[j]
  PROVE  i = j
BY DEF Record, ItsOwn

LEMMA CollectSeen ==
  ASSUME SeenInv, CollectItem
  PROVE  SeenInv'
<1> DEFINE i == next
           f == prog[i]
           s == Here(cx, i)
           x == FoundAs(cx, s, f.kind, f.name)
           marks == [cx.defs EXCEPT ![x].collected = i]
           places == [cx.at EXCEPT ![i] = cx.defs[x].scope]
<1>1. /\ pass = "collect" /\ next <= Len(prog) /\ cx' = Collect(cx, i, f) /\ next' = next + 1
      /\ prog' = prog /\ pass' = pass
  BY DEF CollectItem
<1>2. WalkInv /\ Program(prog) /\ Record(prog, cx) /\ Arena(cx) /\ next \in Nat /\ next >= 1 /\ Len(prog) \in Nat
  BY DEF SeenInv, WalkInv, Record, Program
<1>3. i \in 1..Len(prog)
  BY <1>1, <1>2
<1>4. i \in Ids /\ ItemOK(prog, i) /\ s \in 0..Len(cx.scopes) /\ \A j \in 1..Len(prog) : j \in Ids
  BY <1>2, <1>3, HereIs, ProgramIs
<1>5. f.kind \in {"fn", "mod"} => NamedItem(f)
  BY <1>4 DEF ItemOK
<1>6. WalkInv'
  BY <1>2, CollectItemIs
<1>7. \/ cx' = cx /\ (f.kind \notin {"fn", "mod"} \/ x = NoDef)
      \/ /\ f.kind \in {"fn", "mod"} /\ x # NoDef /\ x \in 1..Len(cx.defs) /\ s # NoScope
         /\ cx' = Revisit(cx, marks, places)
  <2>1. CASE f.kind \notin {"fn", "mod"} \/ x = NoDef
    <3>1. Collect(cx, i, f) = cx
      BY <2>1 DEF Collect
    <3> QED BY <1>1, <2>1, <3>1
  <2>2. CASE f.kind \in {"fn", "mod"} /\ x # NoDef
    <3>1. s # NoScope
      BY <2>2, FoundHere
    <3>2. x \in 1..Len(cx.defs) /\ Collect(cx, i, f) = Revisit(cx, marks, places)
      BY <1>2, <1>4, <1>5, <2>2, CollectIs
    <3> QED BY <1>1, <2>2, <3>1, <3>2
  <2> QED BY <2>1, <2>2
<1>8. Revisit(cx, marks, places).taken = cx.taken /\ Revisit(cx, marks, places).diags = cx.diags
  BY <1>2, RevisitedIs DEF Revisited
<1>9. Clean(cx') => Clean(cx)
  BY <1>7, <1>8 DEF Clean, Said
<1>10. ASSUME Clean(cx')
       PROVE  /\ SeenRight /\ AtOwn(cx) /\ Marks(prog, cx)
              /\ \A j \in 1..Len(prog) : j < i /\ Gathered(prog, j) => EnteredOwn(cx, j) /\ CollectedAs(cx, j)
  BY <1>1, <1>9, <1>10 DEF SeenInv, SeenRight
<1>11. ASSUME Clean(cx'), f.kind \in {"fn", "mod"}, s # NoScope
       PROVE  x = cx.def[i] /\ Has(cx, i) /\ x # NoDef /\ cx.defs[x].scope = cx.own[i]
  BY <1>2, <1>3, <1>9, <1>10, <1>11, FoundOwn DEF NamedKinds
<1>12. ASSUME Clean(cx'), Gathered(prog, i) PROVE s # NoScope /\ f.kind \in {"fn", "mod"}
  <2>1. f.up # NoItem => /\ f.up \in 1..Len(prog) /\ f.up < i /\ f.up \in f.around /\ prog[f.up].around \subseteq f.around
    BY <1>2, <1>3, UpIs
  <2>2. f.up # NoItem => Gathered(prog, f.up)
    BY <1>12, <2>1 DEF Gathered
  <2>3. f.up # NoItem => EnteredOwn(cx, f.up)
    BY <1>10, <1>12, <2>1, <2>2
  <2> QED BY <1>2, <1>3, <1>12, <2>3, HereOwn DEF Gathered
<1>13. \A j \in 1..Len(prog) : j < i + 1 => j < i \/ j = i
  BY <1>2
<1>14. cx.at \in [Ids -> Nat]
  BY <1>2 DEF Arena, Contexts
<1>15. CASE cx' = cx /\ (f.kind \notin {"fn", "mod"} \/ x = NoDef)
  <2>1. ASSUME Clean(cx') PROVE ~Gathered(prog, i)
    BY <1>11, <1>12, <1>15, <2>1
  <2>2. Clean(cx') => \A j \in 1..Len(prog) : j < next' /\ Gathered(prog, j) => EnteredOwn(cx', j) /\ CollectedAs(cx', j)
    BY <1>1, <1>10, <1>13, <1>15, <2>1
  <2> QED BY <1>1, <1>6, <1>9, <1>10, <1>15, <2>2, VisitSeen
<1>16. CASE /\ f.kind \in {"fn", "mod"} /\ x # NoDef /\ x \in 1..Len(cx.defs) /\ s # NoScope
            /\ cx' = Revisit(cx, marks, places)
  <2> HIDE DEF x, s
  <2>1. /\ cx'.defs = marks /\ cx'.at = places /\ cx'.own = cx.own /\ cx'.def = cx.def /\ cx'.fill = cx.fill
        /\ \A y \in 1..Len(cx.defs) : /\ marks[y].collected = (IF y = x THEN i ELSE cx.defs[y].collected)
                                      /\ marks[y].checked = cx.defs[y].checked
        /\ Len(marks) = Len(cx.defs)
    <3>1. Revisited(cx, cx', marks, places)
      BY <1>2, <1>16, RevisitedIs
    <3>2. i \in Nat
      BY <1>2
    <3>3. \A y \in 1..Len(cx.defs) : /\ marks[y].collected = (IF y = x THEN i ELSE cx.defs[y].collected)
                                     /\ marks[y].checked = cx.defs[y].checked
      BY <1>2, <1>16, <3>2, MarkedIs
    <3>4. SameButMarks(cx, marks)
      BY <1>2, <1>16, <3>2, MarkedIs
    <3> QED BY <3>1, <3>3, <3>4 DEF Revisited, SameButMarks
  <2> HIDE DEF marks
  <2>2. ASSUME Clean(cx')
        PROVE  /\ AtOwn(cx') /\ Marks(prog, cx') /\ EnteredOwn(cx', i) /\ CollectedAs(cx', i)
               /\ \A j \in 1..Len(prog) : j < i /\ Gathered(prog, j) => EnteredOwn(cx', j) /\ CollectedAs(cx', j)
    <3>1. x = cx.def[i] /\ Has(cx, i) /\ cx.defs[x].scope = cx.own[i]
      BY <1>11, <1>16, <2>2
    <3>2. \A j : Has(cx', j) <=> Has(cx, j)
      BY <2>1 DEF Has
    <3>3. places[i] = cx.own[i] /\ \A j \in Ids : j # i => places[j] = cx.at[j]
      BY <1>4, <1>14, <3>1
    <3> HIDE DEF places
    <3>4. AtOwn(cx')
      BY <1>10, <2>1, <2>2, <3>3 DEF AtOwn
    <3>5. Marks(prog, cx')
      <4> SUFFICES ASSUME NEW y \in 1..Len(cx.defs)
                   PROVE  MarkOK(prog, cx', y, marks[y].collected) /\ MarkOK(prog, cx', y, marks[y].checked)
        BY <2>1 DEF Marks
      <4>1. MarkOK(prog, cx, y, cx.defs[y].collected) /\ MarkOK(prog, cx, y, cx.defs[y].checked)
        BY <1>10, <2>2 DEF Marks
      <4>2. MarkOK(prog, cx, x, i)
        BY <1>3, <1>16, <3>1 DEF MarkOK, NamedKinds
      <4>3. MarkOK(prog, cx, y, marks[y].collected) /\ MarkOK(prog, cx, y, marks[y].checked)
        BY <2>1, <4>1, <4>2
      <4> QED BY <2>1, <3>2, <4>3 DEF MarkOK
    <3>6. EnteredOwn(cx', i) /\ CollectedAs(cx', i)
      BY <1>16, <2>1, <3>1, <3>2, <3>3 DEF EnteredOwn, CollectedAs
    <3>7. ASSUME NEW j \in 1..Len(prog), j < i, Gathered(prog, j)
          PROVE  EnteredOwn(cx', j) /\ CollectedAs(cx', j)
      <4>1. EnteredOwn(cx, j) /\ CollectedAs(cx, j) /\ j # i /\ j \in Ids
        BY <1>2, <1>4, <1>10, <2>2, <3>7
      <4>2. Has(cx, j) /\ prog[j].kind \in NamedKinds /\ f.kind \in NamedKinds
        BY <1>16, <3>7, <4>1 DEF EnteredOwn, Gathered, NamedKinds
      <4>3. cx.def[j] # x
        BY <1>2, <1>4, <3>1, <4>1, <4>2, DefsApart
      <4>4. cx.def[j] \in 1..Len(cx.defs)
        BY <1>2, <4>1, <4>2 DEF Record, ItsOwn
      <4> QED BY <2>1, <3>2, <3>3, <4>1, <4>3, <4>4 DEF EnteredOwn, CollectedAs
    <3> QED BY <3>4, <3>5, <3>6, <3>7
  <2>3. Clean(cx') => \A j \in 1..Len(prog) : j < next' /\ Gathered(prog, j) => EnteredOwn(cx', j) /\ CollectedAs(cx', j)
    BY <1>1, <1>13, <2>2
  <2> QED BY <1>1, <1>6, <1>9, <2>1, <2>2, <2>3, VisitSeen
<1> QED BY <1>7, <1>15, <1>16
\* A body is found under its own function, in an impl and elsewhere.
LEMMA BodyOwn ==
  ASSUME WalkInv, Clean(cx), AtOwn(cx), NEW i \in 1..Len(prog), prog[i].kind = "fn"
  PROVE  /\ FnDefOf(cx, i, prog[i]) # NoDef => Here(cx, i) # NoScope
         /\ Here(cx, i) # NoScope => FnDefOf(cx, i, prog[i]) = cx.def[i] /\ cx.def[i] # NoDef
<1> DEFINE f == prog[i]
           s == Here(cx, i)
<1>1. CASE f.up # 0 /\ prog[f.up].kind = "impl"
  <2>1. s = cx.at[f.up] /\ FnDefOf(cx, i, f) = IF s = NoScope THEN NoDef ELSE cx.def[i]
    BY <1>1 DEF FnDefOf, Here
  <2>2. s # NoScope => cx.def[i] # NoDef
    BY FoundOwn DEF NamedKinds
  <2> QED BY <2>1, <2>2
<1>2. CASE ~(f.up # 0 /\ prog[f.up].kind = "impl")
  <2>1. FnDefOf(cx, i, f) = FoundAs(cx, s, "fn", f.name)
    BY <1>2 DEF FnDefOf
  <2>2. s # NoScope => FoundAs(cx, s, "fn", f.name) = cx.def[i] /\ cx.def[i] # NoDef
    BY FoundOwn DEF NamedKinds
  <2>3. FoundAs(cx, s, "fn", f.name) # NoDef => s # NoScope
    BY FoundHere
  <2> QED BY <2>1, <2>2, <2>3
<1> QED BY <1>1, <1>2

\* A step of the checking walk that enters item i, and marks it if it is a function.
LEMMA EnterSeen ==
  ASSUME SeenInv, pass = "check", pass' = pass, prog' = prog, next' = next + 1, WalkInv',
         NEW marks, NEW places, cx' = Revisit(cx, marks, places), next \in 1..Len(prog),
         Len(marks) = Len(cx.defs), \A y \in 1..Len(cx.defs) : marks[y].collected = cx.defs[y].collected,
         Clean(cx) =>
           /\ \A j \in Ids : j # next => places[j] = cx.at[j]
           /\ places[next] \in {cx.at[next], cx.own[next]}
           /\ Reached(prog, next) => Has(cx, next) /\ places[next] = cx.own[next]
           /\ prog[next].kind = "fn" /\ Reached(prog, next) => marks[cx.def[next]].checked = next
           /\ \A y \in 1..Len(cx.defs) :
                \/ marks[y].checked = cx.defs[y].checked
                \/ marks[y].checked = next /\ prog[next].kind = "fn" /\ Has(cx, next) /\ cx.def[next] = y
  PROVE  SeenInv'
<1> DEFINE i == next
           f == prog[i]
<1>1. WalkInv /\ Program(prog) /\ Record(prog, cx) /\ Arena(cx) /\ next \in Nat
  BY DEF SeenInv, WalkInv, Record
<1>2. Revisited(cx, cx', marks, places)
  BY <1>1, RevisitedIs
<1>3. Clean(cx') => Clean(cx)
  BY <1>2 DEF Revisited, Clean, Said
<1>4. \A j \in 1..Len(prog) : j \in Ids
  BY <1>1, ProgramIs
<1>5. ASSUME Clean(cx')
      PROVE  /\ AtOwn(cx) /\ Marks(prog, cx)
             /\ \A j \in 1..Len(prog) : LoweredAs(prog, cx, j)
             /\ \A j \in 1..Len(prog) : Gathered(prog, j) => CollectedAs(cx, j)
             /\ \A j \in 1..Len(prog) : j < i /\ Reached(prog, j) => EnteredOwn(cx, j) /\ (prog[j].kind = "fn" => CheckedUnder(cx, j))
  BY <1>3, <1>5 DEF SeenInv, SeenRight
<1>6. ASSUME Clean(cx')
      PROVE  /\ \A j \in Ids : j # i => places[j] = cx.at[j]
             /\ places[i] \in {cx.at[i], cx.own[i]}
             /\ Reached(prog, i) => Has(cx, i) /\ places[i] = cx.own[i]
             /\ f.kind = "fn" /\ Reached(prog, i) => marks[cx.def[i]].checked = i
             /\ \A y \in 1..Len(cx.defs) :
                  \/ marks[y].checked = cx.defs[y].checked
                  \/ marks[y].checked = i /\ f.kind = "fn" /\ Has(cx, i) /\ cx.def[i] = y
  BY <1>3, <1>6
<1>7. \A j : Has(cx', j) <=> Has(cx, j)
  BY <1>2 DEF Revisited, Has
<1>8. \A j \in 1..Len(prog) : j < i + 1 => j < i \/ j = i
  BY <1>1
<1>9. ASSUME Clean(cx') PROVE AtOwn(cx')
  BY <1>2, <1>5, <1>6, <1>9 DEF AtOwn, Revisited
<1>10. ASSUME Clean(cx') PROVE Marks(prog, cx')
  <2> SUFFICES ASSUME NEW y \in 1..Len(cx.defs)
               PROVE  MarkOK(prog, cx', y, marks[y].collected) /\ MarkOK(prog, cx', y, marks[y].checked)
    BY <1>2 DEF Marks, Revisited
  <2>1. MarkOK(prog, cx, y, cx.defs[y].collected) /\ MarkOK(prog, cx, y, cx.defs[y].checked)
    BY <1>5, <1>10 DEF Marks
  <2>2. MarkOK(prog, cx, y, marks[y].collected)
    BY <2>1
  <2>3. MarkOK(prog, cx, y, marks[y].checked)
    <3>1. CASE marks[y].checked = cx.defs[y].checked
      BY <2>1, <3>1
    <3>2. CASE marks[y].checked = i /\ f.kind = "fn" /\ Has(cx, i) /\ cx.def[i] = y
      BY <3>2 DEF MarkOK, NamedKinds
    <3> QED BY <1>6, <1>10, <3>1, <3>2
  <2> QED BY <1>2, <1>7, <2>2, <2>3 DEF MarkOK, Revisited
<1>11. ASSUME Clean(cx'), NEW j \in 1..Len(prog), Gathered(prog, j) PROVE CollectedAs(cx', j)
  <2>1. LoweredAs(prog, cx, j) /\ CollectedAs(cx, j)
    BY <1>5, <1>11
  <2>2. prog[j].kind \in NamedKinds /\ Has(cx, j)
    BY <1>11, <2>1 DEF Gathered, LoweredAs, NamedKinds
  <2>3. cx.def[j] \in 1..Len(cx.defs)
    BY <1>1, <1>4, <2>2 DEF Record, ItsOwn
  <2> QED BY <1>2, <2>1, <2>3 DEF CollectedAs, Revisited
<1>12. ASSUME Clean(cx'), NEW j \in 1..Len(prog), j < i, Reached(prog, j)
       PROVE  EnteredOwn(cx', j) /\ (prog[j].kind = "fn" => CheckedUnder(cx', j))
  <2>1. EnteredOwn(cx, j) /\ (prog[j].kind = "fn" => CheckedUnder(cx, j)) /\ Has(cx, j) /\ j \in Ids /\ j # i
    BY <1>1, <1>4, <1>5, <1>12 DEF EnteredOwn
  <2>2. EnteredOwn(cx', j)
    BY <1>2, <1>6, <1>7, <1>12, <2>1 DEF EnteredOwn, Revisited
  <2>3. ASSUME prog[j].kind = "fn" PROVE CheckedUnder(cx', j)
    <3>1. cx.def[j] \in 1..Len(cx.defs)
      BY <1>1, <2>1, <2>3 DEF Record, ItsOwn, NamedKinds
    <3>2. ~(f.kind = "fn" /\ Has(cx, i) /\ cx.def[i] = cx.def[j])
      BY <1>1, <1>4, <2>1, <2>3, DefsApart DEF NamedKinds
    <3> QED BY <1>2, <1>6, <1>12, <2>1, <2>3, <3>1, <3>2 DEF CheckedUnder, Revisited
  <2> QED BY <2>2, <2>3
<1>13. ASSUME Clean(cx'), Reached(prog, i)
       PROVE  EnteredOwn(cx', i) /\ (f.kind = "fn" => CheckedUnder(cx', i))
  BY <1>2, <1>6, <1>7, <1>13 DEF EnteredOwn, CheckedUnder, Revisited
<1>14. cx'.own = cx.own /\ cx'.def = cx.def /\ cx'.fill = cx.fill
  BY <1>2 DEF Revisited
<1>15. ASSUME Clean(cx')
       PROVE  \A j \in 1..Len(prog) : j < next' /\ Reached(prog, j) =>
                EnteredOwn(cx', j) /\ (prog[j].kind = "fn" => CheckedUnder(cx', j))
  BY <1>8, <1>12, <1>13, <1>15
<1>16. pass # "collect"
  OBVIOUS
<1> QED BY <1>3, <1>9, <1>10, <1>11, <1>14, <1>15, <1>16, VisitSeen
LEMMA CheckSeen ==
  ASSUME SeenInv, CheckItem
  PROVE  SeenInv'
<1> DEFINE i == next
           f == prog[i]
           s == Here(cx, i)
           x == FoundAs(cx, s, f.kind, f.name)
           y == FnDefOf(cx, i, f)
<1>1. /\ pass = "check" /\ next <= Len(prog) /\ cx' = Check(cx, i, f) /\ next' = next + 1
      /\ prog' = prog /\ pass' = pass
  BY DEF CheckItem
<1>2. WalkInv /\ Program(prog) /\ Record(prog, cx) /\ Arena(cx) /\ next \in Nat /\ next >= 1 /\ Len(prog) \in Nat
  BY DEF SeenInv, WalkInv, Record, Program
<1>3. i \in 1..Len(prog)
  BY <1>1, <1>2
<1>4. i \in Ids /\ ItemOK(prog, i) /\ s \in 0..Len(cx.scopes)
  BY <1>2, <1>3, HereIs
<1>5. f.kind \in NamedKinds => NamedItem(f)
  BY <1>4 DEF ItemOK, NamedKinds
<1>6. WalkInv'
  BY <1>2, CheckItemIs
<1>7. CheckedAs(cx, cx', i, f, x, y)
  BY <1>1, <1>2, <1>4, <1>5, CheckIs
<1>8. ASSUME Clean(cx)
      PROVE  /\ AtOwn(cx) /\ Marks(prog, cx) /\ LoweredAs(prog, cx, i)
             /\ \A j \in 1..Len(prog) : j < i /\ Reached(prog, j) => EnteredOwn(cx, j)
  BY <1>1, <1>3, <1>8 DEF SeenInv, SeenRight
<1>9. ASSUME Clean(cx), s # NoScope, f.kind \in NamedKinds
      PROVE  x = cx.def[i] /\ Has(cx, i) /\ x # NoDef /\ cx.defs[x].scope = cx.own[i]
  BY <1>2, <1>3, <1>8, <1>9, FoundOwn
<1>10. ASSUME Clean(cx), Reached(prog, i) PROVE s # NoScope
  <2>1. f.up # NoItem => /\ f.up \in 1..Len(prog) /\ f.up < i /\ f.up \in f.around /\ prog[f.up].around \subseteq f.around
                         /\ prog[f.up].kind \in {"fn", "mod", "trait", "impl"}
    BY <1>2, <1>3, UpIs
  <2>2. f.up # NoItem => Reached(prog, f.up)
    BY <1>10, <2>1 DEF Reached
  <2>3. f.up # NoItem => EnteredOwn(cx, f.up)
    BY <1>8, <1>10, <2>1, <2>2
  <2> QED BY <1>2, <1>3, <2>3, HereOwn
<1>11. Reached(prog, i) => f.kind \in {"fn", "mod", "trait", "impl"} /\ (f.kind # "fn" => Walked(i, f))
  BY DEF Reached, Walked, NoItem
<1>12. ASSUME Clean(cx), f.kind = "fn" PROVE (y # NoDef => s # NoScope) /\ (s # NoScope => y = cx.def[i] /\ cx.def[i] # NoDef)
  BY <1>2, <1>3, <1>8, <1>12, BodyOwn
<1>13. cx = Revisit(cx, cx.defs, cx.at) /\ cx.at \in [Ids -> Nat]
  BY <1>2 DEF Arena, Contexts, Revisit
<1>14. ASSUME NEW n PROVE \A j \in Ids : Visiting(cx, i, n)[j] = IF j = i THEN n ELSE cx.at[j]
  BY <1>13 DEF Visiting
<1> HIDE DEF x, y, s
<1>15. CASE f.kind = "fn" /\ y # NoDef
  <2> DEFINE marks == Marked(cx, y, i)
             places == IF marks[y].checked = i THEN Visiting(cx, i, cx.defs[y].scope) ELSE cx.at
  <2>1. y \in 1..Len(cx.defs) /\ cx' = Revisit(cx, marks, places)
    BY <1>7, <1>15 DEF CheckedAs
  <2>2. /\ SameButMarks(cx, marks) /\ marks[y].checked = (IF cx.defs[y].checked = NoItem THEN i ELSE cx.defs[y].checked)
        /\ \A z \in 1..Len(cx.defs) : /\ z # y => marks[z].checked = cx.defs[z].checked
                                      /\ marks[z].collected = cx.defs[z].collected
    BY <1>2, <2>1, CheckBodyIs
  <2>3. ASSUME Clean(cx)
        PROVE  /\ y = cx.def[i] /\ Has(cx, i) /\ cx.defs[y].scope = cx.own[i] /\ marks[y].checked = i
    <3>1. y = cx.def[i] /\ Has(cx, i) /\ cx.defs[cx.def[i]].scope = cx.own[i]
      BY <1>9, <1>12, <1>15, <2>3 DEF NamedKinds
    <3>2. MarkOK(prog, cx, y, cx.defs[y].checked)
      BY <1>8, <2>1, <2>3 DEF Marks
    <3>3. cx.defs[y].checked # NoItem => cx.defs[y].checked = i
      <4> SUFFICES ASSUME cx.defs[y].checked # NoItem PROVE cx.defs[y].checked = i
        OBVIOUS
      <4> DEFINE k == cx.defs[y].checked
      <4>1. k \in 1..Len(prog) /\ prog[k].kind \in NamedKinds /\ Has(cx, k) /\ cx.def[k] = y
        BY <3>2 DEF MarkOK
      <4>2. k \in Ids
        BY <1>2, <4>1, ProgramIs
      <4> HIDE DEF k
      <4>3. k = i
        BY <1>2, <1>4, <1>15, <3>1, <4>1, <4>2, DefsApart DEF NamedKinds
      <4> QED BY <4>3 DEF k
    <3> QED BY <2>2, <3>1, <3>3
  <2>4. Clean(cx) => \A j \in Ids : places[j] = IF j = i THEN cx.own[i] ELSE cx.at[j]
    BY <1>14, <2>3
  <2>5. Len(marks) = Len(cx.defs)
    BY <2>2 DEF SameButMarks
  <2> HIDE DEF places, marks
  <2>6. ASSUME Clean(cx)
        PROVE  \A z \in 1..Len(cx.defs) :
                 \/ marks[z].checked = cx.defs[z].checked
                 \/ marks[z].checked = i /\ f.kind = "fn" /\ Has(cx, i) /\ cx.def[i] = z
    BY <1>15, <2>2, <2>3, <2>6
  <2> QED BY <1>1, <1>3, <1>4, <1>6, <2>1, <2>2, <2>3, <2>4, <2>5, <2>6, EnterSeen
<1>16. CASE f.kind \in {"mod", "trait"} /\ Walked(i, f) /\ x # NoDef
  <2> DEFINE places == Visiting(cx, i, cx.defs[x].scope)
  <2>1. x \in 1..Len(cx.defs) /\ cx' = Revisit(cx, cx.defs, places)
    BY <1>7, <1>16 DEF CheckedAs
  <2>2. s # NoScope
    BY <1>16, FoundHere DEF x
  <2>3. Clean(cx) => cx.defs[x].scope = cx.own[i] /\ Has(cx, i)
    BY <1>9, <1>16, <2>2 DEF NamedKinds
  <2>4. Clean(cx) => \A j \in Ids : places[j] = IF j = i THEN cx.own[i] ELSE cx.at[j]
    BY <1>14, <2>3
  <2> HIDE DEF places
  <2> QED BY <1>1, <1>3, <1>4, <1>6, <1>16, <2>1, <2>3, <2>4, EnterSeen
<1>17. CASE f.kind = "impl" /\ Walked(i, f)
  <2> DEFINE places == Visiting(cx, i, cx.own[i])
  <2>1. cx' = Revisit(cx, cx.defs, places)
    BY <1>7, <1>17 DEF CheckedAs
  <2>2. Clean(cx) => Has(cx, i)
    BY <1>8, <1>17 DEF LoweredAs
  <2>3. \A j \in Ids : places[j] = IF j = i THEN cx.own[i] ELSE cx.at[j]
    BY <1>14
  <2> HIDE DEF places
  <2> QED BY <1>1, <1>3, <1>4, <1>6, <1>17, <2>1, <2>2, <2>3, EnterSeen
<1>18. CASE cx' = cx /\ ~(f.kind = "fn" /\ y # NoDef) /\ ~(f.kind \in {"mod", "trait"} /\ Walked(i, f) /\ x # NoDef)
            /\ ~(f.kind = "impl" /\ Walked(i, f))
  <2>1. Clean(cx) => ~Reached(prog, i)
    BY <1>9, <1>10, <1>11, <1>12, <1>18 DEF NamedKinds
  <2>2. cx' = Revisit(cx, cx.defs, cx.at)
    BY <1>13, <1>18
  <2> QED BY <1>1, <1>3, <1>6, <2>1, <2>2, EnterSeen
<1> QED BY <1>7, <1>15, <1>16, <1>17, <1>18 DEF CheckedAs

LEMMA ReferencedSeen ==
  ASSUME SeenInv, NEW d \in DOMAIN cx.defs, CheckReferenced(d)
  PROVE  SeenInv'
<1> DEFINE k == cx.defs[d].collected
           marks == Marked(cx, d, k)
<1>1. /\ pass = "check" /\ k # NoItem /\ cx.defs[d].checked = NoItem /\ cx' = CheckBody(cx, d, k)
      /\ UNCHANGED <<prog, open, pass, next, impls>>
  BY DEF CheckReferenced
<1>2. WalkInv /\ Program(prog) /\ Record(prog, cx) /\ Arena(cx)
  BY DEF SeenInv, WalkInv, Record
<1>3. WalkInv'
  BY <1>2, ReferencedIs
<1>4. d \in 1..Len(cx.defs) /\ k \in Nat
  <2>1. d \in 1..Len(cx.defs)
    BY <1>2, Sizes DEF Arena
  <2> QED BY <1>2, <2>1, TyOfDef DEF DefRecords
<1>5. /\ cx' = Revisit(cx, marks, cx.at) /\ SameButMarks(cx, marks) /\ marks[d].checked = k
      /\ \A z \in 1..Len(cx.defs) : /\ z # d => marks[z].checked = cx.defs[z].checked
                                    /\ marks[z].collected = cx.defs[z].collected
  BY <1>1, <1>2, <1>4, CheckBodyIs
<1> HIDE DEF marks
<1>6. Revisited(cx, cx', marks, cx.at) /\ Len(marks) = Len(cx.defs)
  BY <1>2, <1>5, RevisitedIs DEF SameButMarks
<1>7. Clean(cx') => Clean(cx)
  BY <1>6 DEF Revisited, Clean, Said
<1>8. \A j : Has(cx', j) <=> Has(cx, j)
  BY <1>6 DEF Revisited, Has
<1>9. \A j \in 1..Len(prog) : j \in Ids
  BY <1>2, ProgramIs
<1>10. ASSUME Clean(cx')
       PROVE  /\ AtOwn(cx) /\ Marks(prog, cx)
              /\ \A j \in 1..Len(prog) : LoweredAs(prog, cx, j)
              /\ \A j \in 1..Len(prog) : Gathered(prog, j) => CollectedAs(cx, j)
              /\ \A j \in 1..Len(prog) : j < next /\ Reached(prog, j) => EnteredOwn(cx, j) /\ (prog[j].kind = "fn" => CheckedUnder(cx, j))
  BY <1>1, <1>7, <1>10 DEF SeenInv, SeenRight
<1>11. ASSUME Clean(cx') PROVE AtOwn(cx') /\ Marks(prog, cx')
  <2>1. AtOwn(cx')
    BY <1>6, <1>10, <1>11 DEF AtOwn, Revisited
  <2>2. Marks(prog, cx')
    <3> SUFFICES ASSUME NEW y \in 1..Len(cx.defs)
                 PROVE  MarkOK(prog, cx', y, marks[y].collected) /\ MarkOK(prog, cx', y, marks[y].checked)
      BY <1>6 DEF Marks, Revisited
    <3>1. MarkOK(prog, cx, y, cx.defs[y].collected) /\ MarkOK(prog, cx, y, cx.defs[y].checked)
      BY <1>10, <1>11 DEF Marks
    <3>2. MarkOK(prog, cx, y, marks[y].collected) /\ MarkOK(prog, cx, y, marks[y].checked)
      BY <1>5, <3>1
    <3> QED BY <1>6, <1>8, <3>2 DEF MarkOK, Revisited
  <2> QED BY <2>1, <2>2
<1>12. ASSUME Clean(cx'), NEW j \in 1..Len(prog), Gathered(prog, j) PROVE CollectedAs(cx', j)
  <2>1. LoweredAs(prog, cx, j) /\ CollectedAs(cx, j)
    BY <1>10, <1>12
  <2>2. prog[j].kind \in NamedKinds /\ Has(cx, j)
    BY <1>12, <2>1 DEF Gathered, LoweredAs, NamedKinds
  <2>3. cx.def[j] \in 1..Len(cx.defs)
    BY <1>2, <1>9, <2>2 DEF Record, ItsOwn
  <2> QED BY <1>5, <1>6, <2>1, <2>3 DEF CollectedAs, Revisited
<1>13. ASSUME Clean(cx'), NEW j \in 1..Len(prog), j < next, Reached(prog, j)
       PROVE  EnteredOwn(cx', j) /\ (prog[j].kind = "fn" => CheckedUnder(cx', j))
  <2>1. EnteredOwn(cx, j) /\ (prog[j].kind = "fn" => CheckedUnder(cx, j)) /\ Has(cx, j)
    BY <1>10, <1>13 DEF EnteredOwn
  <2>2. EnteredOwn(cx', j)
    BY <1>6, <1>8, <2>1 DEF EnteredOwn, Revisited
  <2>3. ASSUME prog[j].kind = "fn" PROVE CheckedUnder(cx', j)
    <3>1. cx.def[j] \in 1..Len(cx.defs)
      BY <1>2, <1>9, <2>1, <2>3 DEF Record, ItsOwn, NamedKinds
    <3>2. cx.defs[cx.def[j]].checked = j /\ j # NoItem
      BY <2>1, <2>3 DEF CheckedUnder, NoItem
    <3>3. cx.def[j] # d
      BY <1>1, <3>2
    <3> QED BY <1>5, <1>6, <3>1, <3>2, <3>3 DEF CheckedUnder, Revisited
  <2> QED BY <2>2, <2>3
<1>14. cx'.own = cx.own /\ cx'.def = cx.def /\ cx'.fill = cx.fill /\ prog' = prog /\ pass' = pass /\ next' = next
  BY <1>1, <1>6 DEF Revisited
<1>15. pass # "collect" /\ pass \in {"collect", "check"}
  BY <1>1
<1> QED BY <1>3, <1>7, <1>11, <1>12, <1>13, <1>14, <1>15, VisitSeen
LEMMA SeenNext ==
  ASSUME SeenInv, [Next]_vars
  PROVE  SeenInv'
<1>1. CASE UNCHANGED vars
  <2>1. UNCHANGED <<prog, open, pass, next, impls, cx>>
    BY <1>1 DEF vars
  <2>2. WalkInv'
    BY <2>1 DEF SeenInv, WalkInv
  <2> QED BY <2>1, <2>2 DEF SeenInv, SeenRight
<1>2. CASE Next
  <2>1. ASSUME NEW forms \in Forms, NEW f \in forms.items, Write(f) PROVE SeenInv'
    BY <2>1, WriteSeen
  <2>2. ASSUME Done PROVE SeenInv'
    BY <1>1, <2>2 DEF Done
  <2>3. ASSUME Turn("lower", "collect") \/ Turn("collect", "check") \/ Turn("check", "done") PROVE SeenInv'
    BY <2>3, TurnSeen
  <2>4. ASSUME NEW d \in DOMAIN cx.defs, CheckReferenced(d) PROVE SeenInv'
    BY <2>4, ReferencedSeen
  <2> QED BY <1>2, <2>1, <2>2, <2>3, <2>4, LeaveSeen, ResolveDoneSeen, LowerSeen, EndImplSeen, CollectSeen, CheckSeen DEF Next
<1> QED BY <1>1, <1>2

\* In a program without diagnostics, and in which no import takes a name from
\* something else, every pass sees each item as the item it is: it is lowered
\* into, collected under and checked under the definition it was declared as.
THEOREM EveryPassSeesTheSame == Spec => []SameInEveryPass
<1>1. Init => SeenInv
  BY FirstSeen
<1>2. SeenInv /\ [Next]_vars => SeenInv'
  BY SeenNext
<1>3. SeenInv => SameInEveryPass
  <2> SUFFICES ASSUME SeenInv, pass = "done", cx.diags = {}, ~cx.taken, NEW i \in Named
               PROVE  /\ FilledAsOwn(i)
                      /\ BodyWalked(i) => cx.defs[cx.def[i]].checked = i
                      /\ (prog[i].kind \in {"fn", "mod"} /\ \A a \in prog[i].around : prog[a].kind \in {"fn", "mod"})
                           => cx.defs[cx.def[i]].collected = i
    BY DEF SameInEveryPass
  <2>1. SeenRight
    BY DEF SeenInv, Clean, Said
  <2>2. i \in 1..Len(prog) /\ prog[i].kind \in NamedKinds
    <3>1. Program(prog) /\ i \in DOMAIN prog /\ prog[i].kind \notin {"impl", "use"}
      BY DEF Named, SeenInv, WalkInv
    <3>2. i \in 1..Len(prog)
      BY <3>1 DEF Program
    <3> QED BY <3>1, <3>2, ProgramIs
  <2>3. LoweredAs(prog, cx, i) /\ (Gathered(prog, i) => CollectedAs(cx, i))
        /\ (prog[i].kind = "fn" /\ Reached(prog, i) => CheckedUnder(cx, i))
    BY <2>1, <2>2 DEF SeenRight
  <2>4. FilledAsOwn(i)
    BY <2>2, <2>3 DEF LoweredAs, FilledAsOwn, NamedKinds
  <2>5. BodyWalked(i) => prog[i].kind = "fn" /\ Reached(prog, i)
    BY DEF BodyWalked, Reached, Walked, NoItem
  <2> QED BY <2>3, <2>4, <2>5 DEF CheckedUnder, CollectedAs, Gathered
<1> QED BY <1>1, <1>2, <1>3, PTL DEF Spec

(***************************************************************************)
(* What a glob has brought stays complete: only a use changes a scope, and *)
(* one that comes later and stands in the scope the glob names is one that *)
(* the property names too.                                                 *)
(***************************************************************************)
LaterUse(p, c, g) == \E j \in (g[1] + 1)..Len(p) : p[j].kind = "use" /\ p[j].up = c.defs[g[3]].item

GlobFits(p, c, g) ==
  g[1] \in 1..Len(p) /\ g[2] \in 1..Len(c.scopes) /\ g[3] \in 1..Len(c.defs) /\ c.defs[g[3]].kind \in {"mod", "enum"}

GlobsInv ==
  /\ SeenInv
  /\ pass = "resolve" => cx.globs = {}
  /\ \A g \in cx.globs :
       /\ GlobFits(prog, cx, g)
       /\ pass \in {"resolve", "lower"} => g[1] < next
       /\ Clean(cx) => LaterUse(prog, cx, g) \/ GlobOK(cx, g)

LEMMA GlobStays ==
  ASSUME NEW p, NEW c, Arena(c), NEW d, Arena(d), Leaves(c, d, Len(c.scopes)), Len(d.scopes) >= Len(c.scopes),
         Len(d.defs) >= Len(c.defs), \A x \in 1..Len(c.defs) : SameDef(d.defs[x], c.defs[x]), NEW g, GlobFits(p, c, g)
  PROVE  /\ GlobFits(p, d, g) /\ (LaterUse(p, c, g) => LaterUse(p, d, g)) /\ (GlobOK(c, g) => GlobOK(d, g))
<1> DEFINE t == c.defs[g[3]].scope
<1>1. /\ Len(c.scopes) \in Nat /\ Len(d.scopes) \in Nat /\ Len(c.defs) \in Nat /\ Len(d.defs) \in Nat
      /\ g[3] \in 1..Len(c.defs) /\ g[2] \in 1..Len(c.scopes) /\ c.defs[g[3]].kind \in {"mod", "enum"}
  BY Sizes DEF Arena, GlobFits
<1>2. SameDef(d.defs[g[3]], c.defs[g[3]])
  BY <1>1
<1>3. GlobFits(p, d, g)
  BY <1>1, <1>2 DEF GlobFits, SameDef
<1>4. LaterUse(p, c, g) => LaterUse(p, d, g)
  BY <1>2 DEF LaterUse, SameDef
<1>5. t \in 1..Len(c.scopes)
  <2>1. t \in Nat /\ t <= Len(c.scopes) /\ t # NoScope
    BY <1>1, TyOfDef DEF DefOK, DefRecords
  <2> QED BY <1>1, <2>1 DEF NoScope
<1>6. d.defs[g[3]].scope = t
  BY <1>2 DEF SameDef
<1> HIDE DEF t
<1>7. ASSUME GlobOK(c, g), NEW e \in Entries, Held(d, t, e), d.defs[d.scopes[t].entries[e]].kind # "generic"
      PROVE  d.scopes[g[2]].entries[e] = d.scopes[t].entries[e]
  <2>1. d.scopes[t].entries[e] = c.scopes[t].entries[e] /\ d.scopes[g[2]].entries[e] = c.scopes[g[2]].entries[e]
    BY <1>1, <1>5 DEF Leaves
  <2>2. Held(c, t, e)
    BY <1>7, <2>1 DEF Held
  <2>3. c.scopes[t].entries[e] \in 1..Len(c.defs)
    <3>1. c.scopes[t].entries[e] \in Nat
      BY <1>5, Sizes DEF Arena, ScopeRecords
    <3>2. c.scopes[t].entries[e] <= Len(c.defs)
      BY <1>5 DEF Arena, ScopeOK
    <3> QED BY <1>1, <2>2, <3>1, <3>2 DEF Held, NoDef
  <2>4. c.defs[c.scopes[t].entries[e]].kind # "generic"
    BY <1>7, <2>1, <2>3 DEF SameDef
  <2> QED BY <1>7, <2>1, <2>2, <2>4, Zenon DEF GlobOK, t
<1>8. GlobOK(c, g) => GlobOK(d, g)
  BY <1>6, <1>7, Zenon DEF GlobOK
<1> QED BY <1>3, <1>4, <1>8

LEMMA GlobsKeep ==
  ASSUME GlobsInv, SeenInv', pass # "resolve", prog' = prog, pass' # "resolve",
         pass' = "lower" => pass = "lower" /\ next' >= next,
         cx'.globs = cx.globs, Leaves(cx, cx', Len(cx.scopes)), Len(cx'.scopes) >= Len(cx.scopes),
         Len(cx'.defs) >= Len(cx.defs), \A x \in 1..Len(cx.defs) : SameDef(cx'.defs[x], cx.defs[x]),
         Clean(cx') => Clean(cx)
  PROVE  GlobsInv'
<1>1. Arena(cx) /\ Arena(cx') /\ next \in Nat /\ next' \in Nat /\ Len(prog) \in Nat
  BY DEF GlobsInv, SeenInv, WalkInv, Record, Program
<1> SUFFICES ASSUME NEW g \in cx.globs
             PROVE  /\ GlobFits(prog, cx', g)
                    /\ pass' \in {"resolve", "lower"} => g[1] < next'
                    /\ Clean(cx') => LaterUse(prog, cx', g) \/ GlobOK(cx', g)
  BY DEF GlobsInv
<1>2. /\ GlobFits(prog, cx, g)
      /\ pass \in {"resolve", "lower"} => g[1] < next
      /\ Clean(cx) => LaterUse(prog, cx, g) \/ GlobOK(cx, g)
  BY DEF GlobsInv
<1>3. GlobFits(prog, cx', g) /\ (LaterUse(prog, cx, g) => LaterUse(prog, cx', g)) /\ (GlobOK(cx, g) => GlobOK(cx', g))
  BY <1>1, <1>2, GlobStays
<1>4. pass' \in {"resolve", "lower"} => g[1] < next'
  <2>1. g[1] \in Nat
    BY <1>1, <1>2 DEF GlobFits
  <2> QED BY <1>1, <1>2, <2>1
<1> QED BY <1>2, <1>3, <1>4

\* A use that comes after a glob.
LEMMA GlobUsed ==
  ASSUME WalkInv, Clean(cx), AtOwn(cx), NEW i \in 1..Len(prog), prog[i].kind = "use", NEW s, s = Here(cx, i), s # NoScope,
         NEW d, Imports(cx, d, s, i), ~d.taken, NEW g, GlobFits(prog, cx, g), g[1] < i,
         LaterUse(prog, cx, g) \/ GlobOK(cx, g)
  PROVE  LaterUse(prog, d, g) \/ GlobOK(d, g)
<1> DEFINE t == cx.defs[g[3]].scope
           up == prog[i].up
           item == cx.defs[g[3]].item
<1>1. /\ Program(prog) /\ Record(prog, cx) /\ Arena(cx) /\ d.defs = cx.defs /\ KeepsNames(cx, d)
      /\ g[1] \in 1..Len(prog) /\ g[2] \in 1..Len(cx.scopes) /\ g[3] \in 1..Len(cx.defs) /\ cx.defs[g[3]].kind \in {"mod", "enum"}
  BY DEF WalkInv, Record, Imports, GlobFits
<1>2. Len(cx.scopes) \in Nat /\ Len(prog) \in Nat
  BY <1>1, Sizes DEF Arena, Program
<1>3. t \in 1..Len(cx.scopes)
  <2>1. t \in Nat /\ t <= Len(cx.scopes) /\ t # NoScope
    BY <1>1, TyOfDef, SMTT(30) DEF DefOK, DefRecords
  <2> QED BY <1>2, <2>1 DEF NoScope
<1>4. LaterUse(prog, cx, g) => LaterUse(prog, d, g)
  BY <1>1 DEF LaterUse
<1>5. CASE t = s
  <2>1. item \in 1..Len(prog) /\ prog[item].kind \in NamedKinds /\ Has(cx, item) /\ cx.def[item] = g[3]
    <3>1. Known(prog, cx, g[3])
      BY <1>1 DEF Record
    <3>2. cx.defs[g[3]].symbol # SELF_TYPE
      BY <1>1, TyOfDef DEF DefOK, SelfRight
    <3> QED BY <1>1, <3>1, <3>2 DEF Known
  <2>2. item \in Ids
    BY <1>1, <2>1, ProgramIs
  <2>3. t = cx.own[item]
    <3>1. ItsOwn(prog, cx, item)
      BY <1>1, <2>1, <2>2 DEF Record
    <3> QED BY <2>1, <3>1 DEF ItsOwn
  <2>4. up = item
    <3>1. CASE up = NoItem
      <4>1. s = Root
        BY <3>1 DEF Here, NoItem
      <4> QED BY <1>1, <1>5, <2>2, <2>3, <4>1 DEF Record, OwnsApart
    <3>2. CASE up # NoItem
      <4>1. up \in Ids
        BY <1>1, <3>2, UpIs
      <4>2. s = cx.own[up] /\ Has(cx, up)
        <5>1. s = cx.at[up]
          BY <3>2 DEF Here, NoItem
        <5> QED BY <4>1, <5>1 DEF AtOwn, Has
      <4> QED BY <1>1, <1>5, <2>2, <2>3, <4>1, <4>2 DEF Record, OwnsApart
    <3> QED BY <3>1, <3>2
  <2>5. i \in (g[1] + 1)..Len(prog)
    BY <1>1, <1>2
  <2> QED BY <1>1, <2>4, <2>5 DEF LaterUse
<1>6. CASE t # s
  <2> SUFFICES ASSUME GlobOK(cx, g), NEW e \in Entries, Held(d, t, e), d.defs[d.scopes[t].entries[e]].kind # "generic"
               PROVE  d.scopes[g[2]].entries[e] = d.scopes[t].entries[e]
    BY <1>1, <1>4, Zenon DEF GlobOK
  <2>1. d.scopes[t].entries[e] = cx.scopes[t].entries[e]
    BY <1>3, <1>6, Zenon DEF Imports
  <2>2. cx.scopes[g[2]].entries[e] = cx.scopes[t].entries[e] /\ Held(cx, t, e)
    BY <1>1, <2>1, Zenon DEF GlobOK, Held
  <2>3. Held(cx, g[2], e)
    BY <2>2, Zenon DEF Held
  <2>4. d.scopes[g[2]].entries[e] = cx.scopes[g[2]].entries[e]
    BY <1>1, <2>3, Zenon DEF KeepsNames
  <2> QED BY <2>1, <2>2, <2>4, Zenon
<1> QED BY <1>5, <1>6
LEMMA SameScopesLeave ==
  ASSUME NEW c, Arena(c), NEW d, d.scopes = c.scopes
  PROVE  Leaves(c, d, Len(c.scopes)) /\ Len(d.scopes) >= Len(c.scopes)
<1>1. Len(c.scopes) \in Nat
  BY Sizes DEF Arena
<1> QED BY <1>1 DEF Leaves

LEMMA FirstGlobs ==
  ASSUME Init
  PROVE  GlobsInv
<1>1. SeenInv
  BY FirstSeen
<1>2. cx.globs = {}
  BY DEF Init
<1> QED BY <1>1, <1>2 DEF GlobsInv

LEMMA ResolvingGlobs ==
  ASSUME GlobsInv, SeenInv', pass = "resolve", cx'.globs = cx.globs
  PROVE  GlobsInv'
BY DEF GlobsInv

LEMMA WriteGlobs ==
  ASSUME GlobsInv, NEW forms \in Forms, NEW form \in forms.items, Write(form)
  PROVE  GlobsInv'
<1>1. pass = "resolve" /\ SeenInv'
  BY WriteSeen DEF Write, GlobsInv
<1>2. WrittenAs(cx, cx')
  BY WriteIs DEF GlobsInv, SeenInv
<1>3. cx'.globs = cx.globs
  BY <1>2 DEF WrittenAs, Resolved, SameRest
<1> QED BY <1>1, <1>3, ResolvingGlobs

\* Steps that leave the scopes as they are and change nothing names need.
Visited(c, d) == \E ds, as : SameButMarks(c, ds) /\ d = Revisit(c, ds, as)

LEMMA VisitedGlobs ==
  ASSUME GlobsInv, SeenInv', Visited(cx, cx'), prog' = prog, pass # "resolve", pass' \in {"collect", "check", "done"}
  PROVE  GlobsInv'
<1>1. Arena(cx)
  BY DEF GlobsInv, SeenInv, WalkInv, Record
<1>2. PICK ds, as : SameButMarks(cx, ds) /\ cx' = Revisit(cx, ds, as)
  BY DEF Visited
<1>3. Revisited(cx, cx', ds, as)
  BY <1>1, <1>2, RevisitedIs
<1>4. /\ cx'.globs = cx.globs /\ cx'.scopes = cx.scopes /\ Len(cx'.defs) = Len(cx.defs) /\ Len(cx.defs) \in Nat
      /\ \A x \in 1..Len(cx.defs) : SameDef(cx'.defs[x], cx.defs[x])
      /\ (Clean(cx') => Clean(cx))
  BY <1>1, <1>2, <1>3, Sizes DEF Revisited, SameButMarks, Clean, Said, Arena
<1>5. Leaves(cx, cx', Len(cx.scopes)) /\ Len(cx'.scopes) >= Len(cx.scopes)
  BY <1>1, <1>4, SameScopesLeave
<1>6. Len(cx'.defs) >= Len(cx.defs)
  BY <1>4
<1>7. pass' # "resolve" /\ pass' # "lower"
  OBVIOUS
<1> QED BY <1>4, <1>5, <1>6, <1>7, GlobsKeep

LEMMA TurnGlobs ==
  ASSUME GlobsInv, NEW from, NEW to, Turn(from, to),
         <<from, to>> \in {<<"lower", "collect">>, <<"collect", "check">>, <<"check", "done">>}
  PROVE  GlobsInv'
<1>1. SeenInv'
  BY TurnSeen DEF GlobsInv
<1>2. /\ cx' = [cx EXCEPT !.at = [i \in 1..MaxItems |-> NoScope]] /\ prog' = prog
      /\ pass # "resolve" /\ pass' \in {"collect", "check", "done"}
  BY DEF Turn
<1>3. Arena(cx)
  BY DEF GlobsInv, SeenInv, WalkInv, Record
<1>4. cx' = Revisit(cx, cx.defs, [i \in 1..MaxItems |-> NoScope])
  BY <1>2, <1>3 DEF Revisit, Arena, Contexts
<1>5. SameButMarks(cx, cx.defs)
  BY <1>3, Sizes DEF Arena, Contexts, SameButMarks, SameDef
<1>6. Visited(cx, cx')
  BY <1>4, <1>5 DEF Visited
<1> QED BY <1>1, <1>2, <1>6, VisitedGlobs

LEMMA CollectGlobs ==
  ASSUME GlobsInv, CollectItem
  PROVE  GlobsInv'
<1> DEFINE i == next
           f == prog[i]
           x == FoundAs(cx, Here(cx, i), f.kind, f.name)
<1>1. /\ pass = "collect" /\ pass' = "collect" /\ prog' = prog /\ cx' = Collect(cx, i, f) /\ i <= Len(prog)
  BY DEF CollectItem
<1>2. SeenInv' /\ WalkInv
  BY CollectSeen DEF GlobsInv, SeenInv
<1>3. Program(prog) /\ Arena(cx) /\ i \in 1..Len(prog)
  BY <1>1, <1>2 DEF WalkInv, Record, Program
<1>4. i \in Ids /\ ItemOK(prog, i) /\ Here(cx, i) \in 0..Len(cx.scopes) /\ i \in Nat
  BY <1>2, <1>3, HereIs
<1>5. f.kind \in {"fn", "mod"} => NamedItem(f)
  BY <1>4 DEF ItemOK
<1>6. CASE f.kind \notin {"fn", "mod"} \/ x = NoDef
  <2>1. cx' = cx
    BY <1>1, <1>6 DEF Collect
  <2>2. cx' = Revisit(cx, cx.defs, cx.at)
    BY <1>3, <2>1 DEF Revisit, Arena, Contexts
  <2>3. SameButMarks(cx, cx.defs)
    BY <1>3, Sizes DEF Arena, Contexts, SameButMarks, SameDef
  <2>4. Visited(cx, cx')
    BY <2>2, <2>3 DEF Visited
  <2> QED BY <1>1, <1>2, <2>4, VisitedGlobs
<1>7. CASE f.kind \in {"fn", "mod"} /\ x # NoDef
  <2>1. x \in 1..Len(cx.defs)
        /\ Collect(cx, i, f) = Revisit(cx, [cx.defs EXCEPT ![x].collected = i], [cx.at EXCEPT ![i] = cx.defs[x].scope])
    BY <1>3, <1>4, <1>5, <1>7, CollectIs
  <2>2. SameButMarks(cx, [cx.defs EXCEPT ![x].collected = i])
    BY <1>3, <1>4, <2>1, MarkedIs
  <2> HIDE DEF x
  <2>3. Visited(cx, cx')
    BY <1>1, <2>1, <2>2 DEF Visited
  <2> QED BY <1>1, <1>2, <2>3, VisitedGlobs
<1> QED BY <1>6, <1>7

LEMMA CheckGlobs ==
  ASSUME GlobsInv, CheckItem
  PROVE  GlobsInv'
<1> DEFINE i == next
           f == prog[i]
           x == FoundAs(cx, Here(cx, i), f.kind, f.name)
           y == FnDefOf(cx, i, f)
<1>1. /\ pass = "check" /\ pass' = "check" /\ prog' = prog /\ cx' = Check(cx, i, f) /\ i <= Len(prog)
  BY DEF CheckItem
<1>2. SeenInv' /\ WalkInv
  BY CheckSeen DEF GlobsInv, SeenInv
<1>3. Program(prog) /\ Arena(cx) /\ i \in 1..Len(prog)
  BY <1>1, <1>2 DEF WalkInv, Record, Program
<1>4. i \in Ids /\ ItemOK(prog, i) /\ Here(cx, i) \in 0..Len(cx.scopes) /\ i \in Nat
  BY <1>2, <1>3, HereIs
<1>5. f.kind \in NamedKinds => NamedItem(f)
  BY <1>4 DEF ItemOK, NamedKinds
<1>6. CheckedAs(cx, cx', i, f, x, y)
  BY <1>1, <1>3, <1>4, <1>5, CheckIs
<1>7. SameButMarks(cx, cx.defs) /\ cx = Revisit(cx, cx.defs, cx.at)
  BY <1>3, Sizes DEF Arena, Contexts, SameButMarks, SameDef, Revisit
<1> HIDE DEF x, y
<1>8. f.kind = "fn" /\ y # NoDef => Visited(cx, cx')
  <2> SUFFICES ASSUME f.kind = "fn", y # NoDef PROVE Visited(cx, cx')
    OBVIOUS
  <2>1. /\ y \in 1..Len(cx.defs)
        /\ cx' = Revisit(cx, Marked(cx, y, i), IF Marked(cx, y, i)[y].checked = i THEN Visiting(cx, i, cx.defs[y].scope) ELSE cx.at)
    BY <1>6 DEF CheckedAs
  <2>2. SameButMarks(cx, Marked(cx, y, i))
    BY <1>3, <1>4, <2>1, CheckBodyIs
  <2> QED BY <2>1, <2>2 DEF Visited
<1>9. \/ f.kind = "fn" /\ y # NoDef
      \/ \E as : cx' = Revisit(cx, cx.defs, as)
  BY <1>6, <1>7 DEF CheckedAs
<1>10. Visited(cx, cx')
  BY <1>7, <1>8, <1>9 DEF Visited
<1> QED BY <1>1, <1>2, <1>10, VisitedGlobs

LEMMA ReferencedGlobs ==
  ASSUME GlobsInv, NEW d \in DOMAIN cx.defs, CheckReferenced(d)
  PROVE  GlobsInv'
<1>1. /\ pass = "check" /\ pass' = "check" /\ prog' = prog /\ cx' = CheckBody(cx, d, cx.defs[d].collected)
  BY DEF CheckReferenced
<1>2. SeenInv' /\ Arena(cx)
  BY ReferencedSeen DEF GlobsInv, SeenInv, WalkInv, Record
<1>3. d \in 1..Len(cx.defs)
  BY <1>2, Sizes DEF Arena
<1>4. cx.defs[d].collected \in Nat
  BY <1>2, <1>3, TyOfDef DEF DefRecords
<1>5. Visited(cx, cx')
  BY <1>1, <1>2, <1>3, <1>4, CheckBodyIs DEF Visited
<1> QED BY <1>1, <1>2, <1>5, VisitedGlobs
LEMMA EndImplGlobs ==
  ASSUME GlobsInv, EndImpl
  PROVE  GlobsInv'
<1>1. /\ pass = "lower" /\ pass' = pass /\ next' = next /\ prog' = prog
  BY DEF EndImpl
<1>2. SeenInv' /\ WalkInv /\ Arena(cx) /\ next \in Nat
  BY EndImplSeen DEF GlobsInv, SeenInv, WalkInv, Record
<1>3. /\ cx'.scopes = cx.scopes /\ cx'.globs = cx.globs /\ cx'.defs = cx.defs /\ Keeps(prog, cx, cx', NoItem)
  BY <1>2, EndImplIs
<1>4. Clean(cx') => Clean(cx)
  BY <1>3, CleanBefore
<1>5. Leaves(cx, cx', Len(cx.scopes)) /\ Len(cx'.scopes) >= Len(cx.scopes)
  BY <1>2, <1>3, SameScopesLeave
<1>6. Len(cx'.defs) >= Len(cx.defs) /\ \A x \in 1..Len(cx.defs) : SameDef(cx'.defs[x], cx.defs[x])
  BY <1>2, <1>3, Sizes DEF SameDef, Arena
<1>7. pass' # "resolve" /\ pass # "resolve" /\ next' >= next
  BY <1>1, <1>2
<1> QED BY <1>1, <1>2, <1>3, <1>4, <1>5, <1>6, <1>7, GlobsKeep

LEMMA LowerGlobs ==
  ASSUME GlobsInv, Lower
  PROVE  GlobsInv'
<1> DEFINE i == next
           s == Here(cx, i)
           f == prog[i]
<1>1. /\ pass = "lower" /\ next <= Len(prog) /\ prog' = prog /\ pass' = "lower" /\ next' = next + 1
      /\ cx' = (IF s = NoScope THEN cx ELSE LowerItem(cx, s, i, f))
  BY DEF Lower
<1>2. /\ SeenInv' /\ WalkInv /\ Program(prog) /\ Record(prog, cx) /\ Arena(cx) /\ ToCome(prog, cx, next) /\ Settled(prog, cx)
      /\ next \in Nat /\ next >= 1 /\ Len(prog) \in Nat
  BY <1>1, LowerSeen DEF GlobsInv, SeenInv, WalkInv, Record, Program
<1>3. i \in 1..Len(prog) /\ next' >= next
  BY <1>1, <1>2
<1>4. /\ i \in Ids /\ ItemOK(prog, i) /\ s \in 0..Len(cx.scopes)
      /\ s # NoScope => s \in 1..Len(cx.scopes) /\ (f.up # NoItem => Has(cx, f.up))
  BY <1>2, <1>3, HereIs
<1>5. f.kind \in NamedKinds \cup {"impl", "use"} /\ f \in Items
  BY <1>2, <1>3, ProgramIs
<1>6. Len(cx.defs) \in Nat /\ Len(cx.scopes) \in Nat
  BY <1>2, Sizes DEF Arena
<1>7. pass # "resolve" /\ pass' # "resolve" /\ pass = "lower"
  BY <1>1
<1>8. CASE s = NoScope
  <2>1. cx' = cx
    BY <1>1, <1>8
  <2>2. Leaves(cx, cx', Len(cx.scopes)) /\ Len(cx'.scopes) >= Len(cx.scopes) /\ cx'.globs = cx.globs
    BY <1>2, <2>1, SameScopesLeave
  <2>3. Len(cx'.defs) >= Len(cx.defs) /\ \A x \in 1..Len(cx.defs) : SameDef(cx'.defs[x], cx.defs[x])
    BY <1>6, <2>1 DEF SameDef
  <2>4. Clean(cx') => Clean(cx)
    BY <2>1
  <2> QED BY <1>1, <1>2, <1>3, <1>7, <2>2, <2>3, <2>4, GlobsKeep
<1>9. CASE s # NoScope /\ f.kind \in NamedKinds
  <2>1. NamedItem(f) /\ cx' = LowerItem(cx, s, i, f)
    BY <1>1, <1>4, <1>9 DEF ItemOK, NamedKinds
  <2>2. Retouch(cx, cx')
    BY <1>2, <1>4, <2>1, LowerNamedItemIs DEF Lowered
  <2>3. cx'.scopes = cx.scopes /\ cx'.globs = cx.globs /\ Len(cx'.defs) >= Len(cx.defs)
        /\ \A x \in 1..Len(cx.defs) : SameDef(cx'.defs[x], cx.defs[x])
    BY <1>6, <2>2 DEF Retouch
  <2>4. Clean(cx') => Clean(cx)
    BY <1>2, <2>2, RetouchKeeps, CleanBefore
  <2>5. Leaves(cx, cx', Len(cx.scopes)) /\ Len(cx'.scopes) >= Len(cx.scopes)
    BY <1>2, <2>3, SameScopesLeave
  <2> QED BY <1>1, <1>2, <1>3, <1>7, <2>3, <2>4, <2>5, GlobsKeep
<1>10. CASE s # NoScope /\ f.kind = "impl"
  <2>1. cx' = OpenImpl(cx, s, i, f)
    BY <1>1, <1>10 DEF LowerItem
  <2>2. Closed(prog, cx, i)
    <3>1. ~Has(cx, i)
      BY <1>2, <1>3, <1>10 DEF ToCome
    <3>2. \A j \in 1..Len(prog) : Mine(prog, i, j) => ~Has(cx, j)
      <4>1. i # NoItem
        BY <1>3 DEF NoItem
      <4> QED BY <1>2, <3>1, <4>1 DEF Settled, Mine
    <3> QED BY <1>3, <1>4, <1>10, <3>1, <3>2 DEF Closed
  <2>3. Record(prog, cx') /\ ImplOpened(cx, cx', i)
    BY <1>2, <1>4, <1>10, <2>1, <2>2, OpenImplIs
  <2>4. cx'.globs = cx.globs /\ Leaves(cx, cx', Len(cx.scopes)) /\ cx'.taken = cx.taken /\ Len(cx'.defs) >= Len(cx.defs)
        /\ \A x \in 1..Len(cx.defs) : SameDef(cx'.defs[x], cx.defs[x])
    BY <2>3 DEF ImplOpened, Longer, SameDef
  <2>5. Len(cx'.scopes) >= Len(cx.scopes)
    <3>1. Len(cx'.scopes) >= Inner(cx) /\ Len(cx'.scopes) \in Nat
      BY <2>3, Sizes DEF ImplOpened, Record, Arena
    <3> QED BY <1>6, <3>1 DEF Inner
  <2>6. Clean(cx') => Clean(cx)
    <3> SUFFICES ASSUME Clean(cx'), NEW j, Said(cx, j) PROVE FALSE
      BY <2>4 DEF Clean
    <3>1. j \in Ids /\ Has(cx, j) /\ RepeatsIn(prog, j)
      BY <1>2 DEF Record
    <3>2. Has(cx', j)
      BY <2>3, <3>1 DEF ImplOpened
    <3>3. Said(cx', j)
      BY <2>3, <3>1, <3>2 DEF Record
    <3> QED BY <3>3 DEF Clean
  <2> QED BY <1>1, <1>2, <1>3, <1>7, <2>4, <2>5, <2>6, GlobsKeep
<1>11. CASE s # NoScope /\ f.kind = "use"
  <2>1. cx' = LowerUse(cx, s, i, f)
    BY <1>1, <1>11 DEF LowerItem
  <2>2. f.trees \in Seq(Trees) /\ \A n \in DOMAIN f.trees : f.trees[n].path # <<>> /\ f.trees[n].group < n
    BY <1>4, <1>5 DEF Items, ItemOK
  <2>3. Imports(cx, cx', s, i)
    BY <1>2, <1>4, <1>11, <2>1, <2>2, LowerUseIs
  <2>4. (Clean(cx') => Clean(cx) /\ ~cx'.taken) /\ cx'.defs = cx.defs /\ Len(cx'.scopes) = Len(cx.scopes)
        /\ \A g \in cx'.globs : g \in cx.globs \/ GlobIs(cx', g, s, i)
    BY <2>3 DEF Imports, Clean, SameReports, Said
  <2>5. Clean(cx) => AtOwn(cx)
    BY DEF GlobsInv, SeenInv, SeenRight
  <2>6. s \in 1..Len(cx.scopes)
    BY <1>4, <1>11
  <2>7. ASSUME NEW g \in cx.globs
        PROVE  GlobFits(prog, cx', g) /\ g[1] < next' /\ (Clean(cx') => LaterUse(prog, cx', g) \/ GlobOK(cx', g))
    <3>1. GlobFits(prog, cx, g) /\ g[1] < i /\ (Clean(cx) => LaterUse(prog, cx, g) \/ GlobOK(cx, g))
      BY <1>1, <2>7 DEF GlobsInv
    <3>2. GlobFits(prog, cx', g) /\ g[1] < next'
      <4>1. GlobFits(prog, cx', g)
        BY <2>4, <3>1 DEF GlobFits
      <4>2. g[1] \in Nat
        BY <1>2, <3>1 DEF GlobFits
      <4> QED BY <1>1, <1>2, <3>1, <4>1, <4>2
    <3>3. Clean(cx') => LaterUse(prog, cx', g) \/ GlobOK(cx', g)
      BY <1>2, <1>3, <1>11, <2>3, <2>4, <2>5, <3>1, GlobUsed
    <3> QED BY <3>2, <3>3
  <2>8. ASSUME NEW g \in cx'.globs, GlobIs(cx', g, s, i)
        PROVE  GlobFits(prog, cx', g) /\ g[1] < next' /\ (Clean(cx') => LaterUse(prog, cx', g) \/ GlobOK(cx', g))
    <3>1. g[1] = i /\ g[2] = s /\ g[3] \in 1..Len(cx'.defs) /\ cx'.defs[g[3]].kind \in {"mod", "enum"}
          /\ (~cx'.taken => GlobOK(cx', g))
      BY <2>8 DEF GlobIs
    <3>2. GlobFits(prog, cx', g)
      BY <1>3, <2>4, <2>6, <3>1 DEF GlobFits
    <3>3. g[1] < next'
      BY <1>1, <1>2, <3>1
    <3> QED BY <2>4, <3>1, <3>2, <3>3
  <2>9. \A g \in cx'.globs :
          GlobFits(prog, cx', g) /\ g[1] < next' /\ (Clean(cx') => LaterUse(prog, cx', g) \/ GlobOK(cx', g))
    BY <2>4, <2>7, <2>8
  <2> QED BY <1>1, <1>2, <1>7, <2>9 DEF GlobsInv
<1> QED BY <1>5, <1>8, <1>9, <1>10, <1>11

LEMMA GlobsNext ==
  ASSUME GlobsInv, [Next]_vars
  PROVE  GlobsInv'
<1>1. CASE UNCHANGED vars
  <2>1. UNCHANGED <<prog, open, pass, next, impls, cx>>
    BY <1>1 DEF vars
  <2>2. SeenInv'
    BY SeenNext DEF GlobsInv
  <2> QED BY <2>1, <2>2 DEF GlobsInv
<1>2. CASE Next
  <2>1. ASSUME NEW forms \in Forms, NEW f \in forms.items, Write(f) PROVE GlobsInv'
    BY <2>1, WriteGlobs
  <2>2. ASSUME Done PROVE GlobsInv'
    BY <1>1, <2>2 DEF Done
  <2>3. ASSUME Turn("lower", "collect") \/ Turn("collect", "check") \/ Turn("check", "done") PROVE GlobsInv'
    BY <2>3, TurnGlobs
  <2>4. ASSUME NEW d \in DOMAIN cx.defs, CheckReferenced(d) PROVE GlobsInv'
    BY <2>4, ReferencedGlobs
  <2>5. ASSUME Leave \/ ResolveDone PROVE GlobsInv'
    <3>1. pass = "resolve" /\ cx' = cx /\ SeenInv'
      BY <2>5, LeaveSeen, ResolveDoneSeen DEF Leave, ResolveDone, GlobsInv
    <3> QED BY <3>1, ResolvingGlobs
  <2> QED BY <1>2, <2>1, <2>2, <2>3, <2>4, <2>5, LowerGlobs, EndImplGlobs, CollectGlobs, CheckGlobs DEF Next
<1> QED BY <1>1, <1>2

\* What a glob has brought is all there is in the module or enum it names, unless
\* a use that comes later stands in it; what imports bring is what its namespace
\* says, and no generic parameter leaves its scope.
THEOREM ImportsAreRight == Spec => []ImportsRight
<1>1. Init => GlobsInv
  BY FirstGlobs
<1>2. GlobsInv /\ [Next]_vars => GlobsInv'
  BY GlobsNext
<1>3. GlobsInv => GlobsComplete
  <2> SUFFICES ASSUME GlobsInv, pass \in {"check", "done"}, ~cx.taken, "AlreadyDefined" \notin {r[1] : r \in cx.diags},
                      NEW g \in cx.globs
               PROVE  LET from == cx.defs[g[3]]
                      IN  \/ \E j \in (g[1] + 1)..Len(prog) : prog[j].kind = "use" /\ prog[j].up = from.item
                          \/ \A e \in DOMAIN Offered(cx, from.scope) :
                               cx.scopes[g[2]].entries[e] = cx.scopes[from.scope].entries[e]
    BY DEF GlobsComplete
  <2>1. \A i : ~Said(cx, i)
    <3> SUFFICES ASSUME NEW i, <<"AlreadyDefined", i>> \in cx.diags PROVE FALSE
      BY DEF Said
    <3>1. <<"AlreadyDefined", i>>[1] = "AlreadyDefined"
      OBVIOUS
    <3> QED BY <3>1
  <2>2. LaterUse(prog, cx, g) \/ GlobOK(cx, g)
    BY <2>1 DEF GlobsInv, Clean
  <2> DEFINE t == cx.defs[g[3]].scope
  <2>3. \A e \in DOMAIN Offered(cx, t) : e \in Entries /\ Held(cx, t, e) /\ cx.defs[cx.scopes[t].entries[e]].kind # "generic"
    BY Zenon DEF Offered, Held, KindOf
  <2>4. GlobOK(cx, g) => \A e \in DOMAIN Offered(cx, t) : cx.scopes[g[2]].entries[e] = cx.scopes[t].entries[e]
    BY <2>3, Zenon DEF GlobOK
  <2> HIDE DEF t
  <2>5. \/ \E j \in (g[1] + 1)..Len(prog) : prog[j].kind = "use" /\ prog[j].up = cx.defs[g[3]].item
        \/ \A e \in DOMAIN Offered(cx, t) : cx.scopes[g[2]].entries[e] = cx.scopes[t].entries[e]
    BY <2>2, <2>4 DEF LaterUse
  <2> QED BY <2>5, Zenon DEF t
<1>4. Spec => []GlobsComplete
  BY <1>1, <1>2, <1>3, PTL DEF Spec
<1>5. Spec => [](GenericsStayHome /\ EntriesOfTheirKind)
  BY GenericsAtHome
<1>6. GlobsComplete /\ GenericsStayHome /\ EntriesOfTheirKind => ImportsRight
  BY DEF ImportsRight
<1> QED BY <1>4, <1>5, <1>6, PTL
=============================================================================
