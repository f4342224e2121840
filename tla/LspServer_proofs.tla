--------------------------- MODULE LspServer_proofs ---------------------------
(***************************************************************************)
(* What the language server owes its editor, whatever the documents, the   *)
(* edits and the number of messages.  The server acts on the message at    *)
(* the head of the channel, so the invariants are about all that wait.     *)
(* The ids of the requests grow from head to tail, and are those between   *)
(* the number of answers and the number of questions, none left out.  And  *)
(* the documents have a history that the messages tell: from the texts of  *)
(* the server, each does to them what the editor did, up to its own.       *)
(***************************************************************************)
EXTENDS LspServer, Induction, FiniteSetTheorems
-----------------------------------------------------------------------------
(* LineIndex takes every place in a text to a byte offset and back, for all   *)
(* texts and characters of every width.                                       *)
Char == DOMAIN Utf8
IsWidth(w) == \A c \in Char : w[c] \in Nat \ {0}

LEMMA Widths == IsWidth(Utf8) /\ IsWidth(Utf16)
BY CharsAssumption DEF IsWidth, Char

(* What the definition of Count by recursion says.                            *)
Counting(f, w, t, from, m) ==
  f = [n \in 0..m |-> IF n < from THEN 0 ELSE f[n - 1] + w[t[n]]]

LEMMA CountingOn ==
  ASSUME NEW t, NEW w, NEW from \in Nat \ {0}, NEW f, NEW m \in Nat, Counting(f, w, t, from, m)
  PROVE  \E g : Counting(g, w, t, from, m + 1)
<1> DEFINE next == IF m + 1 < from THEN 0 ELSE f[m] + w[t[m + 1]]
           g == [n \in 0..(m + 1) |-> IF n = m + 1 THEN next ELSE f[n]]
<1>1. \A n \in 0..m : f[n] = IF n < from THEN 0 ELSE f[n - 1] + w[t[n]]
  BY DEF Counting
<1> HIDE DEF next
<1>2. ASSUME NEW n \in 0..(m + 1)
      PROVE  g[n] = IF n < from THEN 0 ELSE g[n - 1] + w[t[n]]
  <2>1. CASE n = m + 1
    <3>1. g[n] = next /\ g[n - 1] = f[m]
      BY <2>1
    <3> QED BY <2>1, <3>1 DEF next
  <2>2. CASE n # m + 1
    <3>1. n \in 0..m /\ g[n] = f[n]
      BY <2>2
    <3>2. n # 0 => g[n - 1] = f[n - 1]
      BY <3>1
    <3> QED BY <1>1, <3>1, <3>2
  <2> QED BY <2>1, <2>2
<1>3. Counting(g, w, t, from, m + 1)
  <2>1. PICK h : h = [n \in 0..(m + 1) |-> IF n < from THEN 0 ELSE g[n - 1] + w[t[n]]]
    OBVIOUS
  <2>2. DOMAIN g = 0..(m + 1) /\ g = [n \in DOMAIN g |-> g[n]]
    OBVIOUS
  <2> HIDE DEF g
  <2>3. g = h
    BY <1>2, <2>1, <2>2
  <2> QED BY <2>1, <2>3 DEF Counting
<1> HIDE DEF g
<1> QED BY <1>3

LEMMA CountIs ==
  ASSUME NEW t \in Seq(Char), NEW w, NEW from \in Nat \ {0}
  PROVE  \A n \in 0..Len(t) :
           Count(w, t, from, n) = IF n < from THEN 0 ELSE Count(w, t, from, n - 1) + w[t[n]]
<1> DEFINE S == {m \in Nat : \E f : Counting(f, w, t, from, m)}
<1>1. 0 \in S
  <2>1. PICK f : f = [n \in 0..0 |-> 0]
    OBVIOUS
  <2>2. f = [n \in 0..0 |-> IF n < from THEN 0 ELSE f[n - 1] + w[t[n]]]
    BY <2>1
  <2> QED BY <2>2 DEF Counting
<1>2. \A m \in Nat : m \in S => m + 1 \in S
  BY CountingOn
<1>3. \A m \in Nat : m \in S
  <2> HIDE DEF S
  <2> QED BY <1>1, <1>2, EveryNatural
<1>4. \E f : Counting(f, w, t, from, Len(t))
  BY <1>3
<1> DEFINE up == CHOOSE f : Counting(f, w, t, from, Len(t))
<1>5. Counting(up, w, t, from, Len(t))
  BY <1>4
<1>6. \A n : Count(w, t, from, n) = up[n]
  BY DEF Count, Counting
<1> HIDE DEF up
<1>7. \A n \in 0..Len(t) : up[n] = IF n < from THEN 0 ELSE up[n - 1] + w[t[n]]
  BY <1>5 DEF Counting
<1> QED BY <1>6, <1>7

(* Counting up to a later place counts more, from where it begins.            *)
LEMMA CountFacts ==
  ASSUME NEW t \in Seq(Char), NEW w, IsWidth(w), NEW from \in Nat \ {0}
  PROVE  /\ \A n \in 0..Len(t) : Count(w, t, from, n) \in Nat
         /\ \A n \in 0..Len(t) : n < from => Count(w, t, from, n) = 0
         /\ \A m, n \in 0..Len(t) :
              from - 1 <= m /\ m < n => Count(w, t, from, m) < Count(w, t, from, n)
<1> DEFINE C(n) == Count(w, t, from, n)
<1>0. Len(t) \in Nat /\ \A n \in 1..Len(t) : w[t[n]] \in Nat \ {0}
  BY DEF IsWidth
<1>1. \A n \in 0..Len(t) : C(n) = IF n < from THEN 0 ELSE C(n - 1) + w[t[n]]
  BY CountIs
<1> HIDE DEF C
<1>2. \A n \in 0..Len(t) : C(n) \in Nat
  <2> DEFINE S == {n \in 0..Len(t) : C(n) \in Nat}
  <2>1. 0 \in S
    BY <1>0, <1>1
  <2>2. ASSUME NEW n \in 0..(Len(t) - 1), n \in S PROVE n + 1 \in S
    <3>1. n + 1 \in 0..Len(t) /\ n + 1 \in 1..Len(t)
      BY <1>0
    <3>2. C(n + 1) = IF n + 1 < from THEN 0 ELSE C(n) + w[t[n + 1]]
      BY <1>1, <3>1
    <3> QED BY <1>0, <2>2, <3>1, <3>2
  <2>3. \A n \in 0..Len(t) : n \in S
    <3> HIDE DEF S
    <3> QED BY <1>0, <2>1, <2>2, UpTo
  <2> QED BY <2>3
<1>3. \A n \in 0..Len(t) : n < from => C(n) = 0
  BY <1>1
<1>4. ASSUME NEW m \in 0..Len(t), NEW n \in 0..Len(t), from - 1 <= m, m < n PROVE C(m) < C(n)
  <2> DEFINE S == {k \in 0..Len(t) : C(m) < C(k)}
  <2>1. \A k \in (m + 1)..Len(t) : C(k) = C(k - 1) + w[t[k]] /\ w[t[k]] \in Nat \ {0}
    BY <1>0, <1>1, <1>4
  <2>2. m + 1 \in S
    <3>1. m + 1 \in (m + 1)..Len(t) /\ (m + 1) - 1 = m
      BY <1>0, <1>4
    <3>2. C(m + 1) = C(m) + w[t[m + 1]] /\ w[t[m + 1]] \in Nat \ {0}
      BY <2>1, <3>1
    <3>3. C(m) \in Nat
      BY <1>2
    <3> QED BY <3>1, <3>2, <3>3
  <2>3. ASSUME NEW k \in (m + 1)..(Len(t) - 1), k \in S PROVE k + 1 \in S
    <3>1. k + 1 \in (m + 1)..Len(t) /\ C(k + 1) = C(k) + w[t[k + 1]]
      BY <1>0, <2>1
    <3> QED BY <1>0, <1>2, <2>1, <2>3, <3>1
  <2>4. \A k \in (m + 1)..Len(t) : k \in S
    <3> HIDE DEF S
    <3>1. m + 1 \in Nat /\ Len(t) \in Nat
      BY <1>0
    <3> QED BY <2>2, <2>3, <3>1, UpTo
  <2> QED BY <1>4, <2>4
<1> QED BY <1>2, <1>3, <1>4 DEF C
-----------------------------------------------------------------------------
(* The lines of a text: where they start, and which one a place is in.        *)
Feeds(t, n) == {k \in 1..n : t[k] = Newline}
Upto(t, n) == {s \in LineStarts(t) : s <= n}

LEMMA StartsFacts ==
  ASSUME NEW t \in Seq(Char)
  PROVE  /\ LineStarts(t) \in SUBSET (0..Len(t)) /\ 0 \in LineStarts(t)
         /\ IsFiniteSet(LineStarts(t)) /\ LastLine(t) \in Nat
         /\ \A n \in 0..Len(t) : IsFiniteSet(Upto(t, n)) /\ Cardinality(Upto(t, n)) \in Nat \ {0}
<1>1. LineStarts(t) \in SUBSET (0..Len(t)) /\ 0 \in LineStarts(t)
  BY DEF LineStarts
<1>2. IsFiniteSet(LineStarts(t))
  <2>1. IsFiniteSet(0..Len(t))
    BY FS_Interval
  <2> QED BY <1>1, <2>1, FS_Subset
<1>3. \A S \in SUBSET LineStarts(t) :
        IsFiniteSet(S) /\ (0 \in S => Cardinality(S) \in Nat \ {0})
  <2> SUFFICES ASSUME NEW S \in SUBSET LineStarts(t)
               PROVE  IsFiniteSet(S) /\ (0 \in S => Cardinality(S) \in Nat \ {0})
    OBVIOUS
  <2>1. IsFiniteSet(S)
    BY <1>2, FS_Subset
  <2>2. Cardinality(S) \in Nat /\ (Cardinality(S) = 0 <=> S = {})
    BY <2>1, FS_CardinalityType, FS_EmptySet
  <2> QED BY <2>1, <2>2
<1>4. LastLine(t) \in Nat
  BY <1>1, <1>3 DEF LastLine
<1>5. \A n \in 0..Len(t) : Upto(t, n) \in SUBSET LineStarts(t) /\ 0 \in Upto(t, n)
  BY <1>1 DEF Upto
<1> QED BY <1>1, <1>2, <1>3, <1>4, <1>5

LEMMA LineOfFacts ==
  ASSUME NEW t \in Seq(Char)
  PROVE  /\ \A n \in 0..Len(t) : LineOf(t, n) \in 0..LastLine(t)
         /\ \A m, n \in 0..Len(t) : m <= n => LineOf(t, m) <= LineOf(t, n)
         /\ \A m \in 0..Len(t) : \A s \in LineStarts(t) : m < s => LineOf(t, m) < LineOf(t, s)
         /\ \A n \in 0..Len(t) : Upto(t, n) = LineStarts(t) => LineOf(t, n) = LastLine(t)
<1>0. /\ LineStarts(t) \in SUBSET (0..Len(t)) /\ 0 \in LineStarts(t)
      /\ IsFiniteSet(LineStarts(t)) /\ LastLine(t) \in Nat
      /\ \A n \in 0..Len(t) : IsFiniteSet(Upto(t, n)) /\ Cardinality(Upto(t, n)) \in Nat \ {0}
  BY StartsFacts
<1>1. \A n : LineOf(t, n) = Cardinality(Upto(t, n)) - 1
  BY DEF LineOf, Upto
<1>2. LastLine(t) = Cardinality(LineStarts(t)) - 1
  BY DEF LastLine
<1>3. \A n \in 0..Len(t) : Cardinality(Upto(t, n)) <= Cardinality(LineStarts(t))
  <2>1. \A n : Upto(t, n) \in SUBSET LineStarts(t)
    BY DEF Upto
  <2> QED BY <1>0, <2>1, FS_Subset
<1>4. Cardinality(LineStarts(t)) \in Nat
  BY <1>0, FS_CardinalityType
<1>5. \A n \in 0..Len(t) : LineOf(t, n) \in 0..LastLine(t)
  BY <1>0, <1>1, <1>2, <1>3, <1>4
<1>6. ASSUME NEW m \in 0..Len(t), NEW n \in 0..Len(t), m <= n
      PROVE  /\ Upto(t, m) \in SUBSET Upto(t, n)
             /\ Cardinality(Upto(t, m)) <= Cardinality(Upto(t, n))
             /\ Cardinality(Upto(t, n)) = Cardinality(Upto(t, m)) => Upto(t, n) = Upto(t, m)
  <2>1. Upto(t, m) \in SUBSET Upto(t, n)
    BY <1>0, <1>6 DEF Upto
  <2> QED BY <1>0, <2>1, FS_Subset
<1>7. ASSUME NEW m \in 0..Len(t), NEW s \in LineStarts(t), m < s
      PROVE  LineOf(t, m) < LineOf(t, s)
  <2>1. s \in 0..Len(t) /\ m <= s
    BY <1>0, <1>7
  <2>2. s \in Upto(t, s) /\ s \notin Upto(t, m)
    BY <1>7, <2>1 DEF Upto
  <2>3. Cardinality(Upto(t, m)) # Cardinality(Upto(t, s))
    BY <1>6, <2>1, <2>2
  <2> QED BY <1>0, <1>1, <1>6, <2>1, <2>3
<1> QED BY <1>0, <1>1, <1>2, <1>5, <1>6, <1>7

(* Every place is in a line that starts before it, every line has one start,  *)
(* and the next line starts after every place in it.                          *)
LEMMA StartUnique ==
  ASSUME NEW t \in Seq(Char), NEW s \in LineStarts(t)
  PROVE  StartOfLine(t, LineOf(t, s)) = s
<1>1. \A r \in LineStarts(t) : LineOf(t, r) = LineOf(t, s) => r = s
  <2> SUFFICES ASSUME NEW r \in LineStarts(t), LineOf(t, r) = LineOf(t, s), r # s PROVE FALSE
    OBVIOUS
  <2>1. r \in 0..Len(t) /\ s \in 0..Len(t)
    BY StartsFacts
  <2>2. r < s => LineOf(t, r) < LineOf(t, s)
    BY <2>1, LineOfFacts
  <2>3. s < r => LineOf(t, s) < LineOf(t, r)
    BY <2>1, LineOfFacts
  <2>4. LineOf(t, s) \in Nat
    BY <2>1, LineOfFacts, StartsFacts
  <2> QED BY <2>1, <2>2, <2>3, <2>4
<1>2. StartOfLine(t, LineOf(t, s)) = CHOOSE r \in LineStarts(t) : LineOf(t, r) = LineOf(t, s)
  BY DEF StartOfLine
<1>3. (CHOOSE r \in LineStarts(t) : LineOf(t, r) = LineOf(t, s)) \in LineStarts(t)
  OBVIOUS
<1> QED BY <1>1, <1>2, <1>3

LEMMA LineStart ==
  ASSUME NEW t \in Seq(Char), NEW n \in 0..Len(t)
  PROVE  \E s \in LineStarts(t) :
           /\ s <= n /\ s = StartOfLine(t, LineOf(t, n)) /\ LineOf(t, s) = LineOf(t, n)
           /\ \A r \in LineStarts(t) : r <= n => r <= s
<1>0. LineStarts(t) \in SUBSET (0..Len(t)) /\ 0 \in LineStarts(t)
  BY StartsFacts
<1>1. Upto(t, n) \in SUBSET (0..n) /\ Upto(t, n) # {}
  BY <1>0 DEF Upto
<1>2. PICK s \in Upto(t, n) : \A r \in Upto(t, n) : r <= s
  <2>1. n \in Nat
    OBVIOUS
  <2> QED BY <1>1, <2>1, GreatestBelow
<1>3. s \in LineStarts(t) /\ s <= n /\ s \in 0..Len(t)
  BY <1>0, <1>2 DEF Upto
<1>4. Upto(t, s) = Upto(t, n)
  BY <1>0, <1>2, <1>3 DEF Upto
<1>5. LineOf(t, s) = LineOf(t, n)
  BY <1>4 DEF LineOf, Upto
<1>6. s = StartOfLine(t, LineOf(t, n))
  BY <1>3, <1>5, StartUnique
<1> QED BY <1>2, <1>3, <1>5, <1>6 DEF Upto

LEMMA NextLine ==
  ASSUME NEW t \in Seq(Char), NEW n \in 0..Len(t), LineOf(t, n) < LastLine(t)
  PROVE  \E s \in LineStarts(t) : /\ n < s /\ LineOf(t, s) = LineOf(t, n) + 1
                                 /\ s = StartOfLine(t, LineOf(t, n) + 1)
<1>0. /\ LineStarts(t) \in SUBSET (0..Len(t)) /\ 0 \in LineStarts(t)
      /\ IsFiniteSet(Upto(t, n)) /\ Cardinality(Upto(t, n)) \in Nat
  BY StartsFacts
<1> DEFINE S == {s \in LineStarts(t) : n < s}
<1>1. S \in SUBSET Nat /\ S # {}
  <2>1. Upto(t, n) # LineStarts(t)
    BY LineOfFacts, StartsFacts
  <2> QED BY <1>0, <2>1 DEF Upto
<1>2. PICK s \in S : \A r \in S : s <= r
  <2> HIDE DEF S
  <2> QED BY <1>1, LeastNatural
<1>3. s \in LineStarts(t) /\ n < s /\ s \notin Upto(t, n)
  BY <1>0, <1>2 DEF Upto
<1>4. Upto(t, s) = Upto(t, n) \cup {s}
  BY <1>0, <1>2, <1>3 DEF Upto
<1>5. Cardinality(Upto(t, s)) = Cardinality(Upto(t, n)) + 1
  BY <1>0, <1>3, <1>4, FS_AddElement
<1>6. LineOf(t, s) = LineOf(t, n) + 1
  BY <1>0, <1>5 DEF LineOf, Upto
<1>7. s = StartOfLine(t, LineOf(t, n) + 1)
  BY <1>3, <1>6, StartUnique
<1> QED BY <1>3, <1>6, <1>7

LEMMA LinesStart ==
  ASSUME NEW t \in Seq(Char)
  PROVE  \A l \in 0..LastLine(t) :
           StartOfLine(t, l) \in LineStarts(t) /\ LineOf(t, StartOfLine(t, l)) = l
<1> DEFINE S == {l \in 0..LastLine(t) : \E s \in LineStarts(t) : LineOf(t, s) = l}
<1>0. LastLine(t) \in Nat /\ LineStarts(t) \in SUBSET (0..Len(t)) /\ 0 \in LineStarts(t)
  BY StartsFacts
<1>1. 0 \in S
  <2>1. Upto(t, 0) = {0}
    BY <1>0 DEF Upto
  <2>2. LineOf(t, 0) = 0
    <3>1. LineOf(t, 0) = Cardinality(Upto(t, 0)) - 1
      BY DEF LineOf, Upto
    <3>2. Cardinality({0}) = 1
      BY FS_Singleton
    <3>3. Cardinality(Upto(t, 0)) = 1
      BY <2>1, <3>2, Zenon
    <3> QED BY <3>1, <3>3
  <2> QED BY <1>0, <2>2
<1>2. ASSUME NEW l \in 0..(LastLine(t) - 1), l \in S PROVE l + 1 \in S
  <2>1. PICK s \in LineStarts(t) : LineOf(t, s) = l
    BY <1>2
  <2>2. s \in 0..Len(t) /\ LineOf(t, s) < LastLine(t) /\ l + 1 \in 0..LastLine(t)
    BY <1>0, <2>1
  <2>3. \E r \in LineStarts(t) : LineOf(t, r) = l + 1
    BY <2>1, <2>2, NextLine
  <2> QED BY <2>2, <2>3
<1>3. \A l \in 0..LastLine(t) : l \in S
  <2> HIDE DEF S
  <2> QED BY <1>0, <1>1, <1>2, UpTo
<1> SUFFICES ASSUME NEW l \in 0..LastLine(t)
             PROVE  StartOfLine(t, l) \in LineStarts(t) /\ LineOf(t, StartOfLine(t, l)) = l
  OBVIOUS
<1>4. PICK s \in LineStarts(t) : LineOf(t, s) = l
  BY <1>3
<1> QED BY <1>4, StartUnique
-----------------------------------------------------------------------------
(* Where the characters of a text begin in bytes.                             *)
LEMMA BytesFacts ==
  ASSUME NEW t \in Seq(Char)
  PROVE  /\ \A n \in 0..Len(t) : Bytes(t, n) \in Nat
         /\ \A m, n \in 0..Len(t) : m < n <=> Bytes(t, m) < Bytes(t, n)
         /\ \A m, n \in 0..Len(t) : m <= n <=> Bytes(t, m) <= Bytes(t, n)
         /\ Bytes(t, 0) = 0
<1>1. /\ \A n \in 0..Len(t) : Bytes(t, n) \in Nat
      /\ \A m, n \in 0..Len(t) : m < n => Bytes(t, m) < Bytes(t, n)
      /\ Bytes(t, 0) = 0
  BY Widths, CountFacts DEF Bytes
<1> QED BY <1>1

LEMMA CharsBeforeIs ==
  ASSUME NEW t \in Seq(Char), NEW n \in 0..Len(t)
  PROVE  CharsBefore(t, Bytes(t, n)) = n
<1>1. {m \in 1..Len(t) : Bytes(t, m) <= Bytes(t, n)} = 1..n
  BY BytesFacts
<1>2. Cardinality(1..n) = n
  BY FS_Interval
<1> QED BY <1>1, <1>2 DEF CharsBefore

LEMMA SliceIs ==
  ASSUME NEW t \in Seq(Char), NEW m \in 0..Len(t), NEW n \in 0..Len(t)
  PROVE  Slice(t, Bytes(t, m), Bytes(t, n)) = SubSeq(t, m + 1, n)
BY CharsBeforeIs DEF Slice

(* The editor's position of a place: its line, and how far into it.           *)
LEMMA EditorPositionIs ==
  ASSUME NEW t \in Seq(Char), NEW n \in 0..Len(t)
  PROVE  EditorPosition(t, n) =
           [line |-> LineOf(t, n),
            character |-> Count(Utf16, t, StartOfLine(t, LineOf(t, n)) + 1, n)]
<1>1. Upto(t, n) = {0} \cup Feeds(t, n) /\ 0 \notin Feeds(t, n)
  BY DEF Upto, Feeds, LineStarts
<1>2. IsFiniteSet(Feeds(t, n)) /\ Cardinality(Feeds(t, n)) \in Nat
  <2>1. Feeds(t, n) \in SUBSET (1..n) /\ IsFiniteSet(1..n)
    BY FS_Interval DEF Feeds
  <2> QED BY <2>1, FS_Subset, FS_CardinalityType
<1>3. Cardinality(Upto(t, n)) = Cardinality(Feeds(t, n)) + 1
  <2>1. Cardinality(Feeds(t, n) \cup {0}) = Cardinality(Feeds(t, n)) + 1
    BY <1>1, <1>2, FS_AddElement
  <2>2. Feeds(t, n) \cup {0} = Upto(t, n)
    BY <1>1
  <2> QED BY <2>1, <2>2
<1>4. LineOf(t, n) = Cardinality(Feeds(t, n))
  BY <1>2, <1>3 DEF LineOf, Upto
<1>5. PICK s \in LineStarts(t) : /\ s <= n /\ s = StartOfLine(t, LineOf(t, n))
                                /\ \A r \in LineStarts(t) : r <= n => r <= s
  BY LineStart
<1>6. s \in Upto(t, n) /\ s \in Nat /\ \A r \in Upto(t, n) : r <= s
  BY <1>5, StartsFacts DEF Upto
<1> DEFINE first == IF Feeds(t, n) = {} THEN 1
                    ELSE 1 + CHOOSE k \in Feeds(t, n) : \A j \in Feeds(t, n) : j <= k
<1>7. first = s + 1
  <2>1. CASE Feeds(t, n) = {}
    BY <1>1, <1>6, <2>1
  <2>2. CASE Feeds(t, n) # {}
    <3>1. Feeds(t, n) \in SUBSET (1..n)
      BY DEF Feeds
    <3>2. s \in Feeds(t, n)
      BY <1>1, <1>6, <2>2, <3>1
    <3>3. \A k \in Feeds(t, n) : (\A j \in Feeds(t, n) : j <= k) => k = s
      BY <1>1, <1>6, <3>1, <3>2
    <3>4. \A j \in Feeds(t, n) : j <= s
      BY <1>1, <1>6
    <3>5. PICK c : c = CHOOSE k \in Feeds(t, n) : \A j \in Feeds(t, n) : j <= k
      OBVIOUS
    <3>6. c \in Feeds(t, n) /\ \A j \in Feeds(t, n) : j <= c
      BY <3>2, <3>4, <3>5
    <3>7. first = 1 + c
      BY <2>2, <3>5
    <3> HIDE DEF first
    <3> QED BY <1>6, <3>3, <3>6, <3>7
  <2> HIDE DEF first
  <2> QED BY <2>1, <2>2
<1>8. EditorPosition(t, n) = [line |-> Cardinality(Feeds(t, n)),
                              character |-> Count(Utf16, t, first, n)]
  BY DEF EditorPosition, Feeds
<1> HIDE DEF first
<1> QED BY <1>4, <1>5, <1>7, <1>8

(* Offset takes as many characters of the line as fit in the column.          *)
LastOf(t, line) == IF line < LastLine(t) THEN StartOfLine(t, line + 1) ELSE Len(t)

LEMMA LineBounds ==
  ASSUME NEW t \in Seq(Char), NEW l \in 0..LastLine(t)
  PROVE  /\ StartOfLine(t, l) \in 0..Len(t) /\ LastOf(t, l) \in 0..Len(t)
         /\ StartOfLine(t, l) <= LastOf(t, l)
         /\ \A n \in 0..Len(t) : LineOf(t, n) = l => n \in StartOfLine(t, l)..LastOf(t, l)
<1>1. StartOfLine(t, l) \in LineStarts(t) /\ LineOf(t, StartOfLine(t, l)) = l
  BY LinesStart
<1>2. LineStarts(t) \in SUBSET (0..Len(t)) /\ LastLine(t) \in Nat
  BY StartsFacts
<1>3. ASSUME NEW n \in 0..Len(t), LineOf(t, n) = l
      PROVE  /\ n \in StartOfLine(t, l)..LastOf(t, l) /\ LastOf(t, l) \in 0..Len(t)
  <2>1. StartOfLine(t, l) <= n /\ StartOfLine(t, l) \in 0..Len(t)
    BY <1>2, <1>3, LineStart
  <2>2. n <= LastOf(t, l) /\ LastOf(t, l) \in 0..Len(t)
    <3>1. CASE l < LastLine(t)
      BY <1>2, <1>3, <3>1, NextLine DEF LastOf
    <3>2. CASE ~(l < LastLine(t))
      BY <1>2, <3>2 DEF LastOf
    <3> QED BY <3>1, <3>2
  <2> QED BY <2>1, <2>2
<1>4. StartOfLine(t, l) \in 0..Len(t)
  BY <1>1, <1>2
<1> QED BY <1>1, <1>3, <1>4

LEMMA OffsetIs ==
  ASSUME NEW t \in Seq(Char), NEW line \in Nat, NEW ch \in Nat,
         NEW l, l = IF line < LastLine(t) THEN line ELSE LastLine(t)
  PROVE  \E g \in StartOfLine(t, l)..LastOf(t, l) :
           /\ Offset(t, [line |-> line, character |-> ch]) = Bytes(t, g)
           /\ Count(Utf16, t, StartOfLine(t, l) + 1, g) <= ch
           /\ \A m \in StartOfLine(t, l)..LastOf(t, l) :
                Count(Utf16, t, StartOfLine(t, l) + 1, m) <= ch => m <= g
<1> DEFINE first == StartOfLine(t, l)
           last  == LastOf(t, l)
           fits  == {n \in first..last : Count(Utf16, t, first + 1, n) <= ch}
           Most(n) == \A m \in fits : m <= n
<1>1. l \in 0..LastLine(t) /\ LastLine(t) \in Nat
  BY StartsFacts
<1>2. first \in 0..Len(t) /\ last \in 0..Len(t) /\ first <= last
  BY <1>1, LineBounds
<1>3. Offset(t, [line |-> line, character |-> ch]) = Bytes(t, CHOOSE n \in fits : Most(n))
  BY DEF Offset, LastOf
<1>4. first \in fits
  <2>1. Count(Utf16, t, first + 1, first) = 0
    <3>1. first + 1 \in Nat \ {0} /\ first < first + 1
      BY <1>2
    <3> HIDE DEF first
    <3> QED BY <1>2, <3>1, Widths, CountFacts
  <2> QED BY <1>2, <2>1
<1>5. \E n \in fits : Most(n)
  <2>1. fits \in SUBSET (0..last) /\ fits # {} /\ last \in Nat
    BY <1>2, <1>4
  <2> HIDE DEF fits
  <2> QED BY <2>1, GreatestBelow
<1>6. PICK g : g = CHOOSE n \in fits : Most(n)
  OBVIOUS
<1>7. g \in fits /\ Most(g)
  <2> HIDE DEF fits, Most
  <2> QED BY <1>5, <1>6
<1> QED BY <1>3, <1>6, <1>7
-----------------------------------------------------------------------------
LEMMA LineOfEditorPosition ==
  ASSUME NEW t \in Seq(Char), NEW n \in 0..Len(t)
  PROVE  /\ EditorPosition(t, n).line \in 0..LastLine(t)
         /\ EditorPosition(t, n).character \in Nat
<1>1. LineOf(t, n) \in 0..LastLine(t)
  BY LineOfFacts
<1>2. StartOfLine(t, LineOf(t, n)) \in 0..Len(t)
  BY <1>1, LineBounds
<1>3. PICK from : from = StartOfLine(t, LineOf(t, n)) + 1
  OBVIOUS
<1>4. from \in Nat \ {0}
  BY <1>2, <1>3
<1>5. Count(Utf16, t, from, n) \in Nat
  BY <1>4, Widths, CountFacts
<1> QED BY <1>1, <1>3, <1>5, EditorPositionIs

(* The places an editor can name go to a byte and back (LineIndex::offset and *)
(* LineIndex::position), in every text over characters of every width.        *)
THEOREM PlacesRoundTrip == \A t \in Seq(Char) : RoundTrips(t)
<1> SUFFICES ASSUME NEW t \in Seq(Char), NEW n \in 0..Len(t)
             PROVE  /\ Offset(t, EditorPosition(t, n)) = Bytes(t, n)
                    /\ Position(t, Bytes(t, n)) = EditorPosition(t, n)
  BY DEF RoundTrips
<1>1. PICK l : l = LineOf(t, n)
  OBVIOUS
<1>2. l \in 0..LastLine(t) /\ LastLine(t) \in Nat
  BY <1>1, LineOfFacts, StartsFacts
<1>3. PICK first : first = StartOfLine(t, l)
  OBVIOUS
<1>4. first \in 0..Len(t) /\ n \in first..LastOf(t, l) /\ LastOf(t, l) \in 0..Len(t)
  BY <1>1, <1>2, <1>3, LineBounds
<1>5. EditorPosition(t, n) = [line |-> l, character |-> Count(Utf16, t, first + 1, n)]
  BY <1>1, <1>3, EditorPositionIs
<1>6. PICK ch : ch = Count(Utf16, t, first + 1, n)
  OBVIOUS
<1>7. /\ ch \in Nat
      /\ \A m \in 0..Len(t) : first <= m /\ n < m => ch < Count(Utf16, t, first + 1, m)
      /\ \A m \in 0..Len(t) : Count(Utf16, t, first + 1, m) \in Nat
  <2>1. PICK from : from = first + 1
    OBVIOUS
  <2>2. from \in Nat \ {0} /\ from - 1 = first
    BY <1>4, <2>1
  <2>3. /\ \A m \in 0..Len(t) : Count(Utf16, t, from, m) \in Nat
        /\ \A k, m \in 0..Len(t) :
             from - 1 <= k /\ k < m => Count(Utf16, t, from, k) < Count(Utf16, t, from, m)
    BY <2>2, Widths, CountFacts
  <2> QED BY <1>4, <1>6, <2>1, <2>2, <2>3
<1>8. Offset(t, EditorPosition(t, n)) = Bytes(t, n)
  <2>1. l \in Nat /\ l = IF l < LastLine(t) THEN l ELSE LastLine(t)
    BY <1>2
  <2>2. PICK g \in first..LastOf(t, l) :
          /\ Offset(t, [line |-> l, character |-> ch]) = Bytes(t, g)
          /\ Count(Utf16, t, first + 1, g) <= ch
          /\ \A m \in first..LastOf(t, l) : Count(Utf16, t, first + 1, m) <= ch => m <= g
    BY <1>3, <1>7, <2>1, OffsetIs
  <2>3. n <= g
    BY <1>4, <1>6, <1>7, <2>2
  <2>4. g \in 0..Len(t) /\ first <= g /\ n \in Int /\ g \in Int
    BY <1>4, <2>2
  <2>5. ~(n < g)
    <3> SUFFICES ASSUME n < g PROVE FALSE
      OBVIOUS
    <3>1. ch < Count(Utf16, t, first + 1, g) /\ Count(Utf16, t, first + 1, g) \in Nat
      BY <1>7, <2>4
    <3> QED BY <1>7, <2>2, <3>1
  <2>6. g = n
    BY <2>3, <2>4, <2>5
  <2> QED BY <1>5, <1>6, <2>2, <2>6
<1>9. Position(t, Bytes(t, n)) = EditorPosition(t, n)
  BY <1>1, <1>3, <1>5, CharsBeforeIs DEF Position
<1> QED BY <1>8, <1>9

(* Whatever a position names, it stands for a whole number of characters; and *)
(* later columns and lines stand for later places.                            *)
LEMMA OffsetsInOrder ==
  ASSUME NEW t \in Seq(Char), NEW line \in Nat, NEW ch \in Nat
  PROVE  /\ Offset(t, [line |-> line, character |-> ch]) \in Boundaries(t)
         /\ \A more \in Nat : ch <= more =>
              Offset(t, [line |-> line, character |-> ch])
                <= Offset(t, [line |-> line, character |-> more])
         /\ line < LastLine(t) =>
              Offset(t, [line |-> line, character |-> ch])
                <= Offset(t, [line |-> line + 1, character |-> 0])
<1>1. PICK l : l = IF line < LastLine(t) THEN line ELSE LastLine(t)
  OBVIOUS
<1>2. l \in 0..LastLine(t) /\ LastLine(t) \in Nat
  BY <1>1, StartsFacts
<1>3. PICK first, last : first = StartOfLine(t, l) /\ last = LastOf(t, l)
  OBVIOUS
<1>4. first \in 0..Len(t) /\ last \in 0..Len(t) /\ first <= last
  BY <1>2, <1>3, LineBounds
<1>5. \A c \in Nat : \E g \in first..last :
        /\ Offset(t, [line |-> line, character |-> c]) = Bytes(t, g)
        /\ Count(Utf16, t, first + 1, g) <= c
        /\ \A m \in first..last : Count(Utf16, t, first + 1, m) <= c => m <= g
  BY <1>1, <1>3, OffsetIs
<1>6. PICK g \in first..last :
        /\ Offset(t, [line |-> line, character |-> ch]) = Bytes(t, g)
        /\ Count(Utf16, t, first + 1, g) <= ch
        /\ \A m \in first..last : Count(Utf16, t, first + 1, m) <= ch => m <= g
  BY <1>5
<1>7. g \in 0..Len(t)
  BY <1>4
<1>8. \A m \in 0..Len(t) : Count(Utf16, t, first + 1, m) \in Nat
  <2>1. first + 1 \in Nat \ {0}
    BY <1>4
  <2> QED BY <2>1, Widths, CountFacts
<1>9. ASSUME NEW more \in Nat, ch <= more
      PROVE  Offset(t, [line |-> line, character |-> ch])
               <= Offset(t, [line |-> line, character |-> more])
  <2>1. PICK h \in first..last :
          /\ Offset(t, [line |-> line, character |-> more]) = Bytes(t, h)
          /\ \A m \in first..last : Count(Utf16, t, first + 1, m) <= more => m <= h
    BY <1>5
  <2>2. Count(Utf16, t, first + 1, g) <= more
    BY <1>6, <1>7, <1>8, <1>9
  <2>3. g <= h /\ h \in 0..Len(t)
    BY <1>4, <2>1, <2>2
  <2> QED BY <1>6, <1>7, <2>1, <2>3, BytesFacts
<1>10. ASSUME line < LastLine(t)
       PROVE  Offset(t, [line |-> line, character |-> ch])
                <= Offset(t, [line |-> line + 1, character |-> 0])
  <2>1. l = line /\ last = StartOfLine(t, l + 1) /\ l + 1 \in 0..LastLine(t) /\ l + 1 \in Nat
    BY <1>1, <1>2, <1>3, <1>10 DEF LastOf
  <2>2. l + 1 = IF l + 1 < LastLine(t) THEN l + 1 ELSE LastLine(t)
    BY <1>2, <2>1
  <2>3. PICK h \in last..LastOf(t, l + 1) : Offset(t, [line |-> l + 1, character |-> 0]) = Bytes(t, h)
    BY <2>1, <2>2, OffsetIs
  <2>4. LastOf(t, l + 1) \in 0..Len(t)
    BY <2>1, LineBounds
  <2>5. g <= h /\ h \in 0..Len(t)
    BY <1>4, <2>3, <2>4
  <2> QED BY <1>6, <1>7, <2>1, <2>3, <2>5, BytesFacts
<1> QED BY <1>6, <1>7, <1>9, <1>10 DEF Boundaries
-----------------------------------------------------------------------------
Requests == {"hover", "inlayHint", "unknown", "shutdown"}
IsRequest(m) == m.method \in Requests

Questions ==
  /\ Len(answers) <= Len(asked)
  /\ \A i, j \in 1..Len(inbox) :
       i < j /\ IsRequest(inbox[i]) /\ IsRequest(inbox[j]) => inbox[i].id < inbox[j].id
  /\ \A i \in 1..Len(inbox) :
       IsRequest(inbox[i]) => inbox[i].id \in (Len(answers) + 1)..Len(asked)
  /\ \A n \in (Len(answers) + 1)..Len(asked) :
       \E i \in 1..Len(inbox) : IsRequest(inbox[i]) /\ inbox[i].id = n

(* A sequence whose elements are not told.                                   *)
IsSeq(s) == s \in Seq({s[i] : i \in 1..Len(s)})

Starts == phase = "Starting" => inbox = << [method |-> "initialize"] >>

IInv ==
  /\ IsSeq(inbox) /\ IsSeq(answers) /\ IsSeq(asked)
  /\ Starts
  /\ phase = "Running" => Questions
  /\ phase = "Starting" => Len(answers) = 0 /\ Len(asked) = 0
  /\ AnsweredInTurn
-----------------------------------------------------------------------------
LEMMA EmptyIsSeq == IsSeq(<< >>) /\ Len(<< >>) = 0
BY DEF IsSeq

LEMMA Retyped ==
  ASSUME NEW S, NEW s \in Seq(S)
  PROVE  IsSeq(s)
<1> DEFINE T == {s[i] : i \in 1..Len(s)}
<1>1. Len(s) \in Nat /\ DOMAIN s = 1..Len(s) /\ s = [i \in 1..Len(s) |-> s[i]]
  OBVIOUS
<1>2. s \in [1..Len(s) -> T]
  BY <1>1
<1>3. s \in Seq(T)
  BY <1>1, <1>2
<1> QED BY <1>3 DEF IsSeq

LEMMA AppendIsSeq ==
  ASSUME NEW s, NEW x, IsSeq(s)
  PROVE  /\ IsSeq(Append(s, x))
         /\ Len(s) \in Nat
         /\ Len(Append(s, x)) = Len(s) + 1
         /\ \A i \in 1..Len(s) : Append(s, x)[i] = s[i]
         /\ Append(s, x)[Len(s) + 1] = x
<1> DEFINE S == {s[i] : i \in 1..Len(s)} \cup {x}
           t == Append(s, x)
<1>1. s \in Seq(S) /\ x \in S
  BY DEF IsSeq
<1>2. t \in Seq(S) /\ Len(s) \in Nat /\ Len(t) = Len(s) + 1 /\ t[Len(s) + 1] = x
  BY <1>1
<1>3. \A i \in 1..Len(s) : t[i] = s[i]
  BY <1>1
<1>4. IsSeq(t)
  BY <1>2, Retyped
<1> QED BY <1>2, <1>3, <1>4

LEMMA TailIsSeq ==
  ASSUME NEW s, IsSeq(s), s # << >>
  PROVE  /\ IsSeq(Tail(s))
         /\ Len(s) \in Nat \ {0}
         /\ Len(Tail(s)) = Len(s) - 1
         /\ Head(s) = s[1]
         /\ \A i \in 1..Len(Tail(s)) : Tail(s)[i] = s[i + 1]
<1> DEFINE S == {s[i] : i \in 1..Len(s)}
           t == Tail(s)
<1>1. s \in Seq(S)
  BY DEF IsSeq
<1>2. /\ t \in Seq(S) /\ Len(s) \in Nat \ {0} /\ Len(t) = Len(s) - 1 /\ Head(s) = s[1]
      /\ \A i \in 1..Len(t) : t[i] = s[i + 1]
  BY <1>1
<1>3. IsSeq(t)
  BY <1>2, Retyped
<1> QED BY <1>2, <1>3
-----------------------------------------------------------------------------
(* A message that is no question joins the channel, or leaves it.            *)
LEMMA NotedJoins ==
  ASSUME IInv, phase = "Running", NEW m, ~IsRequest(m),
         inbox' = Append(inbox, m), UNCHANGED <<answers, asked>>
  PROVE  Questions'
<1>1. Questions /\ IsSeq(inbox)
  BY DEF IInv
<1>2. /\ Len(inbox) \in Nat /\ Len(inbox') = Len(inbox) + 1
      /\ \A i \in 1..Len(inbox) : inbox'[i] = inbox[i]
      /\ inbox'[Len(inbox) + 1] = m
  BY <1>1, AppendIsSeq
<1>3. \A i \in 1..Len(inbox') : IsRequest(inbox'[i]) => i \in 1..Len(inbox) /\ inbox'[i] = inbox[i]
  BY <1>2
<1>4. \A i, j \in 1..Len(inbox') :
        i < j /\ IsRequest(inbox'[i]) /\ IsRequest(inbox'[j]) => inbox'[i].id < inbox'[j].id
  BY <1>1, <1>3 DEF Questions
<1>5. \A i \in 1..Len(inbox') : IsRequest(inbox'[i]) => inbox'[i].id \in (Len(answers) + 1)..Len(asked)
  BY <1>1, <1>3 DEF Questions
<1>6. \A n \in (Len(answers) + 1)..Len(asked) :
        \E i \in 1..Len(inbox') : IsRequest(inbox'[i]) /\ inbox'[i].id = n
  BY <1>1, <1>2 DEF Questions
<1> QED BY <1>1, <1>4, <1>5, <1>6 DEF Questions, IsRequest

LEMMA NotedLeaves ==
  ASSUME IInv, phase = "Running", inbox # << >>, ~IsRequest(Head(inbox)),
         inbox' = Tail(inbox), UNCHANGED <<answers, asked>>
  PROVE  Questions'
<1>1. Questions /\ IsSeq(inbox)
  BY DEF IInv
<1>2. /\ Len(inbox) \in Nat \ {0} /\ Len(inbox') = Len(inbox) - 1
      /\ Head(inbox) = inbox[1]
      /\ \A i \in 1..Len(inbox') : inbox'[i] = inbox[i + 1]
  BY <1>1, TailIsSeq
<1>3. \A i \in 1..Len(inbox') : i + 1 \in 1..Len(inbox) /\ inbox'[i] = inbox[i + 1]
  BY <1>2
<1>4. ASSUME NEW i \in 1..Len(inbox'), NEW j \in 1..Len(inbox'),
             i < j, IsRequest(inbox'[i]), IsRequest(inbox'[j])
      PROVE  inbox'[i].id < inbox'[j].id
  <2>1. i + 1 \in 1..Len(inbox) /\ j + 1 \in 1..Len(inbox) /\ i + 1 < j + 1
    BY <1>2, <1>4
  <2>2. IsRequest(inbox[i + 1]) /\ IsRequest(inbox[j + 1])
    BY <1>3, <1>4
  <2>3. inbox[i + 1].id < inbox[j + 1].id
    BY <1>1, <2>1, <2>2 DEF Questions
  <2> QED BY <1>3, <2>3
<1>5. \A i \in 1..Len(inbox') : IsRequest(inbox'[i]) => inbox'[i].id \in (Len(answers) + 1)..Len(asked)
  BY <1>1, <1>3 DEF Questions
<1>6. ASSUME NEW n \in (Len(answers) + 1)..Len(asked)
      PROVE  \E i \in 1..Len(inbox') : IsRequest(inbox'[i]) /\ inbox'[i].id = n
  <2>1. PICK j \in 1..Len(inbox) : IsRequest(inbox[j]) /\ inbox[j].id = n
    BY <1>1 DEF Questions
  <2>2. j # 1
    BY <2>1, <1>2
  <2>3. j - 1 \in 1..Len(inbox') /\ inbox'[j - 1] = inbox[j]
    BY <2>2, <1>2
  <2> QED BY <2>1, <2>3
<1> QED BY <1>1, <1>4, <1>5, <1>6 DEF Questions, IsRequest

(* A question takes the next id and the last place.                          *)
LEMMA QuestionJoins ==
  ASSUME IInv, phase = "Running", NEW m, m.id = Len(asked) + 1, NEW about,
         inbox' = Append(inbox, m), asked' = Append(asked, about), UNCHANGED answers, IsRequest(m)
  PROVE  Questions'
<1>1. Questions /\ IsSeq(inbox) /\ IsSeq(asked) /\ IsSeq(answers)
  BY DEF IInv
<1>2. /\ Len(inbox) \in Nat /\ Len(inbox') = Len(inbox) + 1
      /\ \A i \in 1..Len(inbox) : inbox'[i] = inbox[i]
      /\ inbox'[Len(inbox) + 1] = m
      /\ Len(asked) \in Nat /\ Len(asked') = Len(asked) + 1 /\ Len(answers) \in Nat
  BY <1>1, AppendIsSeq
<1>3. \A i \in 1..Len(inbox') : i = Len(inbox) + 1 \/ (i \in 1..Len(inbox) /\ inbox'[i] = inbox[i])
  BY <1>2
<1>4. ASSUME NEW i \in 1..Len(inbox'), NEW j \in 1..Len(inbox'),
             i < j, IsRequest(inbox'[i]), IsRequest(inbox'[j])
      PROVE  inbox'[i].id < inbox'[j].id
  <2>1. i \in 1..Len(inbox) /\ inbox'[i] = inbox[i]
    BY <1>2, <1>3, <1>4
  <2>2. inbox[i].id \in (Len(answers) + 1)..Len(asked)
    BY <1>1, <1>4, <2>1 DEF Questions
  <2>3. CASE j = Len(inbox) + 1
    BY <1>2, <2>1, <2>2, <2>3
  <2>4. CASE j \in 1..Len(inbox) /\ inbox'[j] = inbox[j]
    BY <1>1, <1>4, <2>1, <2>4 DEF Questions
  <2> QED BY <1>3, <2>3, <2>4
<1>5. ASSUME NEW i \in 1..Len(inbox'), IsRequest(inbox'[i])
      PROVE  inbox'[i].id \in (Len(answers) + 1)..Len(asked')
  <2>1. CASE i = Len(inbox) + 1
    BY <1>1, <1>2, <2>1 DEF Questions
  <2>2. CASE i \in 1..Len(inbox) /\ inbox'[i] = inbox[i]
    <3>1. inbox[i].id \in (Len(answers) + 1)..Len(asked)
      BY <1>1, <1>5, <2>2 DEF Questions
    <3> QED BY <1>2, <2>2, <3>1
  <2> QED BY <1>3, <2>1, <2>2
<1>6. ASSUME NEW n \in (Len(answers) + 1)..Len(asked')
      PROVE  \E i \in 1..Len(inbox') : IsRequest(inbox'[i]) /\ inbox'[i].id = n
  <2>1. CASE n = Len(asked) + 1
    BY <1>2, <2>1
  <2>2. CASE n \in (Len(answers) + 1)..Len(asked)
    <3>1. PICK j \in 1..Len(inbox) : IsRequest(inbox[j]) /\ inbox[j].id = n
      BY <1>1, <2>2 DEF Questions
    <3> QED BY <1>2, <3>1
  <2> QED BY <1>2, <2>1, <2>2
<1>7. Len(answers) <= Len(asked')
  BY <1>1, <1>2 DEF Questions
<1> QED BY <1>4, <1>5, <1>6, <1>7 DEF Questions, IsRequest

(* The question at the head has the least id there is.                       *)
LEMMA HeadIsNext ==
  ASSUME IInv, phase = "Running", inbox # << >>, IsRequest(Head(inbox))
  PROVE  Head(inbox).id = Len(answers) + 1
<1>1. Questions /\ IsSeq(inbox) /\ IsSeq(asked) /\ IsSeq(answers)
  BY DEF IInv
<1>2. Len(inbox) \in Nat \ {0} /\ Head(inbox) = inbox[1]
  BY <1>1, TailIsSeq
<1>3. Len(answers) \in Nat /\ Len(asked) \in Nat
  BY <1>1, AppendIsSeq
<1>4. inbox[1].id \in (Len(answers) + 1)..Len(asked)
  BY <1>1, <1>2 DEF Questions
<1>5. Len(answers) + 1 \in (Len(answers) + 1)..Len(asked)
  BY <1>3, <1>4
<1>6. PICK i \in 1..Len(inbox) : IsRequest(inbox[i]) /\ inbox[i].id = Len(answers) + 1
  BY <1>1, <1>5 DEF Questions
<1>7. CASE i = 1
  BY <1>2, <1>6, <1>7
<1>8. CASE i # 1
  <2>1. inbox[1].id < inbox[i].id
    BY <1>1, <1>2, <1>6, <1>8 DEF Questions
  <2> QED BY <1>3, <1>4, <1>6, <2>1
<1> QED BY <1>7, <1>8

LEMMA QuestionAnswered ==
  ASSUME IInv, phase = "Running", inbox # << >>, IsRequest(Head(inbox)), NEW result,
         inbox' = Tail(inbox), Respond(Head(inbox).id, result), UNCHANGED asked
  PROVE  Questions' /\ IsSeq(answers') /\ AnsweredInTurn'
<1>1. Questions /\ IsSeq(inbox) /\ IsSeq(asked) /\ IsSeq(answers) /\ AnsweredInTurn
  BY DEF IInv
<1>2. /\ Len(inbox) \in Nat \ {0} /\ Len(inbox') = Len(inbox) - 1
      /\ Head(inbox) = inbox[1]
      /\ \A i \in 1..Len(inbox') : inbox'[i] = inbox[i + 1]
  BY <1>1, TailIsSeq
<1>3. /\ IsSeq(answers') /\ Len(answers) \in Nat /\ Len(answers') = Len(answers) + 1
      /\ \A i \in 1..Len(answers) : answers'[i] = answers[i]
      /\ answers'[Len(answers) + 1] = [id |-> Head(inbox).id, result |-> result]
  BY <1>1, AppendIsSeq DEF Respond
<1>4. Len(asked) \in Nat
  BY <1>1, AppendIsSeq
<1>5. inbox[1].id = Len(answers) + 1 /\ IsRequest(inbox[1])
  BY <1>2, HeadIsNext
<1>6. AnsweredInTurn'
  <2>1. DOMAIN answers = 1..Len(answers) /\ DOMAIN answers' = 1..Len(answers')
    BY <1>1, <1>3 DEF IsSeq
  <2>2. ASSUME NEW i \in DOMAIN answers' PROVE answers'[i].id = i
    <3>1. CASE i = Len(answers) + 1
      BY <1>2, <1>3, <1>5, <3>1
    <3>2. CASE i \in 1..Len(answers)
      BY <1>1, <1>3, <2>1, <3>2 DEF AnsweredInTurn
    <3> QED BY <1>3, <2>1, <3>1, <3>2
  <2> QED BY <2>2 DEF AnsweredInTurn
<1>7. \A i \in 1..Len(inbox') : i + 1 \in 1..Len(inbox) /\ inbox'[i] = inbox[i + 1]
  BY <1>2
<1>8. \A i, j \in 1..Len(inbox') :
        i < j /\ IsRequest(inbox'[i]) /\ IsRequest(inbox'[j]) => inbox'[i].id < inbox'[j].id
  BY <1>1, <1>7 DEF Questions
<1>9. ASSUME NEW i \in 1..Len(inbox'), IsRequest(inbox'[i])
      PROVE  inbox'[i].id \in (Len(answers') + 1)..Len(asked)
  <2>1. inbox[i + 1].id \in (Len(answers) + 1)..Len(asked)
    BY <1>1, <1>7, <1>9 DEF Questions
  <2>2. inbox[1].id < inbox[i + 1].id
    BY <1>1, <1>2, <1>5, <1>7, <1>9 DEF Questions
  <2> QED BY <1>3, <1>4, <1>5, <1>7, <2>1, <2>2
<1>10. ASSUME NEW n \in (Len(answers') + 1)..Len(asked)
       PROVE  \E i \in 1..Len(inbox') : IsRequest(inbox'[i]) /\ inbox'[i].id = n
  <2>1. n \in (Len(answers) + 1)..Len(asked) /\ n # Len(answers) + 1
    BY <1>3, <1>4
  <2>2. PICK j \in 1..Len(inbox) : IsRequest(inbox[j]) /\ inbox[j].id = n
    BY <1>1, <2>1 DEF Questions
  <2>3. j # 1
    BY <1>5, <2>1, <2>2
  <2>4. j - 1 \in 1..Len(inbox') /\ inbox'[j - 1] = inbox[j]
    BY <1>2, <2>3
  <2> QED BY <2>2, <2>4
<1>11. Len(answers') <= Len(asked)
  <2>1. inbox[1].id \in (Len(answers) + 1)..Len(asked)
    BY <1>1, <1>2, <1>5 DEF Questions
  <2> QED BY <1>3, <1>4, <1>5, <2>1
<1>12. Questions'
  BY <1>8, <1>9, <1>10, <1>11 DEF Questions, IsRequest
<1> QED BY <1>3, <1>6, <1>12
-----------------------------------------------------------------------------
LEMMA InitIInv == Init => IInv
<1> SUFFICES ASSUME Init PROVE IInv
  OBVIOUS
<1>1. IsSeq(inbox) /\ IsSeq(answers) /\ IsSeq(asked) /\ Len(answers) = 0 /\ Len(asked) = 0
  <2>1. IsSeq(<< >>) /\ Len(<< >>) = 0
    BY EmptyIsSeq
  <2>2. inbox \in Seq({[method |-> "initialize"]})
    BY DEF Init
  <2>3. IsSeq(inbox)
    BY <2>2, Retyped
  <2> QED BY <2>1, <2>3 DEF Init
<1>2. AnsweredInTurn
  BY DEF Init, AnsweredInTurn
<1> QED BY <1>1, <1>2 DEF Init, IInv, Starts

(* Send, for a message that is no question and for one that is.              *)
LEMMA SendKeeps ==
  ASSUME IInv, NEW m, Send(m), UNCHANGED asked, ~IsRequest(m)
  PROVE  IInv'
<1>1. IsSeq(inbox') /\ UNCHANGED <<phase, answers>> /\ phase # "Starting"
  BY AppendIsSeq DEF IInv, Send, server
<1>2. phase = "Running" => Questions'
  BY <1>1, NotedJoins DEF Send
<1> QED BY <1>1, <1>2 DEF IInv, Starts, AnsweredInTurn, IsSeq

LEMMA AskKeeps ==
  ASSUME IInv, NEW u, NEW position, NEW about, NEW method \in Requests, Ask(method, u, position, about)
  PROVE  IInv'
<1> DEFINE m == [method |-> method, uri |-> u, position |-> position, id |-> Len(asked) + 1]
<1>1. /\ IsSeq(inbox') /\ IsSeq(asked')
      /\ UNCHANGED <<phase, answers>> /\ phase # "Starting"
      /\ inbox' = Append(inbox, m) /\ asked' = Append(asked, about)
  BY AppendIsSeq DEF IInv, Ask, Send, server
<1>2. m.id = Len(asked) + 1 /\ IsRequest(m)
  BY DEF IsRequest
<1>3. phase = "Running" => Questions'
  <2> HIDE DEF m
  <2> QED BY <1>1, <1>2, QuestionJoins
<1> QED BY <1>1, <1>3 DEF IInv, Starts, AnsweredInTurn, IsSeq

LEMMA EditorKeeps ==
  ASSUME IInv, Editor
  PROVE  IInv'
<1>1. ASSUME NEW u \in Uri, NEW text \in Openings, EditorOpens(u, text)
      PROVE  IInv'
  <2> DEFINE m == [method |-> "didOpen", uri |-> u, text |-> text]
  <2>1. ~IsRequest(m)
    BY DEF IsRequest, Requests
  <2>2. Send(m) /\ UNCHANGED asked
    BY <1>1 DEF EditorOpens, EditorHas
  <2> HIDE DEF m
  <2> QED BY <2>1, <2>2, SendKeeps
<1>2. ASSUME NEW u \in Uri, EditorEdits(u)
      PROVE  IInv'
  <2>1. PICK changes : Send([method |-> "didChange", uri |-> u, changes |-> changes]) /\ UNCHANGED asked
    BY <1>2 DEF EditorEdits, EditorHas
  <2>2. ~IsRequest([method |-> "didChange", uri |-> u, changes |-> changes])
    BY DEF IsRequest, Requests
  <2> QED BY <2>1, <2>2, SendKeeps
<1>3. ASSUME NEW u \in Uri, EditorCloses(u)
      PROVE  IInv'
  <2>1. ~IsRequest([method |-> "didClose", uri |-> u])
    BY DEF IsRequest, Requests
  <2> QED BY <1>3, <2>1, SendKeeps DEF EditorCloses, EditorHas
<1>4. ASSUME NEW u \in Uri, EditorHovers(u)
      PROVE  IInv'
  BY <1>4, AskKeeps DEF EditorHovers, Requests
<1>5. ASSUME NEW u \in Uri, EditorAsksHints(u)
      PROVE  IInv'
  BY <1>5, AskKeeps DEF EditorAsksHints, Requests
<1>6. ASSUME NEW u \in Uri, EditorAsksUnknown(u)
      PROVE  IInv'
  BY <1>6, AskKeeps DEF EditorAsksUnknown, Requests
<1>7. CASE EditorNotifies
  <2>1. PICK m \in {"initialized", "garbled"} : Send([method |-> m]) /\ UNCHANGED asked
    BY <1>7 DEF EditorNotifies
  <2>2. ~IsRequest([method |-> m])
    BY DEF IsRequest, Requests
  <2> QED BY <2>1, <2>2, SendKeeps
<1>8. CASE EditorShutsDown
  BY <1>8, AskKeeps DEF EditorShutsDown, Requests
<1>9. CASE EditorExits
  <2>1. UNCHANGED <<phase, answers, asked>> /\ inbox' = Append(inbox, [method |-> "exit"])
    BY <1>9 DEF EditorExits, server, editor
  <2>2. ~IsRequest([method |-> "exit"])
    BY DEF IsRequest, Requests
  <2>3. IsSeq(inbox')
    BY <2>1, AppendIsSeq DEF IInv
  <2>4. phase # "Starting"
    <3> SUFFICES ASSUME phase = "Starting" PROVE FALSE
      OBVIOUS
    <3>1. inbox = << [method |-> "initialize"] >>
      BY DEF IInv, Starts
    <3>2. Last(inbox).method = "initialize"
      BY <3>1 DEF Last
    <3> QED BY <1>9, <3>2 DEF EditorExits
  <2>5. phase = "Running" => Questions'
    BY <2>1, <2>2, NotedJoins
  <2> QED BY <2>1, <2>3, <2>4, <2>5 DEF IInv, Starts, AnsweredInTurn, IsSeq
<1>10. CASE HangUp
  BY <1>10 DEF HangUp, server, IInv, Starts, AnsweredInTurn, IsSeq, Questions, IsRequest
<1> QED BY <1>1, <1>2, <1>3, <1>4, <1>5, <1>6, <1>7, <1>8, <1>9, <1>10 DEF Editor

(* A message the server takes without answering, whatever phase comes next.  *)
LEMMA NotedKeeps ==
  ASSUME IInv, NEW method, method \notin Requests, Takes(method), UNCHANGED answers, phase' # "Starting"
  PROVE  IInv'
<1>1. phase = "Running" /\ inbox # << >> /\ inbox' = Tail(inbox) /\ UNCHANGED asked /\ ~IsRequest(Head(inbox))
  BY DEF Takes, editor, IsRequest
<1>2. IsSeq(inbox') /\ Questions'
  BY <1>1, TailIsSeq, NotedLeaves DEF IInv
<1> QED BY <1>1, <1>2 DEF IInv, Starts, AnsweredInTurn, IsSeq

(* A request whose text ends the process.                                    *)
LEMMA CrashKeeps ==
  ASSUME IInv, NEW method, Takes(method), UNCHANGED answers, phase' = "Crashed"
  PROVE  IInv'
<1>1. inbox # << >> /\ inbox' = Tail(inbox) /\ UNCHANGED asked
  BY DEF Takes, editor
<1>2. IsSeq(inbox')
  BY <1>1, TailIsSeq DEF IInv
<1> QED BY <1>1, <1>2 DEF IInv, Starts, AnsweredInTurn, IsSeq

LEMMA AnswerKeeps ==
  ASSUME IInv, NEW method \in Requests, Takes(method), NEW result, Respond(Head(inbox).id, result),
         phase' # "Starting"
  PROVE  IInv'
<1>1. phase = "Running" /\ inbox # << >> /\ inbox' = Tail(inbox) /\ UNCHANGED asked /\ IsRequest(Head(inbox))
  BY DEF Takes, editor, IsRequest
<1>2. IsSeq(inbox')
  BY <1>1, TailIsSeq DEF IInv
<1>3. Questions' /\ IsSeq(answers') /\ AnsweredInTurn'
  BY <1>1, QuestionAnswered
<1> QED BY <1>1, <1>2, <1>3 DEF IInv, Starts, IsSeq

LEMMA ServeKeeps ==
  ASSUME IInv, Serve
  PROVE  IInv'
<1> USE DEF Requests
<1>1. CASE Initialize
  <2>1. inbox = << [method |-> "initialize"] >> /\ inbox' = Tail(inbox) /\ UNCHANGED <<answers, asked>>
        /\ phase' = "Running" /\ Len(answers) = 0 /\ Len(asked) = 0
    BY <1>1 DEF Initialize, IInv, Starts, editor
  <2>2. inbox' = << >>
    BY <2>1
  <2>3. IsSeq(inbox') /\ Len(inbox') = 0
    BY <2>2, EmptyIsSeq
  <2>4. Questions'
    BY <2>1, <2>3 DEF Questions
  <2> QED BY <2>1, <2>3, <2>4 DEF IInv, Starts, AnsweredInTurn, IsSeq
<1>2. CASE DidOpen
  <2>1. phase' = "Crashed" \/ UNCHANGED phase
    BY <1>2 DEF DidOpen, PublishAndInsert
  <2> QED BY <1>2, <2>1, NotedKeeps DEF DidOpen, Takes
<1>3. CASE DidChange
  <2>1. phase' \in {"Panicked", "Crashed"} \/ UNCHANGED phase
    BY <1>3 DEF DidChange, PublishAndInsert
  <2> QED BY <1>3, <2>1, NotedKeeps DEF DidChange, Takes
<1>4. CASE DidClose
  BY <1>4, NotedKeeps DEF DidClose, Takes
<1>5. CASE Hover
  <2>1. Takes("hover") /\ \E text, result : RespondFrom(text, result)
    BY <1>5 DEF Hover
  <2> QED BY <2>1, AnswerKeeps, CrashKeeps DEF RespondFrom, Takes
<1>6. CASE InlayHint
  <2>1. Takes("inlayHint") /\ \E text, result : RespondFrom(text, result)
    BY <1>6 DEF InlayHint
  <2> QED BY <2>1, AnswerKeeps, CrashKeeps DEF RespondFrom, Takes
<1>7. CASE UnknownRequest
  BY <1>7, AnswerKeeps DEF UnknownRequest, Takes
<1>8. CASE UnknownNotification
  BY <1>8, NotedKeeps DEF UnknownNotification, Takes
<1>9. CASE MalformedParams
  BY <1>9, NotedKeeps DEF MalformedParams
<1>10. CASE Shutdown
  BY <1>10, AnswerKeeps DEF Shutdown
<1>11. CASE AwaitExit
  <2>1. /\ phase' \in {"Failed", "Stopped"} /\ UNCHANGED <<answers, asked>>
        /\ UNCHANGED inbox \/ (inbox # << >> /\ inbox' = Tail(inbox))
    BY <1>11 DEF AwaitExit, editor
  <2>2. IsSeq(inbox')
    BY <2>1, TailIsSeq DEF IInv
  <2> QED BY <2>1, <2>2 DEF IInv, Starts, AnsweredInTurn, IsSeq
<1>12. CASE ChannelClosed
  BY <1>12 DEF ChannelClosed, editor, IInv, Starts, AnsweredInTurn, IsSeq
<1> QED BY <1>1, <1>2, <1>3, <1>4, <1>5, <1>6, <1>7, <1>8, <1>9, <1>10, <1>11, <1>12 DEF Serve
-----------------------------------------------------------------------------
(* Requests are answered in the order they were sent and once each: the      *)
(* answer to the n-th is the n-th answer, for every set of documents, every  *)
(* front end and any number of messages (main_loop, handle_request).         *)
THEOREM ServerAnswersInTurn == Spec => []AnsweredInTurn
<1>1. Init => IInv
  BY InitIInv
<1>2. IInv /\ [Next]_vars => IInv'
  <2> SUFFICES ASSUME IInv, [Next]_vars PROVE IInv'
    OBVIOUS
  <2>1. CASE Serve
    BY <2>1, ServeKeeps
  <2>2. CASE Editor
    BY <2>2, EditorKeeps
  <2>3. CASE UNCHANGED vars
    BY <2>3 DEF vars, IInv, Starts, AnsweredInTurn, IsSeq, Questions, IsRequest
  <2> QED BY <2>1, <2>2, <2>3 DEF Next
<1>3. IInv => AnsweredInTurn
  BY DEF IInv
<1> QED BY <1>1, <1>2, <1>3, PTL DEF Spec
-----------------------------------------------------------------------------
(* Edits.  What the editor makes of a text by an edit, the server makes of it *)
(* by the change the edit is sent as.                                         *)
LEMMA TextsAre ==
  /\ Texts \subseteq Seq(Char)
  /\ \A t \in Seq(Char) : Len(t) <= MaxLen => t \in Texts
  /\ \A t \in Texts : Len(t) <= MaxLen
  /\ None \notin Texts
<1>1. \A t \in Seq(Char) : t \in [1..Len(t) -> Char] /\ Len(t) \in Nat
  OBVIOUS
<1>2. \A n \in 0..MaxLen : [1..n -> Char] \subseteq Seq(Char)
  BY BoundsAssumption
<1>3. ASSUME NEW n \in 0..MaxLen, NEW t \in [1..n -> Char] PROVE Len(t) = n
  <2>1. t \in Seq(Char) /\ n \in Nat
    BY <1>2, BoundsAssumption
  <2> QED BY <2>1
<1>4. Texts \subseteq Seq(Char) /\ \A t \in Texts : Len(t) <= MaxLen
  BY <1>2, <1>3, BoundsAssumption DEF Texts, Char
<1>5. ASSUME NEW t \in Seq(Char), Len(t) <= MaxLen PROVE t \in Texts
  <2>1. Len(t) \in 0..MaxLen
    BY <1>1, <1>5, BoundsAssumption
  <2> QED BY <1>1, <2>1 DEF Texts, Char
<1> QED BY <1>4, <1>5, NoneAssumption

LEMMA EditIs ==
  ASSUME NEW text \in Texts, NEW e \in Edits(text)
  PROVE  e.text \in Texts /\ Changed(text, e.change) = e.text
<1> USE TextsAre
<1>1. text \in Seq(Char) /\ text # None /\ Len(text) \in Nat
  BY TextsAre
<1>2. Insertions \subseteq Texts
  BY TextsAssumption
<1>3. CASE e \in {[text |-> new, change |-> [range |-> None, text |-> new]] : new \in Insertions}
  <2>1. PICK new \in Insertions : e = [text |-> new, change |-> [range |-> None, text |-> new]]
    BY <1>3
  <2> QED BY <1>1, <1>2, <2>1 DEF Changed
<1>4. CASE ~(e \in {[text |-> new, change |-> [range |-> None, text |-> new]] : new \in Insertions})
  <2>1. PICK j \in 0..Len(text), new \in Insertions, i \in 0..Len(text) :
          /\ i <= j
          /\ e.text = Replaced(text, i, j, new)
          /\ e.change = [range |-> [start |-> EditorPosition(text, i), end |-> EditorPosition(text, j)],
                         text |-> new]
          /\ Len(e.text) <= MaxLen
    BY <1>4 DEF Edits
  <2>2. PICK range : range = [start |-> EditorPosition(text, i), end |-> EditorPosition(text, j)]
    OBVIOUS
  <2>3. range \in Ranges(text)
    BY <2>2 DEF Ranges
  <2>4. range # None
    BY <2>3, NoneAssumption
  <2>5. Offset(text, range.start) = Bytes(text, i) /\ Offset(text, range.end) = Bytes(text, j)
    BY <1>1, <2>2, PlacesRoundTrip DEF RoundTrips
  <2>6. Bytes(text, i) <= Bytes(text, j) /\ Bytes(text, i) \in Nat /\ Bytes(text, j) \in Nat
    BY <1>1, <2>1, BytesFacts
  <2>7. Slice(text, 0, Bytes(text, i)) = SubSeq(text, 1, i)
    <3>1. 0 \in 0..Len(text) /\ Bytes(text, 0) = 0
      BY <1>1, BytesFacts
    <3>2. Slice(text, Bytes(text, 0), Bytes(text, i)) = SubSeq(text, 0 + 1, i)
      BY <1>1, <3>1, SliceIs
    <3> QED BY <3>1, <3>2
  <2>8. Slice(text, Bytes(text, j), Size(text)) = SubSeq(text, j + 1, Len(text))
    <3>1. Len(text) \in 0..Len(text)
      BY <1>1
    <3>2. Slice(text, Bytes(text, j), Bytes(text, Len(text))) = SubSeq(text, j + 1, Len(text))
      BY <1>1, <3>1, SliceIs
    <3> QED BY <3>2 DEF Size
  <2>9. Changed(text, e.change) = e.text
    <3>1. e.change.range = range /\ e.change.text = new
      BY <2>1, <2>2
    <3>2. Changed(text, e.change) =
            Slice(text, 0, Bytes(text, i)) \o new \o Slice(text, Bytes(text, j), Size(text))
      BY <1>1, <2>4, <2>5, <2>6, <3>1 DEF Changed
    <3> QED BY <2>1, <2>7, <2>8, <3>2 DEF Replaced
  <2>10. Replaced(text, i, j, new) \in Seq(Char)
    <3>1. new \in Seq(Char)
      BY <1>2
    <3>2. SubSeq(text, 1, i) \in Seq(Char) /\ SubSeq(text, j + 1, Len(text)) \in Seq(Char)
      BY <1>1
    <3> QED BY <3>1, <3>2 DEF Replaced
  <2> QED BY <2>1, <2>9, <2>10
<1> QED BY <1>3, <1>4
-----------------------------------------------------------------------------
(* What the definition of Applied by recursion says.                          *)
After(t, c) == {Changed(x, c) : x \in t}
Applying(f, text, changes, m) ==
  f = [n \in 0..m |-> IF n = 0 THEN {text} ELSE After(f[n - 1], changes[n])]

LEMMA ApplyingOn ==
  ASSUME NEW text, NEW changes, NEW f, NEW m \in Nat, Applying(f, text, changes, m)
  PROVE  \E g : Applying(g, text, changes, m + 1)
<1> DEFINE next == After(f[m], changes[m + 1])
           g == [n \in 0..(m + 1) |-> IF n = m + 1 THEN next ELSE f[n]]
<1>1. \A n \in 0..m : f[n] = IF n = 0 THEN {text} ELSE After(f[n - 1], changes[n])
  BY DEF Applying
<1> HIDE DEF next
<1>2. ASSUME NEW n \in 0..(m + 1)
      PROVE  g[n] = IF n = 0 THEN {text} ELSE After(g[n - 1], changes[n])
  <2>1. CASE n = m + 1
    <3>1. g[n] = next /\ g[n - 1] = f[m] /\ n # 0
      BY <2>1
    <3> QED BY <2>1, <3>1 DEF next
  <2>2. CASE n # m + 1
    <3>1. n \in 0..m /\ g[n] = f[n]
      BY <2>2
    <3>2. n # 0 => g[n - 1] = f[n - 1]
      BY <3>1
    <3> QED BY <1>1, <3>1, <3>2
  <2> QED BY <2>1, <2>2
<1>3. Applying(g, text, changes, m + 1)
  <2>1. PICK h : h = [n \in 0..(m + 1) |-> IF n = 0 THEN {text} ELSE After(g[n - 1], changes[n])]
    OBVIOUS
  <2>2. DOMAIN g = 0..(m + 1) /\ g = [n \in DOMAIN g |-> g[n]]
    OBVIOUS
  <2> HIDE DEF g
  <2>3. g = h
    BY <1>2, <2>1, <2>2
  <2> QED BY <2>1, <2>3 DEF Applying
<1> HIDE DEF g
<1> QED BY <1>3

LEMMA ApplyingThere ==
  ASSUME NEW text, NEW changes
  PROVE  \A m \in Nat : \E f : Applying(f, text, changes, m)
<1> DEFINE S == {m \in Nat : \E f : Applying(f, text, changes, m)}
<1>1. 0 \in S
  <2>1. PICK f : f = [n \in 0..0 |-> {text}]
    OBVIOUS
  <2>2. f = [n \in 0..0 |-> IF n = 0 THEN {text} ELSE After(f[n - 1], changes[n])]
    BY <2>1
  <2> QED BY <2>2 DEF Applying
<1>2. \A m \in Nat : m \in S => m + 1 \in S
  BY ApplyingOn
<1>3. \A m \in Nat : m \in S
  <2> HIDE DEF S
  <2> QED BY <1>1, <1>2, EveryNatural
<1> QED BY <1>3

LEMMA AppliedIs ==
  ASSUME NEW text, NEW changes, Len(changes) \in Nat
  PROVE  \E f : Applying(f, text, changes, Len(changes)) /\ Applied(text, changes) = f[Len(changes)]
<1> DEFINE f == CHOOSE f : Applying(f, text, changes, Len(changes))
<1>1. Applying(f, text, changes, Len(changes))
  BY ApplyingThere
<1>2. Applied(text, changes) = f[Len(changes)]
  BY DEF Applied, Applying, After
<1> HIDE DEF f
<1> QED BY <1>1, <1>2

(* Changes apply one after another.                                           *)
LEMMA AppliedOn ==
  ASSUME NEW text, NEW changes, NEW more, NEW c, Len(changes) \in Nat,
         Len(more) = Len(changes) + 1, \A i \in 1..Len(changes) : more[i] = changes[i],
         more[Len(changes) + 1] = c
  PROVE  Applied(text, more) = After(Applied(text, changes), c)
<1>1. PICK m \in Nat : m = Len(changes)
  OBVIOUS
<1>2. PICK f : Applying(f, text, changes, m) /\ Applied(text, changes) = f[m]
  BY <1>1, AppliedIs
<1>3. PICK g : Applying(g, text, more, m + 1) /\ Applied(text, more) = g[m + 1]
  <2>1. Len(more) \in Nat /\ Len(more) = m + 1
    BY <1>1
  <2> QED BY <2>1, AppliedIs
<1>4. \A n \in 0..m : f[n] = IF n = 0 THEN {text} ELSE After(f[n - 1], changes[n])
  BY <1>2 DEF Applying
<1>5. \A n \in 0..(m + 1) : g[n] = IF n = 0 THEN {text} ELSE After(g[n - 1], more[n])
  BY <1>3 DEF Applying
<1>6. f[m] = g[m]
  <2> DEFINE S == {n \in 0..m : f[n] = g[n]}
  <2>1. 0 \in S
    <3>1. 0 \in 0..m /\ 0 \in 0..(m + 1)
      OBVIOUS
    <3> QED BY <1>4, <1>5, <3>1
  <2>2. \A n \in 0..(m - 1) : n \in S => n + 1 \in S
    <3> SUFFICES ASSUME NEW n \in 0..(m - 1), f[n] = g[n] PROVE f[n + 1] = g[n + 1]
      BY <1>1
    <3>1. n + 1 \in 1..m /\ (n + 1) - 1 = n
      OBVIOUS
    <3>2. more[n + 1] = changes[n + 1]
      BY <1>1, <3>1
    <3>3. f[n + 1] = After(f[n], changes[n + 1])
      BY <1>4, <3>1
    <3>4. g[n + 1] = After(g[n], more[n + 1])
      BY <1>5, <3>1
    <3> QED BY <3>2, <3>3, <3>4
  <2>3. \A n \in 0..m : n \in S
    <3> HIDE DEF S
    <3> QED BY <2>1, <2>2, UpTo
  <2> QED BY <2>3
<1>7. g[m + 1] = After(g[m], more[m + 1])
  BY <1>5
<1> QED BY <1>1, <1>2, <1>3, <1>6, <1>7

LEMMA AppliedNone ==
  ASSUME NEW text
  PROVE  Applied(text, << >>) = {text}
<1>1. Len(<< >>) = 0
  OBVIOUS
<1>2. PICK f : Applying(f, text, << >>, 0) /\ Applied(text, << >>) = f[0]
  BY <1>1, AppliedIs
<1> QED BY <1>2 DEF Applying
-----------------------------------------------------------------------------
(* The same for Rewritings: what is reached in a number of edits.             *)
EditedOn(R) ==
  UNION {{[text |-> e.text, changes |-> Append(r.changes, e.change)] : e \in Edits(r.text)} : r \in R}
Rewriting(f, text, m) ==
  f = [n \in 0..m |-> IF n = 0 THEN {[text |-> text, changes |-> << >>]} ELSE EditedOn(f[n - 1])]

LEMMA RewritingOn ==
  ASSUME NEW text, NEW f, NEW m \in Nat, Rewriting(f, text, m)
  PROVE  \E g : Rewriting(g, text, m + 1)
<1> DEFINE first == {[text |-> text, changes |-> << >>]}
           next == EditedOn(f[m])
           g == [n \in 0..(m + 1) |-> IF n = m + 1 THEN next ELSE f[n]]
<1>1. \A n \in 0..m : f[n] = IF n = 0 THEN first ELSE EditedOn(f[n - 1])
  BY DEF Rewriting
<1>0. Rewriting(g, text, m + 1) <=>
        g = [n \in 0..(m + 1) |-> IF n = 0 THEN first ELSE EditedOn(g[n - 1])]
  BY DEF Rewriting
<1> HIDE DEF next, first
<1>2. ASSUME NEW n \in 0..(m + 1)
      PROVE  g[n] = IF n = 0 THEN first ELSE EditedOn(g[n - 1])
  <2>1. CASE n = m + 1
    <3>1. g[n] = next /\ g[n - 1] = f[m] /\ n # 0
      BY <2>1
    <3> QED BY <2>1, <3>1 DEF next
  <2>2. CASE n # m + 1
    <3>1. n \in 0..m /\ g[n] = f[n]
      BY <2>2
    <3>2. n # 0 => g[n - 1] = f[n - 1]
      BY <3>1
    <3> QED BY <1>1, <3>1, <3>2
  <2> QED BY <2>1, <2>2
<1>3. Rewriting(g, text, m + 1)
  <2>1. PICK h : h = [n \in 0..(m + 1) |-> IF n = 0 THEN first ELSE EditedOn(g[n - 1])]
    OBVIOUS
  <2>2. DOMAIN g = 0..(m + 1) /\ g = [n \in DOMAIN g |-> g[n]]
    OBVIOUS
  <2> HIDE DEF g
  <2>3. g = h
    BY <1>2, <2>1, <2>2
  <2> QED BY <1>0, <2>1, <2>3
<1> HIDE DEF g
<1> QED BY <1>3

LEMMA RewritingThere ==
  ASSUME NEW text
  PROVE  \A m \in Nat : \E f : Rewriting(f, text, m)
<1> DEFINE S == {m \in Nat : \E f : Rewriting(f, text, m)}
<1>1. 0 \in S
  <2>1. PICK f : f = [n \in 0..0 |-> {[text |-> text, changes |-> << >>]}]
    OBVIOUS
  <2>2. f = [n \in 0..0 |-> IF n = 0 THEN {[text |-> text, changes |-> << >>]} ELSE EditedOn(f[n - 1])]
    BY <2>1
  <2> QED BY <2>2 DEF Rewriting
<1>2. \A m \in Nat : m \in S => m + 1 \in S
  BY RewritingOn
<1>3. \A m \in Nat : m \in S
  <2> HIDE DEF S
  <2> QED BY <1>1, <1>2, EveryNatural
<1> QED BY <1>3

(* What an editor makes of a text, the server makes of it too.                *)
Rewritten(r, text) ==
  /\ r.text \in Texts
  /\ IsSeq(r.changes)
  /\ Applied(text, r.changes) = {r.text}

LEMMA EditedOnKeeps ==
  ASSUME NEW text, NEW r, Rewritten(r, text), NEW e \in Edits(r.text)
  PROVE  Rewritten([text |-> e.text, changes |-> Append(r.changes, e.change)], text)
<1>1. e.text \in Texts /\ Changed(r.text, e.change) = e.text
  BY EditIs DEF Rewritten
<1>2. PICK s : s = Append(r.changes, e.change)
  OBVIOUS
<1>3. IsSeq(r.changes)
  BY DEF Rewritten
<1>4. /\ IsSeq(s) /\ Len(r.changes) \in Nat /\ Len(s) = Len(r.changes) + 1
      /\ \A i \in 1..Len(r.changes) : s[i] = r.changes[i]
      /\ s[Len(r.changes) + 1] = e.change
  BY <1>2, <1>3, AppendIsSeq
<1>5. Applied(text, s) = After(Applied(text, r.changes), e.change)
  BY <1>4, AppliedOn
<1>6. Applied(text, s) = {e.text}
  BY <1>1, <1>5 DEF Rewritten, After
<1> QED BY <1>1, <1>2, <1>4, <1>6 DEF Rewritten

LEMMA RewritingsAre ==
  ASSUME NEW text \in Texts, NEW most \in Int, NEW r \in Rewritings(text, most)
  PROVE  Rewritten(r, text)
<1>1. most \in Nat
  <2> SUFFICES ASSUME most < 0 PROVE FALSE
    OBVIOUS
  <2> DEFINE up == CHOOSE f : f = [n \in 0..most |-> IF n = 0 THEN {[text |-> text, changes |-> << >>]}
                                                     ELSE EditedOn(f[n - 1])]
  <2>1. Rewritings(text, most) = UNION {up[n] : n \in 1..most}
    BY DEF Rewritings, EditedOn
  <2> HIDE DEF up
  <2>2. 1..most = {}
    OBVIOUS
  <2> QED BY <2>1, <2>2
<1> DEFINE f == CHOOSE f : Rewriting(f, text, most)
<1>2. Rewriting(f, text, most)
  BY <1>1, RewritingThere
<1>3. Rewritings(text, most) = UNION {f[n] : n \in 1..most}
  BY DEF Rewritings, Rewriting, EditedOn
<1> HIDE DEF f
<1>4. \A n \in 0..most : f[n] = IF n = 0 THEN {[text |-> text, changes |-> << >>]} ELSE EditedOn(f[n - 1])
  BY <1>2 DEF Rewriting
<1> DEFINE S == {n \in 0..most : \A q \in f[n] : Rewritten(q, text)}
<1>5. 0 \in S
  <2>1. 0 \in 0..most
    BY <1>1
  <2>2. f[0] = {[text |-> text, changes |-> << >>]}
    BY <1>4, <2>1
  <2>3. Rewritten([text |-> text, changes |-> << >>], text)
    BY AppliedNone, EmptyIsSeq DEF Rewritten
  <2> QED BY <2>1, <2>2, <2>3
<1>6. ASSUME NEW n \in 0..(most - 1), n \in S PROVE n + 1 \in S
  <2>1. n + 1 \in 0..most /\ n + 1 # 0 /\ (n + 1) - 1 = n
    BY <1>1
  <2>2. f[n + 1] = EditedOn(f[n])
    BY <1>4, <2>1
  <2>3. ASSUME NEW q \in f[n + 1] PROVE Rewritten(q, text)
    <3>0. PICK p \in f[n] : \E e \in Edits(p.text) :
            q = [text |-> e.text, changes |-> Append(p.changes, e.change)]
      BY <2>2 DEF EditedOn
    <3>1. PICK e \in Edits(p.text) :
            q = [text |-> e.text, changes |-> Append(p.changes, e.change)]
      BY <3>0
    <3>2. Rewritten(p, text)
      BY <1>6
    <3> QED BY <3>1, <3>2, EditedOnKeeps
  <2> QED BY <2>1, <2>3
<1>7. \A n \in 0..most : n \in S
  <2> HIDE DEF S
  <2> QED BY <1>1, <1>5, <1>6, UpTo
<1>8. PICK n \in 1..most : r \in f[n]
  BY <1>3
<1> QED BY <1>7, <1>8
-----------------------------------------------------------------------------
(* The documents.  What the messages that wait will make of the server's      *)
(* texts is what the editor has: there is a history of texts, one more than   *)
(* there are messages, from the server's to the editor's.                     *)
Docs == [Uri -> Texts \cup {None}]
Edited == {"didOpen", "didChange", "didClose"}

(* What the server makes of the documents d when it takes m.                  *)
Effect(d, m, e) ==
  /\ m.method \in Edited => m.uri \in Uri
  /\ m.method = "didOpen" => m.text \in Texts /\ e = [d EXCEPT ![m.uri] = m.text]
  /\ m.method = "didChange" =>
       /\ d[m.uri] # None
       /\ \E t \in Texts : Applied(d[m.uri], m.changes) = {t} /\ e = [d EXCEPT ![m.uri] = t]
  /\ m.method = "didClose" => e = [d EXCEPT ![m.uri] = None]
  /\ m.method \notin Edited => e = d

(* Whether documents may have a text with a literal that has no value.        *)
Bears(d, had) == \A u \in Uri : Valueless(d[u]) => had = TRUE

(* What a request is about, where the documents are d when it is sent.        *)
Meant(about, m, d) ==
  /\ about.method = m.method
  /\ m.method \in {"hover", "inlayHint"} => m.uri \in Uri /\ about.text = d[m.uri]
  /\ m.method = "hover" /\ about.text # None =>
       about.gap \in 0..Len(about.text) /\ m.position = EditorPosition(about.text, about.gap)

History(h, docs, waiting, buf, questions, had) ==
  /\ h \in [0..Len(waiting) -> Docs]
  /\ h[0] = docs /\ h[Len(waiting)] = buf
  /\ \A i \in 0..Len(waiting) : Bears(h[i], had)
  /\ \A i \in 1..Len(waiting) : Effect(h[i - 1], waiting[i], h[i])
  /\ \A i \in 1..Len(waiting) : IsRequest(waiting[i]) =>
       /\ waiting[i].id \in 1..Len(questions)
       /\ Meant(questions[waiting[i].id], waiting[i], h[i - 1])

Published(text) == IF text = None THEN {} ELSE Diagnostics(text)

(* After a shutdown only exit waits: nothing is lost with what AwaitExit ends.*)
Closing ==
  /\ \A i, j \in 1..Len(inbox) :
       i < j /\ inbox[i].method \in {"shutdown", "exit"} => inbox[j].method = "exit"
  /\ phase = "Stopping" => \A i \in 1..Len(inbox) : inbox[i].method = "exit"

Answered ==
  \A i \in 1..Len(answers) :
    answers[i].id \in 1..Len(asked) /\ answers[i].result = Expected(asked[answers[i].id])

(* What a server that has not been ended by its parser has of the documents.  *)
Following ==
  /\ \E h : History(h, documents, inbox, buffer, asked, hadValueless)
  /\ shown = [u \in Uri |-> Published(documents[u])]

Served ==
  /\ phase # "Crashed" => Following
  /\ phase = "Crashed" => hadValueless = TRUE
  /\ documents \in Docs /\ buffer \in Docs
  /\ Bears(documents, FALSE) /\ Bears(buffer, hadValueless)
  /\ Closing
  /\ Answered
  /\ phase # "Panicked"
  /\ sent \in Nat

(* A sequence and the same with one more at its end, or at least as many.     *)
Joined(w, m, w2) ==
  /\ Len(w) \in Nat /\ Len(w2) = Len(w) + 1
  /\ \A i \in 1..Len(w) : w2[i] = w[i]
  /\ w2[Len(w) + 1] = m
Extends(q, q2) == \A i \in 1..Len(q) : i \in 1..Len(q2) /\ q2[i] = q[i]
Since(had, had2) == had = TRUE => had2 = TRUE
Asks(m, q, d) == IsRequest(m) => m.id \in 1..Len(q) /\ Meant(q[m.id], m, d)

LEMMA HistoryGrows ==
  ASSUME NEW h, NEW docs, NEW w, NEW buf, NEW q, NEW had, History(h, docs, w, buf, q, had),
         NEW w2, NEW m, Joined(w, m, w2), NEW buf2 \in Docs, Effect(buf, m, buf2),
         NEW q2, Extends(q, q2), Asks(m, q2, buf),
         NEW had2, Since(had, had2), Bears(buf2, had2)
  PROVE  \E g : History(g, docs, w2, buf2, q2, had2)
<1>0. /\ Len(w) \in Nat /\ Len(w2) = Len(w) + 1 /\ w2[Len(w) + 1] = m
      /\ \A i \in 1..Len(w) : w2[i] = w[i]
      /\ \A i \in 1..Len(q) : i \in 1..Len(q2) /\ q2[i] = q[i]
      /\ IsRequest(m) => m.id \in 1..Len(q2) /\ Meant(q2[m.id], m, buf)
  BY DEF Joined, Extends, Asks
<1>1. PICK n \in Nat : n = Len(w) /\ Len(w2) = n + 1
  BY <1>0
<1>2. PICK g : g = [k \in 0..(n + 1) |-> IF k = n + 1 THEN buf2 ELSE h[k]]
  OBVIOUS
<1>3. \A k \in 0..n : g[k] = h[k]
  BY <1>2
<1>4. g[n + 1] = buf2 /\ h[n] = buf /\ h[0] = docs /\ h \in [0..n -> Docs]
  BY <1>1, <1>2 DEF History
<1>5. g \in [0..Len(w2) -> Docs]
  BY <1>1, <1>2, <1>4
<1>6. g[0] = docs /\ g[Len(w2)] = buf2
  BY <1>1, <1>3, <1>4
<1>7. ASSUME NEW i \in 1..Len(w2)
      PROVE  /\ Effect(g[i - 1], w2[i], g[i])
             /\ IsRequest(w2[i]) => w2[i].id \in 1..Len(q2) /\ Meant(q2[w2[i].id], w2[i], g[i - 1])
  <2>1. CASE i = n + 1
    <3>1. g[i - 1] = buf /\ w2[i] = m /\ g[i] = buf2
      BY <1>0, <1>1, <1>3, <1>4, <2>1
    <3> QED BY <1>0, <3>1
  <2>2. CASE i \in 1..n
    <3>1. g[i - 1] = h[i - 1] /\ w2[i] = w[i] /\ g[i] = h[i]
      BY <1>0, <1>1, <1>3, <2>2
    <3>2. Effect(h[i - 1], w[i], h[i])
      BY <1>1, <2>2 DEF History
    <3>3. ASSUME IsRequest(w[i])
          PROVE  w[i].id \in 1..Len(q2) /\ Meant(q2[w[i].id], w[i], h[i - 1])
      <4>1. w[i].id \in 1..Len(q) /\ Meant(q[w[i].id], w[i], h[i - 1])
        BY <1>1, <2>2, <3>3 DEF History
      <4> QED BY <1>0, <4>1
    <3> QED BY <3>1, <3>2, <3>3
  <2> QED BY <1>1, <2>1, <2>2
<1>8. ASSUME NEW i \in 0..Len(w2) PROVE Bears(g[i], had2)
  <2>1. CASE i = n + 1
    BY <1>4, <2>1
  <2>2. CASE i \in 0..n
    <3>1. Bears(h[i], had) /\ g[i] = h[i]
      BY <1>1, <1>3, <2>2 DEF History
    <3> QED BY <3>1 DEF Bears, Since
  <2> QED BY <1>1, <2>1, <2>2
<1> QED BY <1>5, <1>6, <1>7, <1>8 DEF History

Left(w, w2) ==
  Len(w) \in Nat \ {0} /\ Len(w2) = Len(w) - 1 /\ \A i \in 1..Len(w2) : w2[i] = w[i + 1]

LEMMA HistoryMoves ==
  ASSUME NEW h, NEW docs, NEW w, NEW buf, NEW q, NEW had, History(h, docs, w, buf, q, had),
         NEW w2, Left(w, w2)
  PROVE  /\ Effect(docs, w[1], h[1])
         /\ Asks(w[1], q, docs)
         /\ h[1] \in Docs /\ Bears(h[1], had)
         /\ \E g : History(g, h[1], w2, buf, q, had)
<1>0. Len(w) \in Nat \ {0} /\ Len(w2) = Len(w) - 1 /\ \A i \in 1..Len(w2) : w2[i] = w[i + 1]
  BY DEF Left
<1>1. PICK n \in Nat : n = Len(w2) /\ n + 1 = Len(w)
  BY <1>0, Len(w) - 1 \in Nat
<1>2. PICK g : g = [k \in 0..n |-> h[k + 1]]
  OBVIOUS
<1>3. h \in [0..(n + 1) -> Docs] /\ h[0] = docs /\ h[n + 1] = buf
  BY <1>1 DEF History
<1>4. \A i \in 1..(n + 1) :
        /\ Effect(h[i - 1], w[i], h[i])
        /\ IsRequest(w[i]) => w[i].id \in 1..Len(q) /\ Meant(q[w[i].id], w[i], h[i - 1])
  BY <1>1 DEF History
<1>5. /\ Effect(docs, w[1], h[1])
      /\ IsRequest(w[1]) => w[1].id \in 1..Len(q) /\ Meant(q[w[1].id], w[1], docs)
  <2>1. 1 \in 1..(n + 1) /\ 1 - 1 = 0
    OBVIOUS
  <2> QED BY <1>3, <1>4, <2>1
<1>6. g \in [0..Len(w2) -> Docs] /\ g[0] = h[1] /\ g[Len(w2)] = buf /\ h[1] \in Docs
  BY <1>1, <1>2, <1>3
<1>7. ASSUME NEW i \in 1..Len(w2)
      PROVE  /\ Effect(g[i - 1], w2[i], g[i])
             /\ IsRequest(w2[i]) => w2[i].id \in 1..Len(q) /\ Meant(q[w2[i].id], w2[i], g[i - 1])
  <2>1. i + 1 \in 1..(n + 1) /\ (i + 1) - 1 = i
    BY <1>1
  <2>2. g[i - 1] = h[i] /\ g[i] = h[i + 1] /\ w2[i] = w[i + 1]
    BY <1>0, <1>1, <1>2
  <2> QED BY <1>4, <2>1, <2>2
<1>8. ASSUME NEW i \in 0..Len(w2) PROVE Bears(g[i], had) /\ Bears(h[1], had)
  <2>1. i + 1 \in 0..(n + 1) /\ 1 \in 0..(n + 1) /\ g[i] = h[i + 1]
    BY <1>1, <1>2
  <2> QED BY <1>1, <2>1 DEF History
<1>9. History(g, h[1], w2, buf, q, had)
  BY <1>6, <1>7, <1>8 DEF History
<1>10. Bears(h[1], had)
  BY <1>1, <1>8, 0 \in 0..n
<1> QED BY <1>5, <1>6, <1>9, <1>10 DEF Asks
-----------------------------------------------------------------------------
LEMMA InitServed == Init => Served
<1> SUFFICES ASSUME Init PROVE Served
  OBVIOUS
<1>1. PICK d : d = [u \in Uri |-> None]
  OBVIOUS
<1>2. documents = d /\ buffer = d /\ inbox = << [method |-> "initialize"] >> /\ d \in Docs
  BY <1>1 DEF Init, Docs
<1>3. Len(inbox) = 1 /\ inbox[1].method = "initialize"
  BY <1>2
<1>4. PICK h : h = [k \in 0..1 |-> d]
  OBVIOUS
<1>5. Effect(d, inbox[1], d) /\ ~IsRequest(inbox[1])
  BY <1>3 DEF Effect, Edited, IsRequest, Requests
<1>6. h \in [0..1 -> Docs] /\ h[0] = d /\ h[1] = d
  BY <1>2, <1>4
<1>11. \A u \in Uri : ~Valueless(d[u])
  BY <1>1 DEF Valueless
<1>7. History(h, documents, inbox, buffer, asked, hadValueless)
  <2>1. \A i \in 1..1 : i = 1 /\ i - 1 = 0
    OBVIOUS
  <2>2. \A i \in 0..1 : Bears(h[i], hadValueless)
    BY <1>4, <1>11 DEF Bears
  <2> QED BY <1>2, <1>3, <1>5, <1>6, <2>1, <2>2 DEF History
<1>8. Closing
  <2>1. \A i, j \in 1..1 : ~(i < j)
    OBVIOUS
  <2> QED BY <1>3, <2>1 DEF Init, Closing
<1>9. Answered
  BY DEF Init, Answered
<1>10. shown = [u \in Uri |-> Published(documents[u])]
  BY <1>1, <1>2 DEF Init, Published
<1> QED BY <1>2, <1>7, <1>8, <1>9, <1>10, <1>11 DEF Init, Served, Following, Bears
-----------------------------------------------------------------------------
(* The editor adds to the end of the history.                                 *)
LEMMA MessageJoins ==
  ASSUME IInv, Served, NEW m, inbox' = Append(inbox, m), UNCHANGED server,
         buffer' \in Docs, Effect(buffer, m, buffer'), Extends(asked, asked'), sent' \in Nat,
         IsRequest(m) => m.id \in 1..Len(asked') /\ Meant(asked'[m.id], m, buffer),
         hadValueless = TRUE => hadValueless' = TRUE,
         Bears(buffer', hadValueless'),
         \/ m.method = "exit"
         \/ phase # "Stopping" /\ \A i \in 1..Len(inbox) : inbox[i].method \notin {"shutdown", "exit"}
  PROVE  Served'
<1>1. IsSeq(inbox)
  BY DEF IInv
<1>2. /\ Len(inbox) \in Nat /\ Len(inbox') = Len(inbox) + 1
      /\ \A i \in 1..Len(inbox) : inbox'[i] = inbox[i]
      /\ inbox'[Len(inbox) + 1] = m
  BY <1>1, AppendIsSeq
<1>5. UNCHANGED <<phase, documents, shown, answers>>
  BY DEF server
<1>4. ASSUME phase # "Crashed" PROVE \E g : History(g, documents', inbox', buffer', asked', hadValueless')
  <2>0. PICK h : History(h, documents, inbox, buffer, asked, hadValueless)
    BY <1>4 DEF Served, Following
  <2>1. PICK w, w2, buf, buf2, q, q2, had, had2 :
          /\ w = inbox /\ w2 = inbox' /\ buf = buffer /\ buf2 = buffer' /\ q = asked /\ q2 = asked'
          /\ had = hadValueless /\ had2 = hadValueless'
    OBVIOUS
  <2>2. Joined(w, m, w2)
    BY <1>2, <2>1 DEF Joined
  <2>3. buf2 \in Docs /\ Effect(buf, m, buf2) /\ Extends(q, q2) /\ Asks(m, q2, buf)
    BY <2>1 DEF Asks
  <2>4. History(h, documents, w, buf, q, had)
    BY <2>0, <2>1
  <2>6. Since(had, had2) /\ Bears(buf2, had2)
    BY <2>1 DEF Since
  <2>5. \E g : History(g, documents, w2, buf2, q2, had2)
    BY <2>2, <2>3, <2>4, <2>6, HistoryGrows
  <2> QED BY <1>5, <2>1, <2>5
<1>6. Closing'
  <2>1. Closing
    BY DEF Served
  <2>2. \A i \in 1..Len(inbox') : i = Len(inbox) + 1 \/ (i \in 1..Len(inbox) /\ inbox'[i] = inbox[i])
    BY <1>2
  <2>3. ASSUME NEW i \in 1..Len(inbox'), NEW j \in 1..Len(inbox'), i < j,
               inbox'[i].method \in {"shutdown", "exit"}
        PROVE  inbox'[j].method = "exit"
    <3>1. i \in 1..Len(inbox) /\ inbox'[i] = inbox[i]
      BY <1>2, <2>2, <2>3
    <3>2. CASE j = Len(inbox) + 1
      BY <1>2, <2>3, <3>1, <3>2
    <3>3. CASE j \in 1..Len(inbox) /\ inbox'[j] = inbox[j]
      BY <2>1, <2>3, <3>1, <3>3 DEF Closing
    <3> QED BY <2>2, <3>2, <3>3
  <2>4. ASSUME phase' = "Stopping", NEW i \in 1..Len(inbox') PROVE inbox'[i].method = "exit"
    <3>1. phase = "Stopping" /\ m.method = "exit"
      BY <1>5, <2>4
    <3> QED BY <1>2, <2>1, <2>2, <3>1 DEF Closing
  <2> QED BY <2>3, <2>4 DEF Closing
<1>7. Answered'
  <2> SUFFICES ASSUME NEW i \in 1..Len(answers)
               PROVE  answers[i].id \in 1..Len(asked') /\ answers[i].result = Expected(asked'[answers[i].id])
    BY <1>5 DEF Answered
  <2>1. answers[i].id \in 1..Len(asked) /\ answers[i].result = Expected(asked[answers[i].id])
    BY DEF Served, Answered
  <2> QED BY <2>1 DEF Extends
<1>8. phase' # "Crashed" => Following'
  <2>1. phase' # "Crashed" => shown' = [u \in Uri |-> Published(documents'[u])]
    BY <1>5 DEF Served, Following
  <2> QED BY <1>4, <1>5, <2>1 DEF Following
<1>9. documents' \in Docs /\ phase' # "Panicked" /\ Bears(documents', FALSE)
      /\ (phase' = "Crashed" => hadValueless' = TRUE)
  BY <1>5 DEF Served, Bears
<1> QED BY <1>6, <1>7, <1>8, <1>9 DEF Served

(* The texts and the number of messages a state of the server has.            *)
LEMMA ServedTypes ==
  ASSUME Served
  PROVE  documents \in Docs /\ buffer \in Docs /\ sent \in Nat
BY DEF Served

(* The editor has another text of a document, and it is on record whether a   *)
(* literal in it has no value.                                                *)
LEMMA EditorBears ==
  ASSUME Served, NEW u \in Uri, NEW text \in Texts \cup {None}, EditorHas(u, text)
  PROVE  buffer' \in Docs /\ Bears(buffer', hadValueless') /\ (hadValueless = TRUE => hadValueless' = TRUE)
<1>1. buffer \in Docs /\ Bears(buffer, hadValueless)
  BY DEF Served
<1>2. buffer' = [buffer EXCEPT ![u] = text] /\ hadValueless' = (hadValueless \/ Valueless(text))
  BY DEF EditorHas
<1>3. hadValueless = TRUE => hadValueless' = TRUE
  BY <1>2
<1>4. Valueless(text) => hadValueless' = TRUE
  BY <1>2
<1>5. \A v \in Uri : buffer'[v] = IF v = u THEN text ELSE buffer[v]
  BY <1>1, <1>2 DEF Docs
<1>6. buffer' \in Docs
  BY <1>1, <1>2 DEF Docs
<1>7. Bears(buffer', hadValueless')
  <2> SUFFICES ASSUME NEW v \in Uri, Valueless(buffer'[v]) PROVE hadValueless' = TRUE
    BY DEF Bears
  <2>1. CASE v = u
    BY <1>4, <1>5, <2>1
  <2>2. CASE v # u
    <3>1. Valueless(buffer[v])
      BY <1>5, <2>2
    <3> QED BY <1>1, <1>3, <3>1 DEF Bears
  <2> QED BY <2>1, <2>2
<1> QED BY <1>3, <1>6, <1>7

LEMMA SendServes ==
  ASSUME IInv, Served, NEW m, Send(m), m.method = "didChange" => Len(m.changes) \in Nat,
         buffer' \in Docs, Effect(buffer, m, buffer'), Extends(asked, asked'),
         IsRequest(m) => m.id \in 1..Len(asked') /\ Meant(asked'[m.id], m, buffer),
         Bears(buffer', hadValueless'), hadValueless = TRUE => hadValueless' = TRUE
  PROVE  Served'
<1>1. inbox' = Append(inbox, m) /\ UNCHANGED server /\ sent' = sent + Weight(m)
  BY DEF Send
<1>2. sent' \in Nat
  BY <1>1, ServedTypes DEF Weight
<1>3. DOMAIN inbox = 1..Len(inbox)
  BY DEF IInv, IsSeq
<1>4. phase # "Stopping" /\ \A i \in 1..Len(inbox) : inbox[i].method \notin {"shutdown", "exit"}
  BY <1>3 DEF Send
<1> QED BY <1>1, <1>2, <1>4, MessageJoins

LEMMA AskServes ==
  ASSUME IInv, Served, NEW u, NEW position, NEW about, NEW method \in Requests,
         Ask(method, u, position, about),
         Meant(about, [method |-> method, uri |-> u, position |-> position, id |-> Len(asked) + 1], buffer)
  PROVE  Served'
<1>1. PICK m : m = [method |-> method, uri |-> u, position |-> position, id |-> Len(asked) + 1]
  OBVIOUS
<1>2. Send(m) /\ asked' = Append(asked, about) /\ UNCHANGED <<buffer, hadValueless>>
  BY <1>1 DEF Ask
<1>3. m.method = method /\ m.id = Len(asked) + 1
  BY <1>1
<1>4. Effect(buffer, m, buffer')
  BY <1>2, <1>3 DEF Effect, Edited, Requests
<1>5. /\ Len(asked) \in Nat /\ Len(asked') = Len(asked) + 1
      /\ \A i \in 1..Len(asked) : asked'[i] = asked[i]
      /\ asked'[Len(asked) + 1] = about
  BY <1>2, AppendIsSeq DEF IInv
<1>6. Extends(asked, asked')
  BY <1>5 DEF Extends
<1>7. m.id \in 1..Len(asked') /\ asked'[m.id] = about
  BY <1>3, <1>5
<1>8. Meant(asked'[m.id], m, buffer)
  BY <1>1, <1>7
<1>9. buffer' \in Docs /\ ~(m.method = "didChange")
  BY <1>2, <1>3, ServedTypes DEF Requests
<1>10. Bears(buffer', hadValueless')
  BY <1>2 DEF Served, Bears
<1> QED BY <1>2, <1>4, <1>6, <1>7, <1>8, <1>9, <1>10, SendServes

LEMMA EditorServes ==
  ASSUME IInv, Served, Editor
  PROVE  Served'
<1> USE DEF Edited
<1>0. documents \in Docs /\ buffer \in Docs /\ sent \in Nat /\ Bears(buffer, hadValueless)
  BY ServedTypes DEF Served
<1>1. ASSUME NEW u \in Uri, NEW text \in Openings, EditorOpens(u, text)
      PROVE  Served'
  <2>1. PICK m : m = [method |-> "didOpen", uri |-> u, text |-> text]
    OBVIOUS
  <2>2. m.method = "didOpen" /\ m.uri = u /\ m.text = text
    BY <2>1
  <2>3. Send(m) /\ buffer' = [buffer EXCEPT ![u] = text] /\ UNCHANGED asked /\ text \in Texts
    BY <1>1, <2>1, TextsAssumption DEF EditorOpens, EditorHas
  <2>4. buffer' \in Docs /\ Bears(buffer', hadValueless') /\ (hadValueless = TRUE => hadValueless' = TRUE)
    BY <1>1, <2>3, EditorBears DEF EditorOpens
  <2>5. Effect(buffer, m, buffer')
    BY <2>2, <2>3 DEF Effect
  <2> QED BY <2>2, <2>3, <2>4, <2>5, SendServes DEF Extends, IsRequest, Requests
<1>2. ASSUME NEW u \in Uri, EditorEdits(u)
      PROVE  Served'
  <2>1. PICK r \in Rewritings(buffer[u], MaxSent - sent) :
          /\ EditorHas(u, r.text)
          /\ Send([method |-> "didChange", uri |-> u, changes |-> r.changes])
    BY <1>2 DEF EditorEdits
  <2>2. buffer[u] # None /\ buffer[u] \in Texts
    BY <1>0, <1>2 DEF EditorEdits, Docs
  <2>10. UNCHANGED asked /\ buffer' = [buffer EXCEPT ![u] = r.text]
    BY <2>1 DEF EditorHas
  <2>3. Rewritten(r, buffer[u])
    BY <1>0, <2>1, <2>2, RewritingsAre, BoundsAssumption
  <2>4. PICK m : m = [method |-> "didChange", uri |-> u, changes |-> r.changes]
    OBVIOUS
  <2>5. m.method = "didChange" /\ m.uri = u /\ m.changes = r.changes
    BY <2>4
  <2>6. r.text \in Texts /\ Len(r.changes) \in Nat /\ Applied(buffer[u], r.changes) = {r.text}
    BY <2>3, AppendIsSeq DEF Rewritten
  <2>7. buffer' \in Docs /\ Bears(buffer', hadValueless') /\ (hadValueless = TRUE => hadValueless' = TRUE)
    BY <2>1, <2>6, EditorBears
  <2>8. Effect(buffer, m, buffer')
    BY <2>2, <2>5, <2>6, <2>10 DEF Effect
  <2>9. Send(m)
    BY <2>1, <2>4
  <2> QED BY <2>5, <2>6, <2>7, <2>8, <2>9, <2>10, SendServes DEF Extends, IsRequest, Requests
<1>3. ASSUME NEW u \in Uri, EditorCloses(u)
      PROVE  Served'
  <2>1. PICK m : m = [method |-> "didClose", uri |-> u]
    OBVIOUS
  <2>2. m.method = "didClose" /\ m.uri = u
    BY <2>1
  <2>3. Send(m) /\ buffer' = [buffer EXCEPT ![u] = None] /\ UNCHANGED asked
    BY <1>3, <2>1 DEF EditorCloses, EditorHas
  <2>4. buffer' \in Docs /\ Bears(buffer', hadValueless') /\ (hadValueless = TRUE => hadValueless' = TRUE)
    BY <1>3, EditorBears DEF EditorCloses
  <2>5. Effect(buffer, m, buffer')
    BY <2>2, <2>3 DEF Effect
  <2> QED BY <2>2, <2>3, <2>4, <2>5, SendServes DEF Extends, IsRequest, Requests
<1>4. ASSUME NEW u \in Uri, EditorHovers(u)
      PROVE  Served'
  <2>1. PICK n \in 0..(IF buffer[u] = None THEN 0 ELSE Len(buffer[u])) :
          Ask("hover", u, IF buffer[u] = None THEN [line |-> 0, character |-> 0] ELSE EditorPosition(buffer[u], n),
              [method |-> "hover", text |-> buffer[u], gap |-> n])
    BY <1>4 DEF EditorHovers
  <2>2. PICK position : position = IF buffer[u] = None THEN [line |-> 0, character |-> 0]
                                   ELSE EditorPosition(buffer[u], n)
    OBVIOUS
  <2>3. Meant([method |-> "hover", text |-> buffer[u], gap |-> n],
              [method |-> "hover", uri |-> u, position |-> position, id |-> Len(asked) + 1], buffer)
    BY <2>1, <2>2 DEF Meant
  <2> QED BY <2>1, <2>2, <2>3, AskServes DEF Requests
<1>5. ASSUME NEW u \in Uri, EditorAsksHints(u)
      PROVE  Served'
  <2>1. Meant([method |-> "inlayHint", text |-> buffer[u], gap |-> 0],
              [method |-> "inlayHint", uri |-> u, position |-> None, id |-> Len(asked) + 1], buffer)
    BY DEF Meant
  <2> QED BY <1>5, <2>1, AskServes DEF EditorAsksHints, Requests
<1>6. ASSUME NEW u \in Uri, EditorAsksUnknown(u)
      PROVE  Served'
  <2>1. Meant([method |-> "unknown", text |-> buffer[u], gap |-> 0],
              [method |-> "unknown", uri |-> u, position |-> None, id |-> Len(asked) + 1], buffer)
    BY DEF Meant
  <2> QED BY <1>6, <2>1, AskServes DEF EditorAsksUnknown, Requests
<1>7. CASE EditorNotifies
  <2>1. PICK k \in {"initialized", "garbled"} : Send([method |-> k]) /\ UNCHANGED <<buffer, hadValueless, asked>>
    BY <1>7 DEF EditorNotifies
  <2>2. PICK m : m = [method |-> k]
    OBVIOUS
  <2>3. m.method = k /\ Send(m)
    BY <2>1, <2>2
  <2>4. Effect(buffer, m, buffer')
    BY <2>1, <2>3 DEF Effect
  <2>5. Bears(buffer', hadValueless') /\ (hadValueless = TRUE => hadValueless' = TRUE)
    BY <1>0, <2>1 DEF Bears
  <2> QED BY <1>0, <2>1, <2>3, <2>4, <2>5, SendServes DEF Extends, IsRequest, Requests
<1>8. CASE EditorShutsDown
  <2>1. PICK u : u = CHOOSE v \in Uri : TRUE
    OBVIOUS
  <2>2. Ask("shutdown", u, None, [method |-> "shutdown", text |-> None, gap |-> 0])
    BY <1>8, <2>1 DEF EditorShutsDown
  <2>3. Meant([method |-> "shutdown", text |-> None, gap |-> 0],
              [method |-> "shutdown", uri |-> u, position |-> None, id |-> Len(asked) + 1], buffer)
    BY DEF Meant
  <2> QED BY <2>2, <2>3, AskServes DEF Requests
<1>9. CASE EditorExits
  <2>1. PICK m : m = [method |-> "exit"]
    OBVIOUS
  <2>2. m.method = "exit" /\ inbox' = Append(inbox, m) /\ UNCHANGED server
        /\ UNCHANGED <<buffer, hadValueless, asked, sent>>
    BY <1>9, <2>1 DEF EditorExits, editor
  <2>3. Effect(buffer, m, buffer')
    BY <2>2 DEF Effect
  <2>4. Bears(buffer', hadValueless') /\ (hadValueless = TRUE => hadValueless' = TRUE)
    BY <1>0, <2>2 DEF Bears
  <2> QED BY <1>0, <2>2, <2>3, <2>4, MessageJoins DEF Extends, IsRequest, Requests
<1>10. CASE HangUp
  <2>1. UNCHANGED <<phase, documents, shown, answers, inbox, buffer, hadValueless, asked, sent>>
    BY <1>10 DEF HangUp, server
  <2> QED BY <2>1 DEF Served, Following, Bears, Closing, Answered
<1> QED BY <1>1, <1>2, <1>3, <1>4, <1>5, <1>6, <1>7, <1>8, <1>9, <1>10 DEF Editor
-----------------------------------------------------------------------------
(* The server takes the first message of the history.                         *)
LEMMA HeadTells ==
  ASSUME IInv, Served, inbox # << >>, phase # "Crashed"
  PROVE  \E e \in Docs : /\ Effect(documents, Head(inbox), e) /\ Bears(e, hadValueless)
                         /\ Asks(Head(inbox), asked, documents)
                         /\ \E g : History(g, e, Tail(inbox), buffer, asked, hadValueless)
<1>1. IsSeq(inbox)
  BY DEF IInv
<1>2. /\ Len(inbox) \in Nat \ {0} /\ Len(Tail(inbox)) = Len(inbox) - 1
      /\ Head(inbox) = inbox[1]
      /\ \A i \in 1..Len(Tail(inbox)) : Tail(inbox)[i] = inbox[i + 1]
  BY <1>1, TailIsSeq
<1>3. PICK h : History(h, documents, inbox, buffer, asked, hadValueless)
  BY DEF Served, Following
<1>4. PICK w, w2 : w = inbox /\ w2 = Tail(inbox)
  OBVIOUS
<1>5. Left(w, w2)
  BY <1>2, <1>4 DEF Left
<1>6. History(h, documents, w, buffer, asked, hadValueless)
  BY <1>3, <1>4
<1>7. /\ Effect(documents, w[1], h[1]) /\ Asks(w[1], asked, documents)
      /\ h[1] \in Docs /\ Bears(h[1], hadValueless)
      /\ \E g : History(g, h[1], w2, buffer, asked, hadValueless)
  BY <1>5, <1>6, HistoryMoves
<1> QED BY <1>2, <1>4, <1>7

LEMMA MessageLeaves ==
  ASSUME IInv, Served, inbox # << >>, inbox' = Tail(inbox), UNCHANGED editor,
         phase' # "Crashed" => /\ \E g : History(g, documents', Tail(inbox), buffer, asked, hadValueless)
                               /\ shown' = [u \in Uri |-> Published(documents'[u])],
         phase' = "Crashed" => hadValueless = TRUE,
         documents' \in Docs, Bears(documents', FALSE),
         phase' # "Panicked", Answered',
         phase' = "Stopping" => Head(inbox).method = "shutdown"
  PROVE  Served'
<1>1. IsSeq(inbox) /\ Closing
  BY DEF IInv, Served
<1>2. /\ Len(inbox) \in Nat \ {0} /\ Len(inbox') = Len(inbox) - 1
      /\ Head(inbox) = inbox[1]
      /\ \A i \in 1..Len(inbox') : inbox'[i] = inbox[i + 1]
  BY <1>1, TailIsSeq
<1>3. ASSUME NEW i \in 1..Len(inbox'), NEW j \in 1..Len(inbox'), i < j,
             inbox'[i].method \in {"shutdown", "exit"}
      PROVE  inbox'[j].method = "exit"
  <2>1. i + 1 \in 1..Len(inbox) /\ j + 1 \in 1..Len(inbox) /\ i + 1 < j + 1
    BY <1>2, <1>3
  <2>2. inbox'[i] = inbox[i + 1] /\ inbox'[j] = inbox[j + 1]
    BY <1>2
  <2> QED BY <1>1, <1>3, <2>1, <2>2 DEF Closing
<1>4. ASSUME phase' = "Stopping", NEW i \in 1..Len(inbox') PROVE inbox'[i].method = "exit"
  <2>1. 1 \in 1..Len(inbox) /\ i + 1 \in 1..Len(inbox) /\ 1 < i + 1
    BY <1>2
  <2>2. inbox[1].method = "shutdown" /\ inbox'[i] = inbox[i + 1]
    BY <1>2, <1>4
  <2> QED BY <1>1, <2>1, <2>2 DEF Closing
<1>5. Closing'
  BY <1>3, <1>4 DEF Closing
<1>6. (phase' # "Crashed" => Following') /\ (phase' = "Crashed" => hadValueless' = TRUE)
  BY DEF editor, Following
<1>7. sent' \in Nat /\ buffer' \in Docs /\ Bears(buffer', hadValueless')
  BY DEF editor, Served, Bears
<1> QED BY <1>5, <1>6, <1>7 DEF Served

(* A message that asks nothing leaves the answers as they are.                *)
LEMMA StillAnswered ==
  ASSUME Served, UNCHANGED <<answers, asked>>
  PROVE  Answered'
BY DEF Served, Answered

LEMMA RightlyAnswered ==
  ASSUME IInv, Served, NEW m, NEW result, Respond(m.id, result), UNCHANGED asked,
         m.id \in 1..Len(asked), result = Expected(asked[m.id])
  PROVE  Answered'
<1>1. /\ Len(answers) \in Nat /\ Len(answers') = Len(answers) + 1
      /\ \A i \in 1..Len(answers) : answers'[i] = answers[i]
      /\ answers'[Len(answers) + 1] = [id |-> m.id, result |-> result]
  BY AppendIsSeq DEF IInv, Respond
<1>2. \A i \in 1..Len(answers') : i = Len(answers) + 1 \/ (i \in 1..Len(answers) /\ answers'[i] = answers[i])
  BY <1>1
<1> SUFFICES ASSUME NEW i \in 1..Len(answers')
             PROVE  answers'[i].id \in 1..Len(asked) /\ answers'[i].result = Expected(asked[answers'[i].id])
  BY DEF Answered
<1>3. CASE i = Len(answers) + 1
  BY <1>1, <1>3
<1>4. CASE i \in 1..Len(answers) /\ answers'[i] = answers[i]
  BY <1>4 DEF Served, Answered
<1> QED BY <1>2, <1>3, <1>4

(* A text that is replaced, and what is published of it.                      *)
LEMMA Republished ==
  ASSUME Served, phase # "Crashed", NEW u \in Uri, NEW text \in Texts \cup {None}, NEW found,
         found = Published(text), Publish(u, found), documents' = [documents EXCEPT ![u] = text]
  PROVE  shown' = [v \in Uri |-> Published(documents'[v])]
<1>1. shown = [v \in Uri |-> Published(documents[v])] /\ shown' = [shown EXCEPT ![u] = found]
      /\ documents \in Docs
  BY DEF Served, Following, Publish
<1>2. \A v \in Uri : documents'[v] = IF v = u THEN text ELSE documents[v]
  BY <1>1 DEF Docs
<1>3. \A v \in Uri : shown'[v] = Published(documents'[v])
  BY <1>1, <1>2
<1>4. shown' = [v \in Uri |-> shown'[v]]
  BY <1>1
<1> QED BY <1>3, <1>4
-----------------------------------------------------------------------------
(* A message that is no edit, and what a request is answered with.            *)
LEMMA OtherLeaves ==
  ASSUME IInv, Served, NEW method, method \notin Edited, Takes(method), UNCHANGED <<documents, shown>>,
         phase' \notin {"Panicked", "Crashed", "Stopping"} \/ (phase' = "Stopping" /\ method = "shutdown"),
         Answered'
  PROVE  Served'
<1>1. inbox # << >> /\ Head(inbox).method = method /\ inbox' = Tail(inbox) /\ UNCHANGED editor
      /\ phase # "Crashed"
  BY DEF Takes
<1>2. PICK e \in Docs : /\ Effect(documents, Head(inbox), e)
                       /\ \E g : History(g, e, Tail(inbox), buffer, asked, hadValueless)
  BY <1>1, HeadTells
<1>3. e = documents
  BY <1>1, <1>2 DEF Effect
<1>4. \E g : History(g, documents', Tail(inbox), buffer, asked, hadValueless)
  BY <1>2, <1>3
<1>5. shown' = [u \in Uri |-> Published(documents'[u])] /\ documents' \in Docs /\ Bears(documents', FALSE)
  BY <1>1 DEF Served, Following, Bears
<1> QED BY <1>1, <1>4, <1>5, MessageLeaves

LEMMA RequestLeaves ==
  ASSUME IInv, Served, NEW method \in Requests, Takes(method), UNCHANGED <<documents, shown>>,
         NEW result, Respond(Head(inbox).id, result),
         phase' \notin {"Panicked", "Crashed", "Stopping"} \/ (phase' = "Stopping" /\ method = "shutdown"),
         Meant(asked[Head(inbox).id], Head(inbox), documents) =>
           result = Expected(asked[Head(inbox).id])
  PROVE  Served'
<1>1. inbox # << >> /\ Head(inbox).method = method /\ UNCHANGED asked /\ phase # "Crashed"
  BY DEF Takes, editor
<1>2. Asks(Head(inbox), asked, documents)
  BY <1>1, HeadTells
<1>3. Head(inbox).id \in 1..Len(asked) /\ Meant(asked[Head(inbox).id], Head(inbox), documents)
  BY <1>1, <1>2 DEF Asks, IsRequest
<1>4. Answered'
  BY <1>1, <1>3, RightlyAnswered
<1>5. method \notin Edited
  BY DEF Edited, Requests
<1> QED BY <1>4, <1>5, OtherLeaves

LEMMA HeadAbout ==
  ASSUME IInv, Served, inbox # << >>, phase # "Crashed", Head(inbox).method \in {"hover", "inlayHint"}
  PROVE  Head(inbox).uri \in Uri
<1>1. Asks(Head(inbox), asked, documents)
  BY HeadTells
<1> QED BY <1>1 DEF Asks, IsRequest, Requests, Meant

LEMMA HoverMeets ==
  ASSUME NEW about, NEW m, NEW d \in Docs, Meant(about, m, d), m.method = "hover"
  PROVE  HoverAt(d[m.uri], m.position) = Expected(about)
<1>1. about.method = "hover" /\ m.uri \in Uri /\ about.text = d[m.uri]
  BY DEF Meant
<1>2. CASE about.text = None \/ Outcome(about.text) # "Checked"
  BY <1>1, <1>2 DEF HoverAt, Expected
<1>3. CASE about.text # None /\ Outcome(about.text) = "Checked"
  <2>1. about.text \in Seq(Char)
    BY <1>1, <1>3, TextsAre DEF Docs
  <2>2. about.gap \in 0..Len(about.text) /\ m.position = EditorPosition(about.text, about.gap)
    BY <1>1, <1>3 DEF Meant
  <2>3. Offset(about.text, m.position) = Bytes(about.text, about.gap)
    BY <2>1, <2>2, PlacesRoundTrip DEF RoundTrips
  <2>4. HoverAt(d[m.uri], m.position) = [text |-> about.text, offset |-> Bytes(about.text, about.gap)]
    BY <1>1, <1>3, <2>3 DEF HoverAt
  <2> QED BY <1>1, <1>3, <2>4 DEF Expected
<1> QED BY <1>2, <1>3

LEMMA HintsMeet ==
  ASSUME NEW about, NEW m, NEW d, Meant(about, m, d), m.method = "inlayHint"
  PROVE  InlayHints(d[m.uri]) = Expected(about)
<1>1. about.method = "inlayHint" /\ about.text = d[m.uri]
  BY DEF Meant
<1> QED BY <1>1 DEF InlayHints, Expected
-----------------------------------------------------------------------------
LEMMA EditLeaves ==
  ASSUME IInv, Served, NEW method \in Edited, Takes(method), UNCHANGED answers, phase' = phase,
         NEW m, m = Head(inbox), NEW text \in Texts \cup {None}, NEW found, found = Published(text),
         Publish(m.uri, found), documents' = [documents EXCEPT ![m.uri] = text],
         \A e : Effect(documents, m, e) => e = [documents EXCEPT ![m.uri] = text], ~Valueless(text)
  PROVE  Served'
<1>1. inbox # << >> /\ m.method = method /\ inbox' = Tail(inbox) /\ UNCHANGED <<asked, phase>> /\ UNCHANGED editor
      /\ phase = "Running"
  BY DEF Takes, editor
<1>2. PICK e \in Docs : /\ Effect(documents, m, e)
                       /\ \E g : History(g, e, Tail(inbox), buffer, asked, hadValueless)
  BY <1>1, HeadTells
<1>3. e = documents' /\ m.uri \in Uri
  BY <1>1, <1>2 DEF Effect
<1>4. \E g : History(g, documents', Tail(inbox), buffer, asked, hadValueless)
  BY <1>2, <1>3
<1>5. shown' = [u \in Uri |-> Published(documents'[u])]
  BY <1>1, <1>3, Republished
<1>6. Answered'
  BY <1>1, StillAnswered
<1>7. documents' \in Docs /\ Bears(documents', FALSE)
  BY <1>2, <1>3 DEF Served, Bears, Docs
<1> QED BY <1>1, <1>4, <1>5, <1>6, <1>7, MessageLeaves

(* A message whose text ends the process: the editor has had that text.       *)
LEMMA EditCrashes ==
  ASSUME IInv, Served, NEW method \in Edited, Takes(method), UNCHANGED answers, phase' = "Crashed",
         NEW m, m = Head(inbox), NEW text \in Texts, Valueless(text),
         \A e : Effect(documents, m, e) => e = [documents EXCEPT ![m.uri] = text],
         documents' = documents \/ documents' = [documents EXCEPT ![m.uri] = None]
  PROVE  Served'
<1>1. inbox # << >> /\ m.method = method /\ inbox' = Tail(inbox) /\ UNCHANGED asked /\ UNCHANGED editor
      /\ phase = "Running"
  BY DEF Takes, editor
<1>2. PICK e \in Docs : Effect(documents, m, e) /\ Bears(e, hadValueless)
  BY <1>1, HeadTells
<1>3. e = [documents EXCEPT ![m.uri] = text] /\ m.uri \in Uri /\ documents \in Docs /\ Bears(documents, FALSE)
  BY <1>1, <1>2 DEF Effect, Served
<1>4. e[m.uri] = text
  BY <1>3 DEF Docs
<1>5. hadValueless = TRUE
  BY <1>2, <1>3, <1>4 DEF Bears
<1>6. documents' \in Docs
  BY <1>3 DEF Docs
<1>7. Bears(documents', FALSE)
  <2>1. \A v \in Uri : documents'[v] \in {None, documents[v]}
    BY <1>3 DEF Docs
  <2> QED BY <1>3, <2>1 DEF Bears, Valueless
<1>8. Answered'
  BY <1>1, StillAnswered
<1> QED BY <1>1, <1>5, <1>6, <1>7, <1>8, MessageLeaves

LEMMA ServeServes ==
  ASSUME IInv, Served, Serve
  PROVE  Served'
<1>0. documents \in Docs /\ \A u \in Uri : ~Valueless(documents[u])
  BY ServedTypes DEF Served, Bears
<1>1. CASE Initialize
  <2>1. inbox = << [method |-> "initialize"] >> /\ inbox' = Tail(inbox) /\ UNCHANGED <<documents, shown, answers, editor>>
        /\ phase' = "Running" /\ phase # "Crashed"
    BY <1>1 DEF Initialize, IInv, Starts
  <2>2. inbox # << >> /\ Head(inbox).method = "initialize"
    BY <2>1
  <2>3. PICK e \in Docs : /\ Effect(documents, Head(inbox), e)
                         /\ \E g : History(g, e, Tail(inbox), buffer, asked, hadValueless)
    BY <2>1, <2>2, HeadTells
  <2>4. e = documents'
    BY <2>1, <2>2, <2>3 DEF Effect, Edited
  <2>5. \E g : History(g, documents', Tail(inbox), buffer, asked, hadValueless)
    BY <2>3, <2>4
  <2>6. shown' = [u \in Uri |-> Published(documents'[u])] /\ documents' \in Docs /\ Bears(documents', FALSE)
    BY <2>1 DEF Served, Following, Bears
  <2>7. Answered'
    BY <2>1, StillAnswered DEF editor
  <2> QED BY <2>1, <2>2, <2>5, <2>6, <2>7, MessageLeaves
<1>2. CASE DidOpen
  <2>1. PICK m : m = Head(inbox)
    OBVIOUS
  <2>2. /\ Takes("didOpen") /\ m.method = "didOpen" /\ inbox # << >> /\ phase # "Crashed"
        /\ PublishAndInsert(m.uri, m.text, documents) /\ UNCHANGED answers
    BY <1>2, <2>1 DEF DidOpen, Takes
  <2>3. PICK e \in Docs : Effect(documents, m, e)
    BY <2>1, <2>2, HeadTells
  <2>4. m.text \in Texts
    BY <2>2, <2>3 DEF Effect
  <2>5. Diagnostics(m.text) = Published(m.text)
    BY <2>4, TextsAre DEF Published
  <2>6. \A f : Effect(documents, m, f) => f = [documents EXCEPT ![m.uri] = m.text]
    BY <2>2 DEF Effect
  <2>7. PICK text, found : text = m.text /\ found = Diagnostics(m.text)
    OBVIOUS
  <2>8. CASE Valueless(m.text)
    <3>1. phase' = "Crashed" /\ documents' = documents
      BY <2>2, <2>8 DEF PublishAndInsert
    <3> QED BY <2>1, <2>2, <2>4, <2>6, <2>7, <2>8, <3>1, EditCrashes DEF Edited
  <2>9. CASE ~Valueless(m.text)
    <3>1. /\ Publish(m.uri, Diagnostics(m.text)) /\ UNCHANGED phase
          /\ documents' = [documents EXCEPT ![m.uri] = m.text]
      BY <2>2, <2>9 DEF PublishAndInsert
    <3> QED BY <2>1, <2>2, <2>4, <2>5, <2>6, <2>7, <2>9, <3>1, EditLeaves DEF Edited
  <2> QED BY <2>8, <2>9
<1>3. CASE DidChange
  <2>1. PICK m : m = Head(inbox)
    OBVIOUS
  <2>2. Takes("didChange") /\ m.method = "didChange" /\ inbox # << >> /\ UNCHANGED answers /\ phase # "Crashed"
    BY <1>3, <2>1 DEF DidChange, Takes
  <2>3. PICK e \in Docs : Effect(documents, m, e)
    BY <2>1, <2>2, HeadTells
  <2>4. PICK t \in Texts : documents[m.uri] # None /\ Applied(documents[m.uri], m.changes) = {t}
    BY <2>2, <2>3 DEF Effect
  <2>9. PICK removed : removed = [documents EXCEPT ![m.uri] = None]
    OBVIOUS
  <2>5. PublishAndInsert(m.uri, t, removed)
    <3>1. PICK text \in Applied(documents[m.uri], m.changes) :
            IF text = None
            THEN phase' = "Panicked" /\ documents' = removed /\ UNCHANGED shown
            ELSE PublishAndInsert(m.uri, text, removed)
      BY <1>3, <2>1, <2>4, <2>9 DEF DidChange
    <3>2. text = t /\ t # None
      BY <2>4, <3>1, TextsAre
    <3> QED BY <3>1, <3>2
  <2>6. Diagnostics(t) = Published(t)
    BY TextsAre DEF Published
  <2>7. \A f : Effect(documents, m, f) => f = [documents EXCEPT ![m.uri] = t]
    BY <2>2, <2>4 DEF Effect
  <2>8. PICK found : found = Diagnostics(t)
    OBVIOUS
  <2>10. CASE Valueless(t)
    <3>1. phase' = "Crashed" /\ documents' = removed
      BY <2>5, <2>10 DEF PublishAndInsert
    <3> QED BY <2>1, <2>2, <2>7, <2>9, <2>10, <3>1, EditCrashes DEF Edited
  <2>11. CASE ~Valueless(t)
    <3>1. Publish(m.uri, Diagnostics(t)) /\ UNCHANGED phase /\ documents' = [removed EXCEPT ![m.uri] = t]
      BY <2>5, <2>11 DEF PublishAndInsert
    <3>2. documents' = [documents EXCEPT ![m.uri] = t]
      BY <2>9, <3>1
    <3> QED BY <2>1, <2>2, <2>6, <2>7, <2>8, <2>11, <3>1, <3>2, EditLeaves DEF Edited
  <2> QED BY <2>10, <2>11
<1>4. CASE DidClose
  <2>1. PICK m : m = Head(inbox)
    OBVIOUS
  <2>2. /\ Takes("didClose") /\ m.method = "didClose" /\ inbox # << >>
        /\ Publish(m.uri, {})
        /\ documents' = [documents EXCEPT ![m.uri] = None] /\ UNCHANGED <<phase, answers>>
    BY <1>4, <2>1 DEF DidClose, Takes
  <2>3. {} = Published(None) /\ ~Valueless(None)
    BY DEF Published, Valueless
  <2>4. \A f : Effect(documents, m, f) => f = [documents EXCEPT ![m.uri] = None]
    BY <2>2 DEF Effect
  <2>5. PICK text, found : text = None /\ found = {}
    OBVIOUS
  <2> QED BY <2>1, <2>2, <2>3, <2>4, <2>5, EditLeaves DEF Edited
<1>5. CASE Hover
  <2>1. PICK m, result : m = Head(inbox) /\ result = HoverAt(documents[m.uri], m.position)
    OBVIOUS
  <2>4. Takes("hover") /\ m.method = "hover" /\ RespondFrom(documents[m.uri], result) /\ UNCHANGED <<documents, shown>>
        /\ phase = "Running" /\ inbox # << >>
    BY <1>5, <2>1 DEF Hover, Takes
  <2>5. ~Valueless(documents[m.uri])
    BY <1>0, <2>1, <2>4, HeadAbout DEF Requests
  <2>2. /\ Takes("hover") /\ m.method = "hover" /\ Respond(Head(inbox).id, result)
        /\ phase' = "Running" /\ UNCHANGED <<documents, shown>>
    BY <2>4, <2>5 DEF RespondFrom
  <2>3. Meant(asked[m.id], m, documents) => result = Expected(asked[m.id])
    BY <1>0, <2>1, <2>2, HoverMeets
  <2> QED BY <2>1, <2>2, <2>3, RequestLeaves DEF Requests
<1>6. CASE InlayHint
  <2>1. PICK m, result : m = Head(inbox) /\ result = InlayHints(documents[m.uri])
    OBVIOUS
  <2>4. Takes("inlayHint") /\ m.method = "inlayHint" /\ RespondFrom(documents[m.uri], result)
        /\ UNCHANGED <<documents, shown>> /\ phase = "Running" /\ inbox # << >>
    BY <1>6, <2>1 DEF InlayHint, Takes
  <2>5. ~Valueless(documents[m.uri])
    BY <1>0, <2>1, <2>4, HeadAbout DEF Requests
  <2>2. /\ Takes("inlayHint") /\ m.method = "inlayHint" /\ Respond(Head(inbox).id, result)
        /\ phase' = "Running" /\ UNCHANGED <<documents, shown>>
    BY <2>4, <2>5 DEF RespondFrom
  <2>3. Meant(asked[m.id], m, documents) => result = Expected(asked[m.id])
    BY <2>1, <2>2, HintsMeet
  <2> QED BY <2>1, <2>2, <2>3, RequestLeaves DEF Requests
<1>7. CASE UnknownRequest
  <2>1. PICK m : m = Head(inbox)
    OBVIOUS
  <2>2. /\ Takes("unknown") /\ m.method = "unknown" /\ Respond(Head(inbox).id, "MethodNotFound")
        /\ phase' = "Running" /\ UNCHANGED <<documents, shown>>
    BY <1>7, <2>1 DEF UnknownRequest, Takes
  <2>3. Meant(asked[m.id], m, documents) => "MethodNotFound" = Expected(asked[m.id])
    BY <2>2 DEF Meant, Expected
  <2> QED BY <2>1, <2>2, <2>3, RequestLeaves DEF Requests
<1>8. CASE Shutdown
  <2>1. PICK m : m = Head(inbox)
    OBVIOUS
  <2>2. /\ Takes("shutdown") /\ m.method = "shutdown" /\ Respond(Head(inbox).id, None)
        /\ phase' = "Stopping" /\ UNCHANGED <<documents, shown>>
    BY <1>8, <2>1 DEF Shutdown, Takes
  <2>3. Meant(asked[m.id], m, documents) => None = Expected(asked[m.id])
    BY <2>2 DEF Meant, Expected
  <2> QED BY <2>1, <2>2, <2>3, RequestLeaves DEF Requests
<1>9. CASE UnknownNotification
  <2>1. Takes("initialized") /\ UNCHANGED <<phase, documents, shown, answers, asked>> /\ phase = "Running"
    BY <1>9 DEF UnknownNotification, Takes, editor
  <2> QED BY <2>1, StillAnswered, OtherLeaves DEF Edited
<1>10. CASE MalformedParams
  <2>1. Takes("garbled") /\ phase' = "Failed" /\ UNCHANGED <<documents, shown, answers, asked>>
    BY <1>10 DEF MalformedParams, Takes, editor
  <2> QED BY <2>1, StillAnswered, OtherLeaves DEF Edited
<1>11. CASE AwaitExit
  <2>1. phase = "Stopping" /\ UNCHANGED <<documents, shown, answers>> /\ UNCHANGED editor
    BY <1>11 DEF AwaitExit
  <2>2. Answered'
    BY <2>1, StillAnswered DEF editor
  <2>3. CASE inbox = << >>
    <3>1. phase' = "Failed" /\ UNCHANGED inbox
      BY <1>11, <2>3 DEF AwaitExit
    <3> QED BY <2>1, <2>2, <3>1 DEF Served, Following, Bears, Closing, editor
  <2>4. CASE inbox # << >>
    <3>1. phase' = "Stopped" /\ inbox' = Tail(inbox)
      BY <1>11, <2>4 DEF AwaitExit
    <3>2. Head(inbox) = inbox[1] /\ 1 \in 1..Len(inbox)
      BY <2>4, TailIsSeq DEF IInv
    <3>3. Head(inbox).method = "exit"
      BY <2>1, <3>2 DEF Served, Closing
    <3>4. PICK e \in Docs : /\ Effect(documents, Head(inbox), e)
                           /\ \E g : History(g, e, Tail(inbox), buffer, asked, hadValueless)
      BY <2>1, <2>4, HeadTells
    <3>5. e = documents'
      BY <2>1, <3>3, <3>4 DEF Effect, Edited
    <3>6. \E g : History(g, documents', Tail(inbox), buffer, asked, hadValueless)
      BY <3>4, <3>5
    <3>7. shown' = [u \in Uri |-> Published(documents'[u])] /\ documents' \in Docs /\ Bears(documents', FALSE)
      BY <2>1 DEF Served, Following, Bears
    <3> QED BY <2>1, <2>2, <2>4, <3>1, <3>6, <3>7, MessageLeaves
  <2> QED BY <2>3, <2>4
<1>12. CASE ChannelClosed
  <2>1. phase' = "Stopped" /\ UNCHANGED <<inbox, documents, shown, answers>> /\ UNCHANGED editor
        /\ phase = "Running"
    BY <1>12 DEF ChannelClosed
  <2> QED BY <2>1 DEF Served, Following, Bears, Closing, Answered, editor
<1> QED BY <1>1, <1>2, <1>3, <1>4, <1>5, <1>6, <1>7, <1>8, <1>9, <1>10, <1>11, <1>12 DEF Serve

LEMMA AlwaysServed == Spec => [](IInv /\ Served)
<1>1. Init => IInv /\ Served
  BY InitIInv, InitServed
<1>2. IInv /\ Served /\ [Next]_vars => IInv' /\ Served'
  <2> SUFFICES ASSUME IInv, Served, [Next]_vars PROVE IInv' /\ Served'
    OBVIOUS
  <2>1. CASE Serve
    BY <2>1, ServeKeeps, ServeServes
  <2>2. CASE Editor
    BY <2>2, EditorKeeps, EditorServes
  <2>3. CASE UNCHANGED vars
    <3>1. IInv'
      BY <2>3 DEF vars, IInv, Starts, AnsweredInTurn, IsSeq, Questions, IsRequest
    <3>2. Served'
      BY <2>3 DEF vars, Served, Following, Bears, Closing, Answered
    <3> QED BY <3>1, <3>2
  <2> QED BY <2>1, <2>2, <2>3 DEF Next
<1> QED BY <1>1, <1>2, PTL DEF Spec
-----------------------------------------------------------------------------
(* A document no message is about has the same text all through the history.  *)
LEMMA SameText ==
  ASSUME IInv, Served, phase # "Crashed", NEW u \in Uri, ~Waiting(u)
  PROVE  documents[u] = buffer[u]
<1>1. PICK h : History(h, documents, inbox, buffer, asked, hadValueless)
  BY DEF Served, Following
<1>2. Len(inbox) \in Nat /\ DOMAIN inbox = 1..Len(inbox)
  BY AppendIsSeq DEF IInv, IsSeq
<1> DEFINE S == {n \in 0..Len(inbox) : h[n][u] = documents[u]}
<1>3. 0 \in S
  BY <1>1, <1>2 DEF History
<1>4. ASSUME NEW n \in 0..(Len(inbox) - 1), n \in S PROVE n + 1 \in S
  <2>1. n + 1 \in 1..Len(inbox) /\ (n + 1) - 1 = n /\ n \in 0..Len(inbox)
    BY <1>2
  <2>2. PICK m, d, e : m = inbox[n + 1] /\ d = h[n] /\ e = h[n + 1]
    OBVIOUS
  <2>3. Effect(d, m, e) /\ d \in Docs /\ d[u] = documents[u]
    BY <1>1, <1>4, <2>1, <2>2 DEF History
  <2>4. m.method \in Edited => m.uri # u
    BY <1>2, <2>1, <2>2 DEF Waiting, Edited
  <2>5. e[u] = d[u]
    <3>1. CASE m.method \notin Edited
      BY <2>3, <3>1 DEF Effect
    <3>2. CASE m.method = "didOpen"
      BY <2>3, <2>4, <3>2 DEF Effect, Edited, Docs
    <3>3. CASE m.method = "didChange"
      <4>1. PICK t : e = [d EXCEPT ![m.uri] = t]
        BY <2>3, <3>3 DEF Effect
      <4>2. m.uri # u
        BY <2>4, <3>3 DEF Edited
      <4> QED BY <2>3, <4>1, <4>2 DEF Docs
    <3>4. CASE m.method = "didClose"
      BY <2>3, <2>4, <3>4 DEF Effect, Edited, Docs
    <3> QED BY <3>1, <3>2, <3>3, <3>4 DEF Edited
  <2> QED BY <2>1, <2>2, <2>3, <2>5
<1>5. \A n \in 0..Len(inbox) : n \in S
  <2> HIDE DEF S
  <2> QED BY <1>2, <1>3, <1>4, UpTo
<1>6. Len(inbox) \in S
  BY <1>2, <1>5
<1> QED BY <1>1, <1>6 DEF History

(* However an editor cuts its edits into changes and messages, and whatever   *)
(* waits in the channel, the server's text of a document is the editor's once *)
(* no message about it waits, no range an editor sends makes replace_range    *)
(* panic, and the parser ends the process only over a text the editor has had *)
(* (handle_notification, check).                                              *)
THEOREM TextsAlwaysAgree == Spec => []TextsAgree
<1>1. IInv /\ Served => TextsAgree
  BY SameText DEF Served, TextsAgree
<1> QED BY <1>1, AlwaysServed, PTL

(* A published range is where the front end found it, in an editor's terms.   *)
LEMMA RangesAre ==
  ASSUME NEW text \in Texts
  PROVE  {RangeOf(text, s) : s \in Spans(text)} = EditorRanges(text)
<1>1. text \in Seq(Char)
  BY TextsAre
<1> DEFINE gap(offset) == CHOOSE n \in 0..Len(text) : Bytes(text, n) = offset
<1>2. ASSUME NEW n \in 0..Len(text) PROVE gap(Bytes(text, n)) = n
  <2>1. \A k \in 0..Len(text) : Bytes(text, k) = Bytes(text, n) => k = n
    <3>1. \A k \in 0..Len(text) : CharsBefore(text, Bytes(text, k)) = k
      BY <1>1, CharsBeforeIs
    <3> QED BY <3>1
  <2> QED BY <2>1
<1>3. ASSUME NEW offset \in Boundaries(text) PROVE Position(text, offset) = EditorPosition(text, gap(offset))
  <2>1. PICK n \in 0..Len(text) : offset = Bytes(text, n)
    BY <1>3 DEF Boundaries
  <2>2. Position(text, offset) = EditorPosition(text, n)
    BY <1>1, <2>1, PlacesRoundTrip DEF RoundTrips
  <2>3. gap(offset) = n
    BY <1>2, <2>1
  <2> HIDE DEF gap
  <2> QED BY <2>2, <2>3
<1> HIDE DEF gap
<1>4. \A s \in Spans(text) :
        RangeOf(text, s) = [start |-> EditorPosition(text, gap(s.start)), end |-> EditorPosition(text, gap(s.end))]
  BY <1>3, FrontEndAssumption DEF RangeOf
<1>5. EditorRanges(text) =
        {[start |-> EditorPosition(text, gap(s.start)), end |-> EditorPosition(text, gap(s.end))] : s \in Spans(text)}
  BY DEF EditorRanges, gap
<1> QED BY <1>4, <1>5

(* What an editor shows of a document no message about which waits is what    *)
(* the front end finds in the text it has, at the places it finds it, for as  *)
(* long as the parser has not ended the process (publish, send_diagnostics).  *)
THEOREM AlwaysShownCurrent == Spec => []ShownAreCurrent
<1>1. ASSUME IInv, Served, phase # "Crashed", NEW u \in Uri, ~Waiting(u) PROVE RightlyShown(u)
  <2>1. PICK text \in Texts \cup {None} : text = buffer[u] /\ text = documents[u]
    BY <1>1, SameText, ServedTypes DEF Docs
  <2>2. shown[u] = Published(text)
    BY <1>1, <2>1 DEF Served, Following
  <2>3. CASE text = None
    BY <2>1, <2>2, <2>3 DEF RightlyShown, Published
  <2>4. CASE text # None
    <3>1. {RangeOf(text, s) : s \in Spans(text)} = EditorRanges(text)
      BY <2>4, RangesAre
    <3>2. shown[u] = IF Outcome(text) \in {"Unlexable", "Panics"} THEN {} ELSE EditorRanges(text)
      BY <2>2, <2>4, <3>1 DEF Published, Diagnostics
    <3> QED BY <2>1, <2>4, <3>2 DEF RightlyShown
  <2> QED BY <2>3, <2>4
<1>2. IInv /\ Served => ShownAreCurrent
  BY <1>1 DEF ShownAreCurrent
<1> QED BY <1>2, AlwaysServed, PTL

(* Every answer is about the text and the place the editor had when it asked, *)
(* whatever was edited since on either side (handle_request, hover_at).       *)
THEOREM AnswersAlwaysMeet == Spec => []AnswersMeetQuestions
<1>1. IInv /\ Served => AnswersMeetQuestions
  <2> SUFFICES ASSUME IInv, Served, NEW i \in DOMAIN answers
               PROVE  answers[i].result = Expected(asked[answers[i].id])
    BY DEF AnswersMeetQuestions
  <2>1. i \in 1..Len(answers)
    BY DEF IInv, IsSeq
  <2> QED BY <2>1 DEF Served, Answered
<1> QED BY <1>1, AlwaysServed, PTL

(* The line index is right for every text the server comes to, and a place no *)
(* editor should name still stands for whole characters, in their order.      *)
THEOREM PlacesAlwaysKept == Spec => []PlacesKept
<1>1. ASSUME NEW t \in Texts PROVE RoundTrips(t) /\ NoOffsetSplits(t)
  <2>1. t \in Seq(Char)
    BY TextsAre
  <2>2. RoundTrips(t)
    BY <2>1, PlacesRoundTrip
  <2>3. ASSUME NEW l \in 0..LastLine(t) + 1, NEW c \in 0..2 * MaxLen
        PROVE  /\ Offset(t, [line |-> l, character |-> c]) \in Boundaries(t)
               /\ Offset(t, [line |-> l, character |-> c]) <= Offset(t, [line |-> l, character |-> c + 1])
               /\ l < LastLine(t) => Offset(t, [line |-> l, character |-> c])
                                       <= Offset(t, [line |-> l + 1, character |-> 0])
    <3>1. l \in Nat /\ c \in Nat /\ c + 1 \in Nat /\ c <= c + 1
      BY <2>1, StartsFacts, BoundsAssumption
    <3> QED BY <2>1, <3>1, OffsetsInOrder
  <2>4. NoOffsetSplits(t)
    BY <2>3 DEF NoOffsetSplits
  <2> QED BY <2>2, <2>4
<1>2. IInv /\ Served => PlacesKept
  BY <1>1, ServedTypes DEF PlacesKept, Docs
<1> QED BY <1>2, AlwaysServed, PTL
=============================================================================
