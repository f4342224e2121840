----------------------------- MODULE Lexer_proofs -----------------------------
(***************************************************************************)
(* The lexer on every text: nothing of it is lost, each token ends where   *)
(* its own text says, and no two that touch are one.  And the parser on    *)
(* every literal: its value is the one that is written.                    *)
(***************************************************************************)
EXTENDS Literals, Induction, FiniteSetTheorems

Text == Seq(Bytes)

LEMMA NoByteIsOutside == Outside \notin Bytes
BY TextsAssumption

LEMMA LengthIs ==
  ASSUME NEW t \in Text
  PROVE  Len(t) \in Nat /\ DOMAIN t = 1..Len(t)
BY DEF Text

LEMMA AtIs ==
  ASSUME NEW t \in Text
  PROVE  /\ \A i \in 1..Len(t) : t[i] \in Bytes /\ At(t, i) = t[i] /\ At(t, i) # Outside
         /\ \A i : i \notin 1..Len(t) => At(t, i) = Outside
<1>1. Len(t) \in Nat /\ DOMAIN t = 1..Len(t) /\ \A i \in 1..Len(t) : t[i] \in Bytes
  BY DEF Text
<1> QED BY <1>1, NoByteIsOutside DEF At

(* The first place from i on that is not in S, if some place is not.          *)
IsRun(t, i, S, j) == j \in i..(Len(t) + 1) /\ At(t, j) \notin S /\ \A k \in i..(j - 1) : t[k] \in S

LEMMA RunEndIs ==
  ASSUME NEW t \in Text, NEW i \in 1..(Len(t) + 1), NEW S, Outside \notin S
  PROVE  IsRun(t, i, S, RunEnd(t, i, S))
<1> DEFINE Out == {j \in Nat : j \in i..(Len(t) + 1) /\ At(t, j) \notin S}
<1>1. Len(t) \in Nat /\ Len(t) + 1 \in Out
  <2>1. Len(t) \in Nat
    BY LengthIs
  <2>2. Len(t) + 1 \notin 1..Len(t) /\ Len(t) + 1 \in i..(Len(t) + 1)
    BY <2>1
  <2> QED BY <2>1, <2>2, AtIs
<1>2. PICK j \in Out : \A m \in Out : j <= m
  <2> HIDE DEF Out
  <2>1. Out \in SUBSET Nat
    BY DEF Out
  <2> QED BY <1>1, <2>1, LeastNatural
<1>3. ASSUME NEW k \in i..(j - 1) PROVE t[k] \in S
  <2>1. k \in Nat /\ k \in 1..Len(t) /\ k \in i..(Len(t) + 1) /\ ~(j <= k)
    BY <1>1, <1>2
  <2>2. k \notin Out
    BY <1>2, <2>1
  <2>3. At(t, k) \in S
    BY <2>1, <2>2
  <2> QED BY <2>1, <2>3, AtIs
<1>4. IsRun(t, i, S, j)
  BY <1>2, <1>3 DEF IsRun
<1> QED BY <1>4 DEF IsRun, RunEnd

LEMMA OneRunEnd ==
  ASSUME NEW t \in Text, NEW i \in 1..(Len(t) + 1), NEW S, Outside \notin S, NEW j, IsRun(t, i, S, j)
  PROVE  RunEnd(t, i, S) = j
<1> DEFINE r == RunEnd(t, i, S)
<1>1. IsRun(t, i, S, r)
  BY RunEndIs
<1> HIDE DEF r
<1>2. Len(t) \in Nat /\ r \in Int /\ j \in Int /\ r \in i..(Len(t) + 1) /\ j \in i..(Len(t) + 1)
  BY <1>1, LengthIs DEF IsRun
<1>3. ~(r < j)
  <2> SUFFICES ASSUME r < j PROVE FALSE
    OBVIOUS
  <2>1. r \in i..(j - 1) /\ r \in 1..Len(t)
    BY <1>2
  <2> QED BY <2>1, <1>1, AtIs DEF IsRun
<1>4. ~(j < r)
  <2> SUFFICES ASSUME j < r PROVE FALSE
    OBVIOUS
  <2>1. j \in i..(r - 1) /\ j \in 1..Len(t)
    BY <1>2
  <2> QED BY <2>1, <1>1, AtIs DEF IsRun
<1> QED BY <1>2, <1>3, <1>4 DEF r

(* A line ends where the run of other bytes does.                             *)
LEMMA UntilIs ==
  ASSUME NEW t \in Text, NEW i \in 1..(Len(t) + 1), NEW c
  PROVE  Until(t, i, c) = RunEnd(t, i, Bytes \ {c})
<1> DEFINE S == Bytes \ {c}
           r == RunEnd(t, i, S)
           Is(j) == j \in i..(Len(t) + 1) /\ At(t, j) \in {c, Outside} /\ \A k \in i..(j - 1) : t[k] # c
<1>1. Outside \notin S
  BY NoByteIsOutside
<1>2. ASSUME NEW j PROVE IsRun(t, i, S, j) <=> Is(j)
  <2> SUFFICES ASSUME j \in i..(Len(t) + 1) PROVE IsRun(t, i, S, j) <=> Is(j)
    BY DEF IsRun
  <2>1. At(t, j) \notin S <=> At(t, j) \in {c, Outside}
    BY <1>1, AtIs
  <2>2. \A k \in i..(j - 1) : k \in 1..Len(t)
    BY LengthIs
  <2>3. \A k \in i..(j - 1) : t[k] \in S <=> t[k] # c
    BY <2>2, AtIs
  <2> QED BY <2>1, <2>3 DEF IsRun
<1>3. Is(r) /\ \A j : Is(j) => j = r
  <2> HIDE DEF S, Is
  <2> QED BY <1>1, <1>2, RunEndIs, OneRunEnd
<1>4. Until(t, i, c) = CHOOSE j \in i..(Len(t) + 1) : Is(j)
  BY DEF Until
<1>5. \A j : Is(j) => j \in i..(Len(t) + 1)
  OBVIOUS
<1> HIDE DEF Is, r
<1> QED BY <1>3, <1>4, <1>5 DEF r
-----------------------------------------------------------------------------
(* The words of the table have a byte, and none is of a wide character.       *)
Marks == {"+", "-", "*", "/", "%", "<", ">", "!", "&", "|", "^", "=", ".", "?", ":",
  Semicolon, ",", "@", "#", "(", ")", OpeningBrace, "}", "[", "]"}

LEMMA MarksAreNoLetters == Marks \cap Letters = {}
BY DEF Marks, Letters, LowerHex, UpperHex, Semicolon, OpeningBrace

LEMMA KeywordsAreLetters == Keywords \subseteq Seq(Letters) \ {<<>>}
<1>1. Keywords \subseteq Seq(Letters)
  BY DEF Keywords, Letters, LowerHex, UpperHex
<1>2. <<>> \notin Keywords
  BY DEF Keywords
<1> QED BY <1>1, <1>2

LEMMA SymbolsAreMarks ==
  ASSUME NEW w \in Symbols
  PROVE  \E a, b, c \in Marks : w = <<a>> \/ w = <<a, b>> \/ w = <<a, b, c>>
<1> DEFINE Goal == \E a, b, c \in Marks : w = <<a>> \/ w = <<a, b>> \/ w = <<a, b, c>>
<1>1. CASE w \in {<<c>> : c \in Marks}
  <2>1. PICK c \in Marks : w = <<c>>
    BY <1>1
  <2> QED BY <2>1, Zenon
<1>2. CASE w \in {<<c, "=">> : c \in {"=", "!", "<", ">", "+", "-", "*", "/", "%", "&", "|", "^"}}
  <2>1. PICK c \in {"=", "!", "<", ">", "+", "-", "*", "/", "%", "&", "|", "^"} : w = <<c, "=">>
    BY <1>2
  <2>2. c \in Marks /\ "=" \in Marks
    BY DEF Marks
  <2> QED BY <2>1, <2>2
<1>3. CASE w \in {<<c, c>> : c \in {"&", "|", "<", ">", ".", ":"}}
  <2>1. PICK c \in {"&", "|", "<", ">", ".", ":"} : w = <<c, c>>
    BY <1>3
  <2>2. c \in Marks
    BY DEF Marks
  <2> QED BY <2>1, <2>2
<1>4. CASE w \in {<<c, c, "=">> : c \in {"<", ">", "."}}
  <2>1. PICK c \in {"<", ">", "."} : w = <<c, c, "=">>
    BY <1>4
  <2>2. c \in Marks /\ "=" \in Marks
    BY DEF Marks
  <2> QED BY <2>1, <2>2
<1>5. CASE w \in {<<"-", ">">>, <<"=", ">">>}
  <2>1. w = <<"-", ">">> \/ w = <<"=", ">">>
    BY <1>5
  <2>2. "-" \in Marks /\ "=" \in Marks /\ ">" \in Marks
    BY DEF Marks
  <2>3. CASE w = <<"-", ">">>
    BY <2>2, <2>3
  <2>4. CASE w = <<"=", ">">>
    BY <2>2, <2>4
  <2> QED BY <2>1, <2>3, <2>4
<1>6. \/ w \in {<<c>> : c \in Marks}
      \/ w \in {<<c, "=">> : c \in {"=", "!", "<", ">", "+", "-", "*", "/", "%", "&", "|", "^"}}
      \/ w \in {<<c, c>> : c \in {"&", "|", "<", ">", ".", ":"}}
      \/ w \in {<<c, c, "=">> : c \in {"<", ">", "."}}
      \/ w \in {<<"-", ">">>, <<"=", ">">>}
  <2> DEFINE One == {<<c>> : c \in Marks}
             Assign == {<<c, "=">> : c \in {"=", "!", "<", ">", "+", "-", "*", "/", "%", "&", "|", "^"}}
             Twice == {<<c, c>> : c \in {"&", "|", "<", ">", ".", ":"}}
             Shifts == {<<c, c, "=">> : c \in {"<", ">", "."}}
             Arrows == {<<"-", ">">>, <<"=", ">">>}
  <2>1. Symbols = One \cup Assign \cup Twice \cup Shifts \cup Arrows
    BY DEF Symbols, Marks
  <2>2. w \in Symbols
    OBVIOUS
  <2> HIDE DEF One, Assign, Twice, Shifts, Arrows
  <2>3. w \in One \/ w \in Assign \/ w \in Twice \/ w \in Shifts \/ w \in Arrows
    BY ONLY <2>1, <2>2
  <2> QED BY <2>3, Zenon DEF One, Assign, Twice, Shifts, Arrows
<1> HIDE DEF Found
<1> QED BY <1>1, <1>2, <1>3, <1>4, <1>5, <1>6

LEMMA WordIs ==
  ASSUME NEW w \in Keywords \cup Symbols
  PROVE  /\ Len(w) \in Nat \ {0} /\ DOMAIN w = 1..Len(w)
         /\ \A n \in 1..Len(w) : w[n] \in Letters \cup Marks
         /\ w \in Keywords => w[1] \in Letters
         /\ w \in Symbols => w[1] \in Marks /\ (Len(w) > 1 => w[2] \in Marks)
<1>1. CASE w \in Keywords
  <2>1. w \in Seq(Letters) /\ w # <<>>
    BY <1>1, KeywordsAreLetters
  <2>2. Len(w) \in Nat \ {0} /\ DOMAIN w = 1..Len(w) /\ \A n \in 1..Len(w) : w[n] \in Letters
    BY <2>1
  <2>3. w \notin Symbols
    BY <2>2, SymbolsAreMarks, MarksAreNoLetters
  <2> QED BY <1>1, <2>2, <2>3
<1>2. CASE w \in Symbols
  <2>1. PICK a, b, c \in Marks : w = <<a>> \/ w = <<a, b>> \/ w = <<a, b, c>>
    BY <1>2, SymbolsAreMarks
  <2>2. /\ Len(w) \in Nat \ {0} /\ DOMAIN w = 1..Len(w) /\ \A n \in 1..Len(w) : w[n] \in Marks
        /\ w[1] \in Marks /\ (Len(w) > 1 => w[2] \in Marks)
    BY <2>1
  <2>3. w \notin Keywords
    BY <2>2, KeywordsAreLetters, MarksAreNoLetters
  <2> QED BY <1>2, <2>2, <2>3
<1> QED BY <1>1, <1>2
-----------------------------------------------------------------------------
(* What the table matches, by the runs of bytes it is made of.                *)
NameBytes == Letters \cup Digits \cup {Underscore}
NumberBytes == Digits \cup {Underscore}
LineBytes == Bytes \ {"\n"}
Radixes == {<<{"x", "X"}, HexDigits>>, <<{"o", "O"}, OctalDigits>>, <<{"b", "B"}, BinaryDigits>>}

IsFixed(t, i, end) == \E w \in Keywords \cup Symbols : Follows(t, i, w) /\ end = i + Len(w)
IsInt(t, i, end) ==
  \E r \in Radixes : /\ At(t, i) = "0" /\ At(t, i + 1) \in r[1] /\ At(t, i + 2) \in r[2]
                     /\ IsRun(t, i + 2, r[2], end)
IsRawString(t, i, end) ==
  At(t, i) = "r" /\ At(t, end - 1) = Quote /\ IsRun(t, i + 1, {"#"}, end - 1)
IsLine(t, i, opening, end) == Follows(t, i, opening) /\ IsRun(t, i, LineBytes, end)
Shape(t, i, kind, priority, end) ==
  \/ kind = "Fixed" /\ priority = 2 /\ IsFixed(t, i, end)
  \/ kind = "Blank" /\ priority = 1 /\ IsRun(t, i, Blank, end)
  \/ kind = "Identifier" /\ priority = 1 /\ At(t, i) \notin Digits /\ IsRun(t, i, NameBytes, end)
  \/ kind = "Int" /\ priority = 2 /\ IsInt(t, i, end)
  \/ kind = "Decimal" /\ priority = 2 /\ At(t, i) \in Digits /\ IsRun(t, i, NumberBytes, end)
  \/ kind = "String" /\ priority = 2 /\ At(t, i) = Quote /\ end = i + 1
  \/ kind = "RawString" /\ priority = 2 /\ IsRawString(t, i, end)
  \/ kind = "InnerDocComment" /\ priority = 10 /\ IsLine(t, i, <<"/", "/", "!">>, end)
  \/ kind = "OuterDocComment" /\ priority = 10 /\ IsLine(t, i, <<"/", "/", "/">>, end)
  \/ kind = "LineComment" /\ priority = 2 /\ IsLine(t, i, <<"/", "/">>, end)
  \/ kind = "BlockComment" /\ priority = 2 /\ Follows(t, i, <<"/", "*">>) /\ end = i + 2

LEMMA OutsideIsNoByte ==
  /\ \A S \in {Blank, NameBytes, NumberBytes, LineBytes, {"#"}, Digits, Letters, {"\n"}} : Outside \notin S
  /\ \A r \in Radixes : Outside \notin r[1] /\ Outside \notin r[2]
<1>1. Outside \notin LineBytes
  BY NoByteIsOutside DEF LineBytes
<1>2. Outside \notin Digits /\ Outside \notin Letters /\ Outside \notin Blank /\ Outside # "#"
  BY DEF Outside, Digits, Letters, LowerHex, UpperHex, Blank, Space
<1>3. Outside \notin NameBytes /\ Outside \notin NumberBytes
  BY <1>2 DEF NameBytes, NumberBytes, Outside, Underscore
<1>4. \A r \in Radixes : Outside \notin r[1] /\ Outside \notin r[2]
  BY DEF Radixes, HexDigits, OctalDigits, BinaryDigits, Outside, Underscore, Digits, LowerHex, UpperHex
<1>5. Outside # "\n"
  BY DEF Outside
<1> QED BY <1>1, <1>2, <1>3, <1>4, <1>5

LEMMA RadixEndIs ==
  ASSUME NEW t \in Text, NEW i \in 1..Len(t), NEW r \in Radixes, NEW end \in Nat, end > i
  PROVE  RadixEnd(t, i, r[1], r[2]) = end <=>
           /\ At(t, i) = "0" /\ At(t, i + 1) \in r[1] /\ At(t, i + 2) \in r[2]
           /\ IsRun(t, i + 2, r[2], end)
<1>1. Outside \notin r[2] /\ Len(t) \in Nat
  BY OutsideIsNoByte, LengthIs
<1>2. At(t, i + 2) \in r[2] => i + 2 \in 1..(Len(t) + 1)
  BY <1>1, AtIs
<1>3. CASE At(t, i) = "0" /\ At(t, i + 1) \in r[1] /\ At(t, i + 2) \in r[2]
  <2>1. RadixEnd(t, i, r[1], r[2]) = RunEnd(t, i + 2, r[2])
    BY <1>3 DEF RadixEnd
  <2>2. RunEnd(t, i + 2, r[2]) = end <=> IsRun(t, i + 2, r[2], end)
    BY <1>1, <1>2, <1>3, RunEndIs, OneRunEnd
  <2> QED BY <1>3, <2>1, <2>2
<1>4. CASE ~(At(t, i) = "0" /\ At(t, i + 1) \in r[1] /\ At(t, i + 2) \in r[2])
  BY <1>4 DEF RadixEnd
<1> QED BY <1>3, <1>4

LEMMA RawStringEndIs ==
  ASSUME NEW t \in Text, NEW i \in 1..Len(t), NEW end \in Nat, end > i
  PROVE  (IF At(t, i) = "r" /\ At(t, RawQuote(t, i)) = Quote THEN RawQuote(t, i) + 1 ELSE i) = end
           <=> IsRawString(t, i, end)
<1>1. Outside \notin {"#"} /\ Len(t) \in Nat
  BY OutsideIsNoByte, LengthIs
<1> DEFINE r == RunEnd(t, i + 1, {"#"})
<1>2. r \in Nat /\ IsRun(t, i + 1, {"#"}, r)
  <2>1. i + 1 \in 1..(Len(t) + 1)
    BY <1>1
  <2>2. IsRun(t, i + 1, {"#"}, r)
    BY <1>1, <2>1, RunEndIs
  <2> QED BY <1>1, <2>1, <2>2 DEF IsRun
<1>3. \A j : IsRun(t, i + 1, {"#"}, j) => j = r
  <2>1. i + 1 \in 1..(Len(t) + 1)
    BY <1>1
  <2> QED BY <1>1, <2>1, OneRunEnd
<1>4. RawQuote(t, i) = r
  <2>1. RawQuote(t, i) = i + 1 + (r - (i + 1))
    BY DEF RawQuote, Hashes
  <2> HIDE DEF r
  <2> QED BY <1>2, <2>1
<1> HIDE DEF r
<1>5. end - 1 = r <=> r + 1 = end
  BY <1>2
<1> QED BY <1>2, <1>3, <1>4, <1>5 DEF IsRawString

LEMMA StartingIs ==
  ASSUME NEW t, NEW i \in Nat, NEW word, NEW end, NEW to \in Nat, to > i
  PROVE  Starting(t, i, word, end) = to <=> Follows(t, i, word) /\ to = end
BY DEF Starting

LEMMA LineEndIs ==
  ASSUME NEW t \in Text, NEW i \in 1..Len(t), NEW opening, NEW end \in Nat, end > i
  PROVE  Starting(t, i, opening, Until(t, i, "\n")) = end <=> IsLine(t, i, opening, end)
<1>1. i \in 1..(Len(t) + 1) /\ Outside \notin LineBytes
  BY OutsideIsNoByte, LengthIs
<1>2. Until(t, i, "\n") = RunEnd(t, i, LineBytes)
  BY <1>1, UntilIs DEF LineBytes
<1>3. RunEnd(t, i, LineBytes) = end <=> IsRun(t, i, LineBytes, end)
  BY <1>1, RunEndIs, OneRunEnd
<1> QED BY <1>2, <1>3 DEF Starting, IsLine

(* One entry of the table.                                                    *)
Kinds == {"Fixed", "Blank", "Identifier", "Int", "Float", "Decimal", "String", "RawString",
          "InnerDocComment", "OuterDocComment", "LineComment", "BlockComment"}
Entry == [kind : Kinds, priority : {1, 2, 10}, end : Nat]

LEMMA PatternsAre ==
  ASSUME NEW t \in Text, NEW i \in 1..Len(t), NEW m \in Entry, m.end > i
  PROVE  m \in Patterns(t, i) \/ m \in Fixed(t, i) <=> Shape(t, i, m.kind, m.priority, m.end)
<1> DEFINE k == m.kind
           p == m.priority
           e == m.end
<1>1. m = Found(k, p, e) /\ e \in Nat /\ i \in Nat /\ i \in 1..(Len(t) + 1) /\ Len(t) \in Nat
  BY LengthIs DEF Entry, Found
<1>2. \A kind, priority, end : m = Found(kind, priority, end) <=> kind = k /\ priority = p /\ end = e
  BY <1>1 DEF Found
<1>3. \A S \in {Blank, NameBytes, NumberBytes} : RunEnd(t, i, S) = e <=> IsRun(t, i, S, e)
  BY <1>1, OutsideIsNoByte, RunEndIs, OneRunEnd
<1>4. IdentifierEnd(t, i) = e <=> At(t, i) \notin Digits /\ IsRun(t, i, NameBytes, e)
  BY <1>1, <1>3 DEF IdentifierEnd, NameBytes
<1>5. DecimalEnd(t, i) = e <=> At(t, i) \in Digits /\ IsRun(t, i, NumberBytes, e)
  BY <1>1, <1>3 DEF DecimalEnd, NumberBytes
<1>6. \/ RadixEnd(t, i, {"x", "X"}, HexDigits) = e
      \/ RadixEnd(t, i, {"o", "O"}, OctalDigits) = e
      \/ RadixEnd(t, i, {"b", "B"}, BinaryDigits) = e
      <=> IsInt(t, i, e)
  <2>1. \A r \in Radixes : RadixEnd(t, i, r[1], r[2]) = e <=>
           /\ At(t, i) = "0" /\ At(t, i + 1) \in r[1] /\ At(t, i + 2) \in r[2]
           /\ IsRun(t, i + 2, r[2], e)
    BY <1>1, RadixEndIs
  <2>2. (\E r \in Radixes : RadixEnd(t, i, r[1], r[2]) = e) <=> IsInt(t, i, e)
    BY <2>1 DEF IsInt
  <2> QED BY <2>2 DEF Radixes
<1>7. Starting(t, i, <<Quote>>, i + 1) = e <=> At(t, i) = Quote /\ e = i + 1
  <2>1. Follows(t, i, <<Quote>>) <=> At(t, i) = Quote
    BY <1>1 DEF Follows
  <2> QED BY <1>1, <2>1 DEF Starting
<1>8. Starting(t, i, <<"/", "*">>, i + 2) = e <=> Follows(t, i, <<"/", "*">>) /\ e = i + 2
  BY <1>1 DEF Starting
<1>9. m \in Fixed(t, i) <=> k = "Fixed" /\ p = 2 /\ IsFixed(t, i, e)
  BY <1>2 DEF Fixed, IsFixed
<1>10. (IF At(t, i) = "r" /\ At(t, RawQuote(t, i)) = Quote THEN RawQuote(t, i) + 1 ELSE i) = e
         <=> IsRawString(t, i, e)
  BY <1>1, RawStringEndIs
<1>11. \A opening : Starting(t, i, opening, Until(t, i, "\n")) = e <=> IsLine(t, i, opening, e)
  BY <1>1, LineEndIs
<1>12. m \in Patterns(t, i) <=>
         \/ m = Found("Blank", 1, RunEnd(t, i, Blank))
         \/ m = Found("Identifier", 1, IdentifierEnd(t, i))
         \/ m = Found("Int", 2, RadixEnd(t, i, {"x", "X"}, HexDigits))
         \/ m = Found("Int", 2, RadixEnd(t, i, {"o", "O"}, OctalDigits))
         \/ m = Found("Int", 2, RadixEnd(t, i, {"b", "B"}, BinaryDigits))
         \/ m = Found("Decimal", 2, DecimalEnd(t, i))
         \/ m = Found("String", 2, Starting(t, i, <<Quote>>, i + 1))
         \/ m = Found("RawString", 2,
                      IF At(t, i) = "r" /\ At(t, RawQuote(t, i)) = Quote THEN RawQuote(t, i) + 1 ELSE i)
         \/ m = Found("InnerDocComment", 10, Starting(t, i, <<"/", "/", "!">>, Until(t, i, "\n")))
         \/ m = Found("OuterDocComment", 10, Starting(t, i, <<"/", "/", "/">>, Until(t, i, "\n")))
         \/ m = Found("LineComment", 2, Starting(t, i, <<"/", "/">>, Until(t, i, "\n")))
         \/ m = Found("BlockComment", 2, Starting(t, i, <<"/", "*">>, i + 2))
  BY DEF Patterns
<1>13. IsRun(t, i, Blank, e) <=> RunEnd(t, i, Blank) = e
  BY <1>3
<1> HIDE DEF k, p, e
<1>14. m \in Patterns(t, i) <=>
         \/ k = "Blank" /\ p = 1 /\ IsRun(t, i, Blank, e)
         \/ k = "Identifier" /\ p = 1 /\ At(t, i) \notin Digits /\ IsRun(t, i, NameBytes, e)
         \/ k = "Int" /\ p = 2 /\ IsInt(t, i, e)
         \/ k = "Decimal" /\ p = 2 /\ At(t, i) \in Digits /\ IsRun(t, i, NumberBytes, e)
         \/ k = "String" /\ p = 2 /\ At(t, i) = Quote /\ e = i + 1
         \/ k = "RawString" /\ p = 2 /\ IsRawString(t, i, e)
         \/ k = "InnerDocComment" /\ p = 10 /\ IsLine(t, i, <<"/", "/", "!">>, e)
         \/ k = "OuterDocComment" /\ p = 10 /\ IsLine(t, i, <<"/", "/", "/">>, e)
         \/ k = "LineComment" /\ p = 2 /\ IsLine(t, i, <<"/", "/">>, e)
         \/ k = "BlockComment" /\ p = 2 /\ Follows(t, i, <<"/", "*">>) /\ e = i + 2
  BY <1>2, <1>4, <1>5, <1>6, <1>7, <1>8, <1>10, <1>11, <1>12, <1>13
<1> QED BY <1>9, <1>14 DEF Shape, k, p, e

LEMMA CandidatesAreEntries ==
  ASSUME NEW t \in Text, NEW i \in 1..Len(t), NEW m \in Candidates(t, i)
  PROVE  m \in Entry /\ m.end > i
<1>1. Len(t) \in Nat /\ i \in Nat /\ i \in 1..(Len(t) + 1) /\ i + 1 \in 1..(Len(t) + 1)
  BY LengthIs
<1>2. CASE m \in Fixed(t, i)
  <2>1. PICK w \in Keywords \cup Symbols : m = Found("Fixed", 2, i + Len(w))
    BY <1>2 DEF Fixed
  <2>2. Len(w) \in Nat \ {0}
    BY WordIs
  <2> QED BY <1>1, <2>1, <2>2 DEF Found, Entry, Kinds
<1>3. CASE m \in Patterns(t, i)
  <2>1. ASSUME NEW S, Outside \notin S, NEW j \in 1..(Len(t) + 1) PROVE RunEnd(t, j, S) \in Nat
    <3>1. IsRun(t, j, S, RunEnd(t, j, S))
      BY <2>1, RunEndIs
    <3> QED BY <1>1, <3>1 DEF IsRun
  <2>2. RunEnd(t, i, Blank) \in Nat /\ IdentifierEnd(t, i) \in Nat /\ DecimalEnd(t, i) \in Nat
    BY <1>1, <2>1, OutsideIsNoByte DEF IdentifierEnd, DecimalEnd, NameBytes, NumberBytes
  <2>3. Until(t, i, "\n") \in Nat
    <3>1. RunEnd(t, i, LineBytes) \in Nat
      BY <1>1, <2>1, OutsideIsNoByte
    <3>2. Until(t, i, "\n") = RunEnd(t, i, LineBytes)
      BY <1>1, UntilIs DEF LineBytes
    <3> QED BY <3>1, <3>2
  <2>4. RawQuote(t, i) \in Nat
    <3>1. RunEnd(t, i + 1, {"#"}) \in Nat
      BY <1>1, <2>1, OutsideIsNoByte
    <3>2. RawQuote(t, i) = RunEnd(t, i + 1, {"#"})
      BY <1>1, <3>1 DEF RawQuote, Hashes
    <3> QED BY <3>1, <3>2
  <2>5. \A r \in Radixes : RadixEnd(t, i, r[1], r[2]) \in Nat
    <3> TAKE r \in Radixes
    <3>1. Outside \notin r[2]
      BY OutsideIsNoByte
    <3>2. At(t, i + 2) \in r[2] => i + 2 \in 1..(Len(t) + 1)
      BY <1>1, <3>1, AtIs
    <3> QED BY <1>1, <2>1, <3>1, <3>2 DEF RadixEnd
  <2>6. /\ RadixEnd(t, i, {"x", "X"}, HexDigits) \in Nat
        /\ RadixEnd(t, i, {"o", "O"}, OctalDigits) \in Nat
        /\ RadixEnd(t, i, {"b", "B"}, BinaryDigits) \in Nat
    BY <2>5 DEF Radixes
  <2>7. \A word, end : end \in Nat => Starting(t, i, word, end) \in Nat
    BY <1>1 DEF Starting
  <2>8. \A kind, priority, end :
          kind \in Kinds /\ priority \in {1, 2, 10} /\ end \in Nat => Found(kind, priority, end) \in Entry
    BY DEF Found, Entry
  <2>9. m.end > i
    BY <1>3 DEF Patterns
  <2>10. m \in {Found("Blank", 1, RunEnd(t, i, Blank)),
                Found("Identifier", 1, IdentifierEnd(t, i)),
                Found("Int", 2, RadixEnd(t, i, {"x", "X"}, HexDigits)),
                Found("Int", 2, RadixEnd(t, i, {"o", "O"}, OctalDigits)),
                Found("Int", 2, RadixEnd(t, i, {"b", "B"}, BinaryDigits)),
                Found("Decimal", 2, DecimalEnd(t, i))} => m \in Entry
    BY <2>2, <2>6, <2>8 DEF Kinds
  <2>11. m \in {Found("String", 2, Starting(t, i, <<Quote>>, i + 1)),
                Found("InnerDocComment", 10, Starting(t, i, <<"/", "/", "!">>, Until(t, i, "\n"))),
                Found("OuterDocComment", 10, Starting(t, i, <<"/", "/", "/">>, Until(t, i, "\n"))),
                Found("LineComment", 2, Starting(t, i, <<"/", "/">>, Until(t, i, "\n"))),
                Found("BlockComment", 2, Starting(t, i, <<"/", "*">>, i + 2))} => m \in Entry
    <3>1. i + 1 \in Nat /\ i + 2 \in Nat
      BY <1>1
    <3> QED BY <2>3, <2>7, <2>8, <3>1 DEF Kinds
  <2>12. m = Found("RawString", 2, IF At(t, i) = "r" /\ At(t, RawQuote(t, i)) = Quote
                                     THEN RawQuote(t, i) + 1 ELSE i) => m \in Entry
    <3>1. RawQuote(t, i) + 1 \in Nat
      BY <2>4
    <3> QED BY <1>1, <2>8, <3>1 DEF Kinds
  <2>13. m \in Entry
    BY <1>3, <2>10, <2>11, <2>12 DEF Patterns
  <2> QED BY <2>9, <2>13
<1> QED BY <1>2, <1>3 DEF Candidates

LEMMA CandidatesAre ==
  ASSUME NEW t \in Text, NEW i \in 1..Len(t), NEW m
  PROVE  m \in Candidates(t, i) <=> m \in Entry /\ m.end > i /\ Shape(t, i, m.kind, m.priority, m.end)
BY CandidatesAreEntries, PatternsAre DEF Candidates
-----------------------------------------------------------------------------
(* No match leaves the text or cuts a character.                              *)
LEMMA FollowsTwo ==
  ASSUME NEW t, NEW i \in Nat, NEW a, NEW b
  PROVE  Follows(t, i, <<a, b>>) <=> At(t, i) = a /\ At(t, i + 1) = b
<1>1. Follows(t, i, <<a, b>>) <=> At(t, i + 1 - 1) = a /\ At(t, i + 2 - 1) = b
  BY DEF Follows
<1>2. i + 1 - 1 = i /\ i + 2 - 1 = i + 1
  OBVIOUS
<1> QED BY <1>1, <1>2

LEMMA FollowsThree ==
  ASSUME NEW t, NEW i \in Nat, NEW a, NEW b, NEW c
  PROVE  Follows(t, i, <<a, b, c>>) <=> At(t, i) = a /\ At(t, i + 1) = b /\ At(t, i + 2) = c
<1>1. Follows(t, i, <<a, b, c>>) <=>
        At(t, i + 1 - 1) = a /\ At(t, i + 2 - 1) = b /\ At(t, i + 3 - 1) = c
  BY DEF Follows
<1>2. i + 1 - 1 = i /\ i + 2 - 1 = i + 1 /\ i + 3 - 1 = i + 2
  OBVIOUS
<1> QED BY <1>1, <1>2

LEMMA FollowsWord ==
  ASSUME NEW t \in Text, NEW i \in 1..Len(t), NEW w \in Keywords \cup Symbols
  PROVE  Follows(t, i, w) <=> /\ i + Len(w) <= Len(t) + 1
                              /\ \A n \in 1..Len(w) : t[i + n - 1] = w[n]
<1>1. Len(w) \in Nat \ {0} /\ DOMAIN w = 1..Len(w) /\ \A n \in 1..Len(w) : w[n] # Outside
  <2>1. Outside \notin Letters \cup Marks
    BY DEF Outside, Letters, LowerHex, UpperHex, Marks, Semicolon, OpeningBrace
  <2> QED BY <2>1, WordIs
<1>2. Len(t) \in Nat
  BY LengthIs
<1>3. ASSUME Follows(t, i, w)
      PROVE  i + Len(w) <= Len(t) + 1 /\ \A n \in 1..Len(w) : t[i + n - 1] = w[n]
  <2>1. \A n \in 1..Len(w) : At(t, i + n - 1) = w[n]
    BY <1>1, <1>3 DEF Follows
  <2>2. \A n \in 1..Len(w) : i + n - 1 \in 1..Len(t)
    BY <1>1, <2>1, AtIs
  <2>3. i + Len(w) - 1 \in 1..Len(t)
    BY <1>1, <2>2
  <2> QED BY <1>1, <1>2, <2>1, <2>2, <2>3, AtIs
<1>4. ASSUME i + Len(w) <= Len(t) + 1, \A n \in 1..Len(w) : t[i + n - 1] = w[n]
      PROVE  Follows(t, i, w)
  <2>1. \A n \in 1..Len(w) : i + n - 1 \in 1..Len(t)
    BY <1>1, <1>2, <1>4
  <2> QED BY <1>1, <1>4, <2>1, AtIs DEF Follows
<1> QED BY <1>3, <1>4

LEMMA WideIsElsewhere ==
  /\ \A S \in {Blank, NameBytes, NumberBytes, {"#"}, Letters, Digits, Marks} : Lead \notin S /\ Continuation \notin S
  /\ \A r \in Radixes : Lead \notin r[2] /\ Continuation \notin r[2]
  /\ Lead # Quote /\ Lead # "/" /\ Lead # "*" /\ Lead # "." /\ Lead # Continuation
  /\ Continuation # Outside /\ Continuation # "\n"
<1>1. /\ Lead \notin Digits /\ Lead \notin Letters /\ Lead \notin Marks /\ Lead \notin Blank
      /\ Continuation \notin Digits /\ Continuation \notin Letters /\ Continuation \notin Marks
      /\ Continuation \notin Blank
  BY DEF Lead, Continuation, Digits, Letters, LowerHex, UpperHex, Marks, Semicolon, OpeningBrace, Blank, Space
<1>2. /\ Lead # Quote /\ Lead # "/" /\ Lead # "*" /\ Lead # "." /\ Lead # Continuation /\ Lead # "#"
      /\ Lead # Underscore
      /\ Continuation # Outside /\ Continuation # "\n" /\ Continuation # "#" /\ Continuation # Underscore
  BY DEF Lead, Continuation, Quote, Underscore, Outside
<1>3. \A r \in Radixes : Lead \notin r[2] /\ Continuation \notin r[2]
  BY DEF Radixes, HexDigits, OctalDigits, BinaryDigits, Lead, Continuation, Underscore, Digits, LowerHex, UpperHex
<1> QED BY <1>1, <1>2, <1>3 DEF NameBytes, NumberBytes

(* A place after a byte that is no first half is between two characters.      *)
LEMMA AfterNarrow ==
  ASSUME NEW t, WellFormed(t), NEW e \in 2..(Len(t) + 1), t[e - 1] # Lead
  PROVE  Boundary(t, e)
<1>1. t \in Text /\ Len(t) \in Nat /\ DOMAIN t = 1..Len(t)
  BY LengthIs DEF WellFormed, Text
<1>2. e - 1 \in DOMAIN t /\ (e - 1) + 1 = e
  BY <1>1
<1>3. t[e - 1] = Lead <=> At(t, (e - 1) + 1) = Continuation
  BY <1>2 DEF WellFormed
<1> QED BY <1>1, <1>2, <1>3 DEF Boundary

LEMMA RunIsNarrow ==
  ASSUME NEW t \in Text, WellFormed(t), NEW i \in 1..(Len(t) + 1), NEW S, Lead \notin S, NEW e,
         IsRun(t, i, S, e), e > i
  PROVE  e \in (i + 1)..(Len(t) + 1) /\ Boundary(t, e)
<1>1. Len(t) \in Nat /\ e \in Nat /\ e \in (i + 1)..(Len(t) + 1)
  BY LengthIs DEF IsRun
<1>2. e - 1 \in i..(e - 1) /\ e \in 2..(Len(t) + 1)
  BY <1>1
<1>3. t[e - 1] # Lead
  BY <1>2 DEF IsRun
<1> QED BY <1>1, <1>2, <1>3, AfterNarrow

LEMMA MatchesStayInside ==
  ASSUME NEW t \in Text, WellFormed(t), NEW i \in 1..Len(t), NEW m \in Candidates(t, i)
  PROVE  m.end \in (i + 1)..(Len(t) + 1) /\ Boundary(t, m.end)
<1> DEFINE e == m.end
<1>1. Len(t) \in Nat /\ i \in Nat /\ i \in 1..(Len(t) + 1) /\ i + 1 \in 1..(Len(t) + 1)
  BY LengthIs
<1>2. e \in Nat /\ e > i /\ Shape(t, i, m.kind, m.priority, e)
  BY CandidatesAre DEF Entry
<1> HIDE DEF e
<1>3. CASE IsFixed(t, i, e)
  <2>1. PICK w \in Keywords \cup Symbols : Follows(t, i, w) /\ e = i + Len(w)
    BY <1>3 DEF IsFixed
  <2>2. Len(w) \in Nat \ {0} /\ w[Len(w)] # Lead
    BY WordIs, WideIsElsewhere
  <2>3. i + Len(w) <= Len(t) + 1 /\ t[i + Len(w) - 1] = w[Len(w)]
    BY <2>1, <2>2, FollowsWord
  <2>4. e \in 2..(Len(t) + 1) /\ e - 1 = i + Len(w) - 1
    BY <1>1, <2>1, <2>2, <2>3
  <2>5. Boundary(t, e)
    BY <2>2, <2>3, <2>4, AfterNarrow
  <2> QED BY <1>1, <1>2, <2>4, <2>5 DEF e
<1>4. CASE \E S \in {Blank, NameBytes, NumberBytes} : IsRun(t, i, S, e)
  BY <1>1, <1>2, <1>4, RunIsNarrow, WideIsElsewhere DEF e
<1>5. CASE IsInt(t, i, e)
  <2>1. PICK r \in Radixes : At(t, i + 2) \in r[2] /\ IsRun(t, i + 2, r[2], e)
    BY <1>5 DEF IsInt
  <2>2. i + 2 \in 1..(Len(t) + 1)
    BY <1>1, <2>1, OutsideIsNoByte, AtIs
  <2>3. e # i + 2 /\ e \in (i + 2)..(Len(t) + 1)
    BY <2>1 DEF IsRun
  <2>4. e > i + 2
    BY <1>2, <2>2, <2>3
  <2>5. e \in (i + 2 + 1)..(Len(t) + 1) /\ Boundary(t, e)
    BY <2>1, <2>2, <2>4, RunIsNarrow, WideIsElsewhere
  <2> QED BY <1>1, <2>5 DEF e
<1>6. CASE At(t, i) = Quote /\ e = i + 1
  <2>1. t[e - 1] # Lead /\ e \in 2..(Len(t) + 1)
    BY <1>1, <1>6, AtIs, WideIsElsewhere
  <2> QED BY <1>1, <1>2, <2>1, AfterNarrow DEF e
<1>7. CASE IsRawString(t, i, e)
  <2>1. At(t, e - 1) = Quote /\ e - 1 \in (i + 1)..(Len(t) + 1)
    BY <1>7 DEF IsRawString, IsRun
  <2>2. Quote # Outside
    BY DEF Quote, Outside
  <2>3. e - 1 \in 1..Len(t) /\ t[e - 1] # Lead
    BY <1>1, <2>1, <2>2, AtIs, WideIsElsewhere
  <2>4. e \in 2..(Len(t) + 1)
    BY <1>1, <1>2, <2>3
  <2> QED BY <1>1, <1>2, <2>3, <2>4, AfterNarrow DEF e
<1>8. CASE \E opening : IsLine(t, i, opening, e)
  <2>1. At(t, e) \notin LineBytes /\ e \in i..(Len(t) + 1)
    BY <1>8 DEF IsLine, IsRun
  <2>2. At(t, e) # Continuation
    <3>1. CASE e \in 1..Len(t)
      BY <3>1, <2>1, AtIs, WideIsElsewhere DEF LineBytes
    <3>2. CASE e \notin 1..Len(t)
      BY <3>2, AtIs, WideIsElsewhere
    <3> QED BY <3>1, <3>2
  <2> QED BY <1>1, <1>2, <2>1, <2>2 DEF e, Boundary
<1>9. CASE Follows(t, i, <<"/", "*">>) /\ e = i + 2
  <2>1. At(t, i + 1) = "*"
    BY <1>1, <1>9, FollowsTwo
  <2>2. "*" # Outside
    BY DEF Outside
  <2>3. i + 1 \in 1..Len(t) /\ t[i + 1] # Lead
    BY <1>1, <2>1, <2>2, AtIs, WideIsElsewhere
  <2>4. e \in 2..(Len(t) + 1) /\ e - 1 = i + 1
    BY <1>1, <1>9, <2>3
  <2> QED BY <1>1, <1>2, <2>3, <2>4, AfterNarrow DEF e
<1> QED BY <1>2, <1>3, <1>4, <1>5, <1>6, <1>7, <1>8, <1>9 DEF Shape
-----------------------------------------------------------------------------
(* There is one longest match: the kinds that could end at the same place     *)
(* begin with different bytes.                                                *)
LEMMA SlashWords ==
  ASSUME NEW w \in Symbols, w[1] = "/", Len(w) > 1
  PROVE  w[2] = "="
<1>1. ASSUME NEW c, w = <<c, c>> PROVE c \in {"&", "|", "<", ">", ".", ":"} => FALSE
  BY <1>1
<1>2. CASE w \in {<<c>> : c \in Marks}
  BY <1>2
<1>3. CASE w \in {<<c, "=">> : c \in {"=", "!", "<", ">", "+", "-", "*", "/", "%", "&", "|", "^"}}
  BY <1>3
<1>4. CASE w \in {<<c, c>> : c \in {"&", "|", "<", ">", ".", ":"}}
  BY <1>4
<1>5. CASE w \in {<<c, c, "=">> : c \in {"<", ">", "."}}
  BY <1>5
<1>6. CASE w \in {<<"-", ">">>, <<"=", ">">>}
  BY <1>6
<1> QED BY <1>2, <1>3, <1>4, <1>5, <1>6 DEF Symbols, Marks

Begins(kind, a, b, c, long) ==
  /\ kind = "Fixed" => \/ a \in Letters /\ (long => b \in Letters)
                       \/ a \in Marks /\ (a = "/" /\ long => b = "=")
  /\ kind = "Blank" => a \in Blank
  /\ kind = "Identifier" => a \in Letters \cup {Underscore}
  /\ kind = "Int" => a = "0" /\ b \in {"x", "X", "o", "O", "b", "B"} /\ long
  /\ kind = "Decimal" => a \in Digits /\ (long => b \in NumberBytes)
  /\ kind = "String" => a = Quote
  /\ kind = "RawString" => a = "r" /\ b \in {"#", Quote} /\ long
  /\ kind = "InnerDocComment" => a = "/" /\ b = "/" /\ c = "!"
  /\ kind = "OuterDocComment" => a = "/" /\ b = "/" /\ c = "/"
  /\ kind = "LineComment" => a = "/" /\ b = "/" /\ long
  /\ kind = "BlockComment" => a = "/" /\ b = "*" /\ long

LEMMA FirstBytes ==
  ASSUME NEW t \in Text, NEW i \in 1..Len(t), NEW m \in Candidates(t, i)
  PROVE  Begins(m.kind, At(t, i), At(t, i + 1), At(t, i + 2), m.end > i + 1)
<1> DEFINE e == m.end
           Goal == Begins(m.kind, At(t, i), At(t, i + 1), At(t, i + 2), e > i + 1)
<1>1. Len(t) \in Nat /\ i \in Nat /\ i \in 1..Len(t) /\ At(t, i) = t[i]
  BY LengthIs, AtIs
<1>2. e \in Nat /\ e > i /\ Shape(t, i, m.kind, m.priority, e)
  BY CandidatesAre DEF Entry
<1> SUFFICES Goal
  OBVIOUS
<1> HIDE DEF e
<1>3. \A S, j : IsRun(t, i, S, j) /\ j > i => At(t, i) \in S
  BY <1>1 DEF IsRun
<1>4. CASE m.kind = "Fixed" /\ IsFixed(t, i, e)
  <2>1. PICK w \in Keywords \cup Symbols : Follows(t, i, w) /\ e = i + Len(w)
    BY <1>4 DEF IsFixed
  <2>2. Len(w) \in Nat \ {0} /\ \A n \in 1..Len(w) : At(t, i + n - 1) = w[n]
    BY <2>1, WordIs DEF Follows
  <2>3. At(t, i) = w[1] /\ (e > i + 1 => Len(w) > 1 /\ At(t, i + 1) = w[2])
    <3>1. i + 1 - 1 = i /\ i + 2 - 1 = i + 1 /\ 1 \in 1..Len(w) /\ (Len(w) > 1 => 2 \in 1..Len(w))
      BY <1>1, <2>2
    <3> QED BY <1>1, <2>1, <2>2, <3>1
  <2>4. CASE w \in Keywords
    <3>1. \A n \in 1..Len(w) : w[n] \in Letters
      BY <2>4, KeywordsAreLetters
    <3>2. w[1] \in Letters /\ (Len(w) > 1 => w[2] \in Letters)
      BY <2>2, <3>1
    <3> QED BY <1>4, <2>3, <3>2 DEF Begins
  <2>5. CASE w \in Symbols
    <3>1. w[1] \in Marks /\ (w[1] = "/" /\ Len(w) > 1 => w[2] = "=")
      BY <2>5, WordIs, SlashWords
    <3> QED BY <1>4, <2>3, <3>1 DEF Begins
  <2> QED BY <2>4, <2>5
<1>5. CASE m.kind = "Blank" /\ IsRun(t, i, Blank, e)
  BY <1>2, <1>3, <1>5 DEF Begins
<1>6. CASE m.kind = "Identifier" /\ At(t, i) \notin Digits /\ IsRun(t, i, NameBytes, e)
  <2>1. At(t, i) \in Letters \cup {Underscore}
    BY <1>2, <1>3, <1>6 DEF NameBytes
  <2> QED BY <1>6, <2>1 DEF Begins
<1>7. CASE m.kind = "Int" /\ IsInt(t, i, e)
  <2>1. PICK r \in Radixes : At(t, i) = "0" /\ At(t, i + 1) \in r[1] /\ IsRun(t, i + 2, r[2], e)
    BY <1>7 DEF IsInt
  <2>2. e > i + 1
    BY <1>1, <1>2, <2>1 DEF IsRun
  <2>3. At(t, i + 1) \in {"x", "X", "o", "O", "b", "B"}
    BY <2>1 DEF Radixes
  <2> QED BY <1>7, <2>1, <2>2, <2>3 DEF Begins
<1>8. CASE m.kind = "Decimal" /\ At(t, i) \in Digits /\ IsRun(t, i, NumberBytes, e)
  <2>1. e > i + 1 => At(t, i + 1) \in NumberBytes
    <3> SUFFICES ASSUME e > i + 1 PROVE At(t, i + 1) \in NumberBytes
      OBVIOUS
    <3>1. i + 1 \in i..(e - 1) /\ i + 1 \in 1..Len(t)
      BY <1>1, <1>2, <1>8 DEF IsRun
    <3> QED BY <1>8, <3>1, AtIs DEF IsRun
  <2> QED BY <1>8, <2>1 DEF Begins
<1>9. CASE m.kind = "String" /\ At(t, i) = Quote
  BY <1>9 DEF Begins
<1>10. CASE m.kind = "RawString" /\ IsRawString(t, i, e)
  <2>1. At(t, i) = "r" /\ At(t, e - 1) = Quote /\ IsRun(t, i + 1, {"#"}, e - 1)
    BY <1>10 DEF IsRawString
  <2>2. e - 1 \in (i + 1)..(Len(t) + 1)
    BY <2>1 DEF IsRun
  <2>3. At(t, i + 1) \in {"#", Quote}
    <3>1. CASE e - 1 = i + 1
      BY <2>1, <3>1
    <3>2. CASE e - 1 # i + 1
      <4>1. i + 1 \in (i + 1)..(e - 1 - 1) /\ i + 1 \in 1..Len(t)
        BY <1>1, <1>2, <2>2, <3>2
      <4> QED BY <2>1, <4>1, AtIs DEF IsRun
    <3> QED BY <3>1, <3>2
  <2>4. e > i + 1
    BY <1>1, <1>2, <2>2
  <2> QED BY <1>10, <2>1, <2>3, <2>4 DEF Begins
<1>11. CASE m.kind = "InnerDocComment" /\ IsLine(t, i, <<"/", "/", "!">>, e)
  BY <1>1, <1>11, FollowsThree DEF IsLine, Begins
<1>12. CASE m.kind = "OuterDocComment" /\ IsLine(t, i, <<"/", "/", "/">>, e)
  BY <1>1, <1>12, FollowsThree DEF IsLine, Begins
<1>13. CASE m.kind = "LineComment" /\ IsLine(t, i, <<"/", "/">>, e)
  <2>1. At(t, i) = "/" /\ At(t, i + 1) = "/"
    BY <1>1, <1>13, FollowsTwo DEF IsLine
  <2>2. e # i + 1
    <3>1. At(t, e) \notin LineBytes
      BY <1>13 DEF IsLine, IsRun
    <3>2. At(t, i + 1) \in LineBytes
      <4>1. "/" # Outside
        BY DEF Outside
      <4>2. i + 1 \in 1..Len(t)
        BY <2>1, <4>1, AtIs
      <4>3. At(t, i + 1) \in Bytes
        BY <4>2, AtIs
      <4> QED BY <2>1, <4>3 DEF LineBytes
    <3> QED BY <3>1, <3>2
  <2>3. e > i + 1
    BY <1>1, <1>2, <2>2
  <2> QED BY <1>13, <2>1, <2>3 DEF Begins
<1>14. CASE m.kind = "BlockComment" /\ Follows(t, i, <<"/", "*">>) /\ e = i + 2
  <2>1. At(t, i) = "/" /\ At(t, i + 1) = "*" /\ e > i + 1
    BY <1>1, <1>14, FollowsTwo
  <2> QED BY <1>14, <2>1 DEF Begins
<1> HIDE DEF Goal
<1> QED BY <1>2, <1>4, <1>5, <1>6, <1>7, <1>8, <1>9, <1>10, <1>11, <1>12, <1>13, <1>14 DEF Shape

Priorities(kind, priority) ==
  \/ priority = 1 /\ kind \in {"Blank", "Identifier"}
  \/ priority = 2 /\ kind \in {"Fixed", "Int", "Decimal", "String", "RawString", "LineComment", "BlockComment"}
  \/ priority = 10 /\ kind \in {"InnerDocComment", "OuterDocComment"}

LEMMA OneOfAKind ==
  ASSUME NEW k, NEW l, NEW p, NEW a, NEW b, NEW c, NEW long \in BOOLEAN,
         Priorities(k, p), Priorities(l, p), Begins(k, a, b, c, long), Begins(l, a, b, c, long)
  PROVE  k = l
<1>1. /\ "0" \notin Letters /\ "0" \notin Marks /\ "=" # "/" /\ Quote \notin Letters /\ Quote \notin Marks /\ Quote \notin Digits
      /\ "#" \notin Letters /\ "/" \notin Letters /\ "r" \notin Digits /\ "r" \notin Marks /\ "/" \notin Digits
      /\ Quote # "/" /\ "r" # Quote /\ "r" # "/" /\ "r" # "0" /\ Quote # "0"
  BY DEF Letters, LowerHex, UpperHex, Digits, Quote, Marks, Semicolon, OpeningBrace
<1>2. /\ Digits \cap Letters = {} /\ Digits \cap Marks = {}
      /\ Blank \cap Letters = {} /\ Underscore \notin Blank
  BY DEF Letters, LowerHex, UpperHex, Digits, Marks, Semicolon, OpeningBrace, Blank, Space, Underscore
<1>3. \A x \in {"x", "X", "o", "O", "b", "B"} : x \notin NumberBytes
  BY DEF NumberBytes, Digits, Underscore
<1>4. CASE p = 1
  BY <1>2, <1>4 DEF Priorities, Begins
<1>5. CASE p = 10
  BY <1>5 DEF Priorities, Begins
<1>6. CASE p = 2
  <2>1. /\ k \in {"Fixed", "Int", "Decimal", "String", "RawString", "LineComment", "BlockComment"}
        /\ l \in {"Fixed", "Int", "Decimal", "String", "RawString", "LineComment", "BlockComment"}
    BY <1>6 DEF Priorities
  <2>2. \A x, y : x = "Fixed" /\ Begins(x, a, b, c, long) /\ Begins(y, a, b, c, long) =>
          y \notin {"Int", "Decimal", "String", "RawString", "LineComment", "BlockComment"}
    BY <1>1, <1>2 DEF Begins
  <2>3. \A x, y : x = "Int" /\ Begins(x, a, b, c, long) /\ Begins(y, a, b, c, long) =>
          y \notin {"Decimal", "String", "RawString", "LineComment", "BlockComment"}
    BY <1>1, <1>3 DEF Begins
  <2>4. \A x, y : x = "Decimal" /\ Begins(x, a, b, c, long) /\ Begins(y, a, b, c, long) =>
          y \notin {"String", "RawString", "LineComment", "BlockComment"}
    BY <1>1 DEF Begins
  <2>5. \A x, y : x \in {"String", "RawString", "LineComment", "BlockComment"}
          /\ Begins(x, a, b, c, long) /\ Begins(y, a, b, c, long)
          /\ y \in {"String", "RawString", "LineComment", "BlockComment"} => x = y
    BY <1>1 DEF Begins
  <2> QED BY <2>1, <2>2, <2>3, <2>4, <2>5
<1> QED BY <1>4, <1>5, <1>6 DEF Priorities

LEMMA ShapesHavePriorities ==
  ASSUME NEW t, NEW i, NEW k, NEW p, NEW e, Shape(t, i, k, p, e)
  PROVE  Priorities(k, p)
BY DEF Shape, Priorities

LEMMA OneLongest ==
  ASSUME NEW t \in Text, NEW i \in 1..Len(t), NEW m \in Candidates(t, i), NEW o \in Candidates(t, i),
         m.end = o.end, m.priority = o.priority
  PROVE  m = o
<1>1. m \in Entry /\ o \in Entry
  BY CandidatesAre
<1>2. Priorities(m.kind, m.priority) /\ Priorities(o.kind, m.priority)
  BY CandidatesAre, ShapesHavePriorities
<1>3. m.kind = o.kind
  <2> DEFINE long == m.end > i + 1
  <2>1. Begins(m.kind, At(t, i), At(t, i + 1), At(t, i + 2), long) /\ long \in BOOLEAN
    BY FirstBytes
  <2>2. Begins(o.kind, At(t, i), At(t, i + 1), At(t, i + 2), long)
    BY FirstBytes
  <2> HIDE DEF long
  <2> QED BY <1>2, <2>1, <2>2, OneOfAKind
<1> QED BY <1>1, <1>3 DEF Entry

Tops(m, C) == \A o \in C : o.end < m.end \/ (o.end = m.end /\ o.priority <= m.priority)

LEMMA LongestIs ==
  ASSUME NEW t \in Text, WellFormed(t), NEW i \in 1..Len(t), Candidates(t, i) # {}
  PROVE  Longest(t, i) \in Candidates(t, i) /\ Tops(Longest(t, i), Candidates(t, i))
<1> DEFINE C == Candidates(t, i)
           ends == {m.end : m \in C}
<1>1. Len(t) \in Nat /\ \A m \in C : m.end \in 0..(Len(t) + 1) /\ m.priority \in 0..10
  <2>1. \A m \in C : m.end \in (i + 1)..(Len(t) + 1) /\ m.priority \in {1, 2, 10}
    BY MatchesStayInside, CandidatesAre DEF Entry
  <2> HIDE DEF C
  <2> QED BY <2>1, LengthIs
<1> SUFFICES \E m \in C : Tops(m, C)
  BY DEF Longest, Tops
<1>2. C # {}
  OBVIOUS
<1> HIDE DEF C
<1>3. PICK e \in ends : \A o \in ends : o <= e
  <2>1. ends \in SUBSET (0..(Len(t) + 1)) /\ ends # {} /\ Len(t) + 1 \in Nat
    BY <1>1, <1>2
  <2> HIDE DEF ends
  <2> QED BY <2>1, GreatestBelow
<1> DEFINE priorities == {m.priority : m \in {m \in C : m.end = e}}
<1>4. PICK p \in priorities : \A o \in priorities : o <= p
  <2>1. priorities \in SUBSET (0..10) /\ priorities # {} /\ 10 \in Nat
    BY <1>1, <1>3
  <2> HIDE DEF priorities
  <2> QED BY <2>1, GreatestBelow
<1>5. PICK m \in C : m.end = e /\ m.priority = p
  BY <1>4
<1>6. ASSUME NEW o \in C PROVE o.end < m.end \/ (o.end = m.end /\ o.priority <= m.priority)
  <2>1. o.end <= e /\ o.end \in Nat /\ e \in Nat
    BY <1>1, <1>3, <1>5
  <2>2. o.end = e => o.priority <= p
    BY <1>4
  <2> QED BY <1>5, <2>1, <2>2
<1> QED BY <1>5, <1>6 DEF Tops
-----------------------------------------------------------------------------
(* The scans by hand, by their definitions by recursion.                      *)
StringStep(t, f, i) ==
  CASE At(t, i) = Outside -> Failed("UnterminatedString")
    [] At(t, i) = Quote -> Done("String", i + 1)
    [] At(t, i) = "\\" -> f[i + 2]
    [] OTHER -> f[i + 1]
StringScan(t) == CHOOSE f : f = [i \in Nat |-> StringStep(t, f, i)]
StringEnds == {Failed("UnterminatedString")} \cup {Done("String", e) : e \in Nat}

LEMMA StringStepCases ==
  ASSUME NEW t, NEW f, NEW i
  PROVE  /\ At(t, i) = Outside => StringStep(t, f, i) = Failed("UnterminatedString")
         /\ At(t, i) = Quote => StringStep(t, f, i) = Done("String", i + 1)
         /\ At(t, i) = "\\" => StringStep(t, f, i) = f[i + 2]
         /\ At(t, i) \notin {Outside, Quote, "\\"} => StringStep(t, f, i) = f[i + 1]
<1>1. Outside # Quote /\ Outside # "\\" /\ Quote # "\\"
  BY DEF Outside, Quote
<1> QED BY <1>1 DEF StringStep

LEMMA lex_stringIs == ASSUME NEW t, NEW j PROVE lex_string(t, j) = StringScan(t)[j]
BY DEF lex_string, StringScan, StringStep

LEMMA StringScanIs ==
  ASSUME NEW t \in Text
  PROVE  /\ StringScan(t) \in [Nat -> StringEnds]
         /\ \A i \in Nat : StringScan(t)[i] = StringStep(t, StringScan(t), i)
<1> DEFINE G == [Nat -> StringEnds]
           step == [x \in Nat \X G |-> StringStep(t, x[2], x[1])]
<1>1. \A i \in Nat : \A f \in G : step[<<i, f>>] = StringStep(t, f, i)
  OBVIOUS
<1>2. \A i \in Nat : \A f \in G : StringStep(t, f, i) \in StringEnds
  <2> SUFFICES ASSUME NEW i \in Nat, NEW f \in G PROVE StringStep(t, f, i) \in StringEnds
    OBVIOUS
  <2>1. f[i + 1] \in StringEnds /\ f[i + 2] \in StringEnds /\ i + 1 \in Nat
    OBVIOUS
  <2> QED BY <2>1, StringStepCases DEF StringEnds
<1>3. EndsAsIn(Len(t), G, step)
  <2> DEFINE f == [i \in Nat |-> Failed("UnterminatedString")]
  <2>1. f \in G
    BY DEF StringEnds
  <2>2. \A i \in Nat : i > Len(t) => StringStep(t, f, i) = Failed("UnterminatedString")
    <3> TAKE i \in Nat
    <3>1. i > Len(t) => At(t, i) = Outside
      BY AtIs, LengthIs
    <3> QED BY <3>1, StringStepCases
  <2>3. \A i \in Nat : i > Len(t) => f[i] = step[<<i, f>>]
    <3>1. \A i \in Nat : f[i] = Failed("UnterminatedString") /\ step[<<i, f>>] = StringStep(t, f, i)
      BY <1>1, <2>1
    <3> QED BY <2>2, <3>1
  <2> HIDE DEF f, G, step
  <2> QED BY <2>1, <2>3 DEF EndsAsIn
<1>4. StepsStayIn(Len(t), G, step)
  <2>1. \A i \in 0..Len(t) : i \in Nat
    BY LengthIs
  <2>2. \A i \in Nat : \A f \in G : step[<<i, f>>] \in StringEnds
    BY <1>1, <1>2
  <2> HIDE DEF step
  <2> QED BY <2>1, <2>2 DEF StepsStayIn
<1>5. LooksLater(G, step)
  <2> SUFFICES ASSUME NEW i \in Nat, NEW f \in G, NEW g \in G, \A k \in Nat : k > i => f[k] = g[k]
               PROVE  step[<<i, f>>] = step[<<i, g>>]
    BY DEF LooksLater
  <2>1. f[i + 1] = g[i + 1] /\ f[i + 2] = g[i + 2]
    OBVIOUS
  <2>2. StringStep(t, f, i) = StringStep(t, g, i)
    BY <2>1, StringStepCases
  <2> QED BY <1>1, <2>2
<1>6. PICK f \in G : \A i \in Nat : f[i] = step[<<i, f>>]
  <2> HIDE DEF step
  <2>1. Len(t) \in Nat /\ G \in SUBSET [Nat -> StringEnds]
    BY LengthIs
  <2> HIDE DEF G
  <2>2. Fulfilments(G, step) # {}
    BY <2>1, <1>3, <1>4, <1>5, Later
  <2> QED BY <2>2 DEF Fulfilments
<1>7. f = [i \in Nat |-> StringStep(t, f, i)]
  BY <1>1, <1>6
<1>8. StringScan(t) = [i \in Nat |-> StringStep(t, StringScan(t), i)]
  BY <1>7 DEF StringScan
<1>9. \A i \in Nat : StringScan(t)[i] = StringStep(t, StringScan(t), i)
  BY <1>8
<1>10. StringScan(t) \in G
  <2> DEFINE h == StringScan(t)
             S == {i \in Nat : h[i] \in StringEnds}
  <2> SUFFICES \A i \in Nat : i \in S
    <3>1. h = [i \in Nat |-> StringStep(t, h, i)]
      BY <1>8
    <3> HIDE DEF h
    <3>2. (\A i \in Nat : i \in S) => h \in G
      BY <3>1
    <3> QED BY <3>2 DEF h
  <2>1. \A i \in Nat : h[i] = StringStep(t, h, i)
    BY <1>9
  <2> HIDE DEF h
  <2>2. ASSUME NEW i \in Nat, i > Len(t) PROVE i \in S
    <3>1. At(t, i) = Outside
      BY <2>2, AtIs, LengthIs
    <3> QED BY <2>1, <3>1, StringStepCases DEF StringEnds
  <2>3. ASSUME NEW i \in 0..Len(t), \A k \in Nat : k > i => k \in S PROVE i \in S
    <3>1. i \in Nat /\ h[i + 1] \in StringEnds /\ h[i + 2] \in StringEnds /\ i + 1 \in Nat
      BY <2>3, LengthIs
    <3> QED BY <2>1, <3>1, StringStepCases DEF StringEnds
  <2> HIDE DEF S
  <2> QED BY <2>2, <2>3, LengthIs, Downwards
<1> QED BY <1>9, <1>10

(* A string ends after a quote, beyond where the scan begins.                 *)
LEMMA StringEndsAfterQuote ==
  ASSUME NEW t \in Text, NEW i \in Nat, NEW e, StringScan(t)[i] = Done("String", e)
  PROVE  e \in Nat /\ e > i /\ e - 1 \in 1..Len(t) /\ t[e - 1] = Quote
<1> DEFINE h == StringScan(t)
           Ends(k, x) == x \in Nat /\ x > k /\ x - 1 \in 1..Len(t) /\ t[x - 1] = Quote
           S == {k \in Nat : \A x : h[k] = Done("String", x) => Ends(k, x)}
<1>1. \A k \in Nat : h[k] = StringStep(t, h, k)
  BY StringScanIs
<1>2. h[i] = Done("String", e)
  OBVIOUS
<1> HIDE DEF h
<1>3. \A x, y : Done("String", x) = Done("String", y) => x = y
  BY DEF Done
<1>4. \A x : Done("String", x) # Failed("UnterminatedString")
  BY DEF Done, Failed
<1>5. ASSUME NEW k \in Nat, k > Len(t) PROVE k \in S
  <2>1. At(t, k) = Outside
    BY <1>5, AtIs, LengthIs
  <2>2. h[k] = Failed("UnterminatedString")
    BY <1>1, <2>1, StringStepCases
  <2> QED BY <1>4, <2>2
<1>6. ASSUME NEW k \in 0..Len(t), \A l \in Nat : l > k => l \in S PROVE k \in S
  <2> SUFFICES ASSUME NEW x, h[k] = Done("String", x) PROVE Ends(k, x)
    BY LengthIs
  <2>1. k \in Nat /\ k + 1 \in S /\ k + 2 \in S
    <3>1. k \in Nat /\ k + 1 \in Nat /\ k + 2 \in Nat /\ k + 1 > k /\ k + 2 > k
      BY LengthIs
    <3> HIDE DEF S
    <3> QED BY <1>6, <3>1
  <2>2. CASE At(t, k) = Outside
    BY <1>1, <1>4, <2>1, <2>2, StringStepCases
  <2>3. CASE At(t, k) = Quote
    <3>1. x = k + 1
      BY <1>1, <1>3, <2>1, <2>3, StringStepCases
    <3>2. k \in 1..Len(t)
      <4>1. Quote # Outside
        BY DEF Quote, Outside
      <4> QED BY <2>3, <4>1, AtIs
    <3> QED BY <2>1, <2>3, <3>1, <3>2, AtIs
  <2>4. CASE At(t, k) = "\\"
    <3>1. h[k + 2] = Done("String", x)
      BY <1>1, <2>1, <2>4, StringStepCases
    <3> QED BY <2>1, <3>1
  <2>5. CASE At(t, k) \notin {Outside, Quote, "\\"}
    <3>1. h[k + 1] = Done("String", x)
      BY <1>1, <2>1, <2>5, StringStepCases
    <3> QED BY <2>1, <3>1
  <2> QED BY <2>2, <2>3, <2>4, <2>5
<1>7. \A k \in Nat : k \in S
  <2> HIDE DEF S
  <2> QED BY <1>5, <1>6, LengthIs, Downwards
<1> QED BY <1>2, <1>7

(* s is what stands in t after d bytes.                                       *)
PartOf(s, t, d) == d \in Nat /\ d + Len(s) <= Len(t) /\ \A k \in 1..Len(s) : s[k] = t[d + k]

LEMMA AtInPart ==
  ASSUME NEW t \in Text, NEW s \in Text, NEW d, PartOf(s, t, d)
  PROVE  /\ \A k \in 1..Len(s) : At(s, k) = At(t, d + k) /\ d + k \in 1..Len(t)
         /\ \A k \in Int : k > Len(s) => At(s, k) = Outside
<1>1. Len(t) \in Nat /\ Len(s) \in Nat /\ d \in Nat
  BY LengthIs DEF PartOf
<1>2. \A k \in 1..Len(s) : d + k \in 1..Len(t)
  BY <1>1 DEF PartOf
<1> QED BY <1>1, <1>2, AtIs DEF PartOf

LEMMA StringInPart ==
  ASSUME NEW t \in Text, NEW s \in Text, NEW d, PartOf(s, t, d), NEW v \in Nat \ {0},
         StringScan(t)[d + v] = Done("String", d + Len(s) + 1)
  PROVE  StringScan(s)[v] = Done("String", Len(s) + 1)
<1> DEFINE h == StringScan(t)
           g == StringScan(s)
           S == {k \in Nat : k # 0 /\ h[d + k] = Done("String", d + Len(s) + 1) => g[k] = Done("String", Len(s) + 1)}
<1>1. \A k \in Nat : h[k] = StringStep(t, h, k) /\ g[k] = StringStep(s, g, k)
  BY StringScanIs
<1>2. d \in Nat /\ Len(s) \in Nat /\ Len(t) \in Nat
  BY LengthIs DEF PartOf
<1>3. \A k \in Nat : k # 0 /\ h[d + k] = Done("String", d + Len(s) + 1) => k <= Len(s)
  <2> SUFFICES ASSUME NEW k \in Nat, k # 0, h[d + k] = Done("String", d + Len(s) + 1) PROVE k <= Len(s)
    OBVIOUS
  <2>1. d + k \in Nat /\ d + Len(s) + 1 > d + k
    BY <1>2, StringEndsAfterQuote
  <2> QED BY <1>2, <2>1
<1>4. h[d + v] = Done("String", d + Len(s) + 1)
  OBVIOUS
<1> HIDE DEF h, g
<1>5. \A x, y : Done("String", x) = Done("String", y) => x = y
  BY DEF Done
<1>6. ASSUME NEW k \in 0..Len(s), \A l \in Nat : l > k => l \in S PROVE k \in S
  <2> SUFFICES ASSUME k # 0, h[d + k] = Done("String", d + Len(s) + 1)
               PROVE  g[k] = Done("String", Len(s) + 1)
    BY <1>2
  <2>1. /\ k \in Nat /\ d + k \in Nat /\ k + 1 \in S /\ k + 2 \in S
        /\ k + 1 # 0 /\ k + 2 # 0 /\ d + k + 1 = d + (k + 1) /\ d + k + 2 = d + (k + 2)
    BY <1>2, <1>6
  <2>2. At(s, k) = At(t, d + k) /\ At(t, d + k) # Outside
    BY <1>2, AtInPart, AtIs
  <2>3. CASE At(t, d + k) = Quote
    <3>1. d + Len(s) + 1 = d + k + 1
      BY <1>1, <1>5, <2>1, <2>3, StringStepCases
    <3>2. k + 1 = Len(s) + 1
      <4>1. k \in Nat
        BY <2>1
      <4> HIDE DEF S
      <4> QED BY ONLY <1>2, <3>1, <4>1
    <3> QED BY <1>1, <2>1, <2>2, <2>3, <3>2, StringStepCases
  <2>4. CASE At(t, d + k) = "\\"
    <3>1. h[d + (k + 2)] = Done("String", d + Len(s) + 1)
      BY <1>1, <2>1, <2>4, StringStepCases
    <3> QED BY <1>1, <2>1, <2>2, <2>4, <3>1, StringStepCases
  <2>5. CASE At(t, d + k) \notin {Outside, Quote, "\\"}
    <3>1. h[d + (k + 1)] = Done("String", d + Len(s) + 1)
      BY <1>1, <2>1, <2>5, StringStepCases
    <3> QED BY <1>1, <2>1, <2>2, <2>5, <3>1, StringStepCases
  <2> QED BY <2>2, <2>3, <2>4, <2>5
<1>7. \A k \in Nat : k > Len(s) => k \in S
  BY <1>2, <1>3
<1>8. \A k \in Nat : k \in S
  <2> HIDE DEF S
  <2> QED BY <1>2, <1>6, <1>7, Downwards
<1> QED BY <1>4, <1>8 DEF g

(* The backslashes before a place, one more or none.                          *)
LEMMA BackslashesAre ==
  ASSUME NEW s \in Text, NEW i \in 1..Len(s)
  PROVE  /\ Backslashes(s, i) \in Nat /\ Backslashes(s, i + 1) \in Nat
         /\ Backslashes(s, i + 1) = IF s[i] = "\\" THEN Backslashes(s, i) + 1 ELSE 0
<1> DEFINE K(j) == {k \in 1..(j - 1) : \A l \in k..(j - 1) : s[l] = "\\"}
<1>1. Len(s) \in Nat /\ i \in Nat
  BY LengthIs
<1>2. \A j \in Nat : IsFiniteSet(K(j)) /\ Cardinality(K(j)) \in Nat
  <2> SUFFICES ASSUME NEW j \in Nat PROVE IsFiniteSet(K(j)) /\ Cardinality(K(j)) \in Nat
    OBVIOUS
  <2>1. IsFiniteSet(1..(j - 1)) /\ K(j) \subseteq 1..(j - 1)
    BY FS_Interval
  <2> HIDE DEF K
  <2> QED BY <2>1, FS_Subset, FS_CardinalityType
<1>3. \A j : Backslashes(s, j) = Cardinality(K(j))
  BY DEF Backslashes
<1>4. CASE s[i] = "\\"
  <2>1. K(i + 1) = K(i) \cup {i} /\ i \notin K(i)
    <3>1. \A k \in 1..i : k..i = (k..(i - 1)) \cup {i}
      BY <1>1
    <3>2. i \notin 1..(i - 1) /\ i + 1 - 1 = i /\ 1..i = (1..(i - 1)) \cup {i} /\ i..i = {i}
      BY <1>1
    <3> QED BY <1>4, <3>1, <3>2
  <2> HIDE DEF K
  <2>2. Cardinality(K(i + 1)) = Cardinality(K(i)) + 1
    BY <1>1, <1>2, <2>1, FS_AddElement
  <2> QED BY <1>1, <1>2, <1>3, <1>4, <2>2
<1>5. CASE s[i] # "\\"
  <2>1. K(i + 1) = {}
    BY <1>1, <1>5
  <2> HIDE DEF K
  <2>2. Cardinality(K(i + 1)) = 0
    BY <2>1, FS_EmptySet
  <2> QED BY <1>1, <1>2, <1>3, <1>5, <2>2
<1> QED BY <1>4, <1>5

LEMMA EscapedIs ==
  ASSUME NEW s \in Text, NEW i \in 1..Len(s)
  PROVE  Escaped(s, i + 1) <=> s[i] = "\\" /\ ~Escaped(s, i)
<1>1. Backslashes(s, i) \in Nat /\ Backslashes(s, i + 1) = IF s[i] = "\\" THEN Backslashes(s, i) + 1 ELSE 0
  BY BackslashesAre
<1>2. \A n \in Nat : (n + 1) % 2 = 1 <=> ~(n % 2 = 1)
  OBVIOUS
<1>3. 0 % 2 # 1
  OBVIOUS
<1> QED BY <1>1, <1>2, <1>3 DEF Escaped

LEMMA FirstOpenQuote ==
  ASSUME NEW s \in Text, Len(s) >= 1, s[1] = Quote, StringScan(s)[2] = Done("String", Len(s) + 1)
  PROVE  {i \in 2..Len(s) : s[i] = Quote /\ ~Escaped(s, i)} = {Len(s)}
<1> DEFINE g == StringScan(s)
           Open(i) == s[i] = Quote /\ ~Escaped(s, i)
           After(k) == {i \in k..Len(s) : Open(i)}
           S == {k \in Nat : k >= 2 /\ ~Escaped(s, k) /\ g[k] = Done("String", Len(s) + 1) => After(k) = {Len(s)}}
<1>1. \A k \in Nat : g[k] = StringStep(s, g, k)
  BY StringScanIs
<1>2. Len(s) \in Nat /\ "\\" # Quote
  BY LengthIs DEF Quote
<1>3. \A k \in Nat : g[k] = Done("String", Len(s) + 1) => k <= Len(s)
  <2> SUFFICES ASSUME NEW k \in Nat, g[k] = Done("String", Len(s) + 1) PROVE k <= Len(s)
    OBVIOUS
  <2>1. Len(s) + 1 > k
    BY StringEndsAfterQuote
  <2> QED BY <1>2, <2>1
<1>4. g[2] = Done("String", Len(s) + 1)
  OBVIOUS
<1>5. ~Escaped(s, 2)
  <2>1. 1 \in 1..Len(s) /\ 1 + 1 = 2
    BY <1>2
  <2> QED BY <1>2, <2>1, EscapedIs
<1> HIDE DEF g
<1>6. \A x, y : Done("String", x) = Done("String", y) => x = y
  BY DEF Done
<1>7. \A k \in Nat : k > Len(s) => k \in S
  BY <1>2, <1>3
<1>8. ASSUME NEW k \in 0..Len(s), \A l \in Nat : l > k => l \in S PROVE k \in S
  <2> SUFFICES ASSUME k >= 2, ~Escaped(s, k), g[k] = Done("String", Len(s) + 1)
               PROVE  After(k) = {Len(s)}
    BY <1>2
  <2>1. k \in Nat /\ k + 1 \in S /\ k + 2 \in S
    <3>1. k \in Nat /\ k + 1 \in Nat /\ k + 2 \in Nat /\ k + 1 > k /\ k + 2 > k
      BY <1>2
    <3> HIDE DEF S
    <3> QED BY <1>8, <3>1
  <2>2. k \in 1..Len(s) /\ At(s, k) = s[k] /\ At(s, k) # Outside
    BY <1>2, AtIs
  <2>3. CASE s[k] = Quote
    <3>1. Len(s) + 1 = k + 1
      BY <1>1, <1>6, <2>1, <2>2, <2>3, StringStepCases
    <3>2. k = Len(s) /\ k..Len(s) = {k}
      BY <1>2, <2>1, <3>1
    <3> QED BY <2>3, <3>2
  <2>4. CASE s[k] = "\\"
    <3>1. g[k + 2] = Done("String", Len(s) + 1) /\ k + 2 <= Len(s)
      BY <1>1, <1>3, <2>1, <2>2, <2>4, StringStepCases
    <3>2. Escaped(s, k + 1)
      BY <2>2, <2>4, EscapedIs
    <3>3. ~Escaped(s, k + 2)
      <4>1. k + 1 \in 1..Len(s) /\ k + 1 + 1 = k + 2
        BY <1>2, <2>1, <3>1
      <4> QED BY <3>2, <4>1, EscapedIs
    <3>4. After(k + 2) = {Len(s)}
      BY <2>1, <3>1, <3>3
    <3>5. ~Open(k) /\ ~Open(k + 1)
      BY <1>2, <2>4, <3>2
    <3>6. \A i \in k..Len(s) : i = k \/ i = k + 1 \/ i \in (k + 2)..Len(s)
      BY <1>2, <2>1
    <3>7. \A i \in (k + 2)..Len(s) : i \in k..Len(s)
      BY <1>2, <2>1
    <3> HIDE DEF Open
    <3> QED BY <3>4, <3>5, <3>6, <3>7
  <2>5. CASE s[k] \notin {Quote, "\\"}
    <3>1. g[k + 1] = Done("String", Len(s) + 1)
      BY <1>1, <2>1, <2>2, <2>5, StringStepCases
    <3>2. ~Escaped(s, k + 1)
      BY <2>2, <2>5, EscapedIs
    <3>3. After(k + 1) = {Len(s)}
      BY <2>1, <3>1, <3>2
    <3>4. ~Open(k)
      BY <2>5
    <3>5. \A i \in k..Len(s) : i = k \/ i \in (k + 1)..Len(s)
      BY <1>2, <2>1
    <3>6. \A i \in (k + 1)..Len(s) : i \in k..Len(s)
      BY <1>2, <2>1
    <3> HIDE DEF Open
    <3> QED BY <3>3, <3>4, <3>5, <3>6
  <2> QED BY <2>3, <2>4, <2>5
<1>9. \A k \in Nat : k \in S
  <2> HIDE DEF S
  <2> QED BY <1>2, <1>7, <1>8, Downwards
<1> QED BY <1>4, <1>5, <1>9
-----------------------------------------------------------------------------
(* A raw string ends at the first quote with as many hashes after it.         *)
LEMMA LeastOf ==
  ASSUME NEW S \in SUBSET Nat, S # {}
  PROVE  Min(S) \in S /\ \A n \in S : Min(S) <= n
<1>1. \E m \in S : \A n \in S : m <= n
  BY LeastNatural
<1> QED BY <1>1 DEF Min

LEMMA HashesAre ==
  ASSUME NEW t \in Text, NEW i \in 1..(Len(t) + 1)
  PROVE  /\ Hashes(t, i) \in Nat
         /\ \A n \in Nat : Hashes(t, i) >= n <=> /\ i + n <= Len(t) + 1
                                                 /\ \A k \in i..(i + n - 1) : t[k] = "#"
<1> DEFINE r == RunEnd(t, i, {"#"})
<1>1. IsRun(t, i, {"#"}, r) /\ Len(t) \in Nat
  BY RunEndIs, OutsideIsNoByte, LengthIs
<1>2. Hashes(t, i) = r - i
  BY DEF Hashes
<1> HIDE DEF r
<1>3. r \in i..(Len(t) + 1) /\ i \in Nat
  BY <1>1 DEF IsRun
<1>4. ASSUME NEW n \in Nat, r - i >= n
      PROVE  i + n <= Len(t) + 1 /\ \A k \in i..(i + n - 1) : t[k] = "#"
  BY <1>1, <1>3, <1>4 DEF IsRun
<1>5. ASSUME NEW n \in Nat, i + n <= Len(t) + 1, \A k \in i..(i + n - 1) : t[k] = "#"
      PROVE  r - i >= n
  <2> SUFFICES ASSUME r - i < n PROVE FALSE
    BY <1>1, <1>3
  <2>1. r \in i..(i + n - 1) /\ r \in 1..Len(t)
    BY <1>1, <1>3, <1>5
  <2> QED BY <1>1, <1>5, <2>1, AtIs DEF IsRun
<1> DEFINE Reaches(n) == i + n <= Len(t) + 1 /\ \A k \in i..(i + n - 1) : t[k] = "#"
<1>6. \A n \in Nat : r - i >= n <=> Reaches(n)
  BY <1>4, <1>5
<1>7. r - i \in Nat
  BY <1>1, <1>3
<1>8. Hashes(t, i) \in Nat /\ \A n \in Nat : Hashes(t, i) >= n <=> Reaches(n)
  <2> HIDE DEF Reaches
  <2> QED BY <1>2, <1>6, <1>7
<1> QED BY <1>8

Closes(t, h, k) ==
  /\ t[k] = Quote /\ k + 1 + h <= Len(t) + 1
  /\ \A l \in (k + 1)..(k + h) : t[l] = "#"
Closing(t, h, j) == {k \in j..Len(t) : Closes(t, h, k)}

LEMMA lex_raw_stringIs ==
  ASSUME NEW t \in Text, NEW i \in 1..Len(t), NEW j \in Nat \ {0}, NEW h \in Nat, Hashes(t, i + 1) = h
  PROVE  lex_raw_string(t, i, j) =
           IF Closing(t, h, j) = {} THEN Failed("UnterminatedRawString")
           ELSE Done("RawString", Min(Closing(t, h, j)) + 1 + h)
<1>1. \A k \in j..Len(t) : Hashes(t, k + 1) >= h <=> /\ k + 1 + h <= Len(t) + 1
                                                     /\ \A l \in (k + 1)..(k + h) : t[l] = "#"
  <2> SUFFICES ASSUME NEW k \in j..Len(t)
               PROVE  Hashes(t, k + 1) >= h <=> /\ k + 1 + h <= Len(t) + 1
                                                /\ \A l \in (k + 1)..(k + h) : t[l] = "#"
    OBVIOUS
  <2>1. k + 1 \in 1..(Len(t) + 1) /\ k + 1 + h - 1 = k + h
    BY LengthIs
  <2> QED BY <2>1, HashesAre
<1>2. {k \in j..Len(t) : t[k] = Quote /\ Hashes(t, k + 1) >= h} = Closing(t, h, j)
  BY <1>1 DEF Closing, Closes
<1> QED BY <1>2 DEF lex_raw_string

LEMMA RawStringEnds ==
  ASSUME NEW t \in Text, NEW i \in 1..Len(t), NEW j \in (i + 2)..(Len(t) + 1), NEW e,
         IsRawString(t, i, j), lex_raw_string(t, i, j) = Done("RawString", e)
  PROVE  /\ e \in Nat /\ e > j /\ e \in 2..(Len(t) + 1) /\ t[e - 1] # Lead
         /\ Hashes(t, i + 1) = j - i - 2
         /\ \E k \in Closing(t, j - i - 2, j) : /\ \A l \in Closing(t, j - i - 2, j) : k <= l
                                                /\ e = k + 1 + (j - i - 2)
<1> DEFINE h == j - i - 2
<1>1. Len(t) \in Nat /\ i \in Nat /\ j \in Nat \ {0} /\ h \in Nat /\ i + 1 \in 1..(Len(t) + 1)
  BY LengthIs
<1>2. Hashes(t, i + 1) = h
  <2>1. IsRun(t, i + 1, {"#"}, j - 1)
    BY DEF IsRawString
  <2>2. RunEnd(t, i + 1, {"#"}) = j - 1
    BY <1>1, <2>1, OneRunEnd, OutsideIsNoByte
  <2> QED BY <1>1, <2>2 DEF Hashes
<1>3. h = j - i - 2
  OBVIOUS
<1> HIDE DEF h
<1>4. /\ Closing(t, h, j) # {} /\ Done("RawString", Min(Closing(t, h, j)) + 1 + h) = Done("RawString", e)
  <2>1. Done("RawString", e) # Failed("UnterminatedRawString")
    BY DEF Done, Failed
  <2> QED BY <1>1, <1>2, <2>1, lex_raw_stringIs
<1>5. e = Min(Closing(t, h, j)) + 1 + h
  BY <1>4 DEF Done
<1>6. Closing(t, h, j) \in SUBSET Nat
  BY <1>1 DEF Closing
<1>7. PICK k \in Closing(t, h, j) : k = Min(Closing(t, h, j)) /\ \A l \in Closing(t, h, j) : k <= l
  BY <1>4, <1>6, LeastOf
<1>8. k \in j..Len(t) /\ Closes(t, h, k) /\ e = k + 1 + h
  BY <1>5, <1>7 DEF Closing
<1>9. e \in Nat /\ e > j /\ e \in 2..(Len(t) + 1)
  BY <1>1, <1>8 DEF Closes
<1>10. t[e - 1] # Lead
  <2>1. CASE h = 0
    <3>1. e - 1 = k
      BY <1>1, <1>8, <2>1
    <3> QED BY <1>8, <3>1, WideIsElsewhere DEF Closes
  <2>2. CASE h # 0
    <3>1. e - 1 \in (k + 1)..(k + h)
      BY <1>1, <1>8, <2>2
    <3> QED BY <1>8, <3>1, WideIsElsewhere DEF Closes
  <2> QED BY <2>1, <2>2
<1> QED BY <1>2, <1>3, <1>7, <1>8, <1>9, <1>10

LEMMA RawStringInPart ==
  ASSUME NEW t \in Text, NEW s \in Text, NEW d, PartOf(s, t, d), NEW i \in 1..Len(s), NEW j \in (i + 2)..(Len(s) + 1),
         IsRawString(t, d + i, d + j), IsRawString(s, i, j),
         lex_raw_string(t, d + i, d + j) = Done("RawString", d + Len(s) + 1)
  PROVE  lex_raw_string(s, i, j) = Done("RawString", Len(s) + 1)
<1> DEFINE h == j - i - 2
<1>1. /\ Len(t) \in Nat /\ Len(s) \in Nat /\ d \in Nat /\ d + Len(s) <= Len(t) /\ i \in Nat
      /\ j \in Nat \ {0} /\ h \in Nat /\ i + 1 \in 1..(Len(s) + 1)
      /\ d + i \in 1..Len(t) /\ d + j \in ((d + i) + 2)..(Len(t) + 1) /\ (d + j) - (d + i) - 2 = h
  BY LengthIs DEF PartOf
<1>2. Hashes(s, i + 1) = h
  <2>1. IsRun(s, i + 1, {"#"}, j - 1)
    BY DEF IsRawString
  <2>2. RunEnd(s, i + 1, {"#"}) = j - 1
    BY <1>1, <2>1, OneRunEnd, OutsideIsNoByte
  <2> QED BY <1>1, <2>2 DEF Hashes
<1>3. PICK k \in Closing(t, h, d + j) : /\ \A l \in Closing(t, h, d + j) : k <= l
                                       /\ d + Len(s) + 1 = k + 1 + h
  <2>1. \E k \in Closing(t, (d + j) - (d + i) - 2, d + j) :
          /\ \A l \in Closing(t, (d + j) - (d + i) - 2, d + j) : k <= l
          /\ d + Len(s) + 1 = k + 1 + ((d + j) - (d + i) - 2)
    BY <1>1, RawStringEnds
  <2> HIDE DEF h
  <2> QED BY <1>1, <2>1
<1> HIDE DEF h
<1>4. k \in (d + j)..Len(t) /\ Closes(t, h, k)
  BY <1>3 DEF Closing
<1>5. k - d \in j..Len(s) /\ k = d + (k - d) /\ (k - d) + 1 + h = Len(s) + 1
  BY <1>1, <1>3, <1>4
<1>6. k - d \in Closing(s, h, j)
  <2>1. s[k - d] = Quote
    <3>1. k - d \in 1..Len(s)
      BY <1>1, <1>5
    <3> QED BY <1>4, <1>5, <3>1 DEF PartOf, Closes
  <2>2. \A l \in (k - d + 1)..(k - d + h) : s[l] = "#"
    <3> SUFFICES ASSUME NEW l \in (k - d + 1)..(k - d + h) PROVE s[l] = "#"
      OBVIOUS
    <3>1. l \in 1..Len(s) /\ d + l \in (k + 1)..(k + h)
      BY <1>1, <1>4, <1>5
    <3> QED BY <1>4, <3>1 DEF PartOf, Closes
  <2> QED BY <1>1, <1>5, <2>1, <2>2 DEF Closing, Closes
<1>7. ASSUME NEW l \in Closing(s, h, j) PROVE k - d <= l
  <2>1. l \in j..Len(s) /\ Closes(s, h, l)
    BY DEF Closing
  <2>2. l \in 1..Len(s) /\ d + l \in (d + j)..Len(t)
    BY <1>1, <2>1
  <2>3. t[d + l] = Quote
    BY <2>1, <2>2 DEF PartOf, Closes
  <2>4. (d + l) + 1 + h <= Len(t) + 1
    BY <1>1, <2>1, <2>2 DEF Closes
  <2>5. \A x \in (d + l + 1)..(d + l + h) : t[x] = "#"
    <3> SUFFICES ASSUME NEW x \in (d + l + 1)..(d + l + h) PROVE t[x] = "#"
      OBVIOUS
    <3>1. l + h <= Len(s)
      BY <1>1, <2>1, <2>2 DEF Closes
    <3>2. x - d \in 1..Len(s) /\ x - d \in (l + 1)..(l + h) /\ d + (x - d) = x
      BY <1>1, <2>2, <3>1
    <3>3. s[x - d] = "#"
      BY <2>1, <3>2 DEF Closes
    <3> QED BY <3>2, <3>3 DEF PartOf
  <2>6. d + l \in Closing(t, h, d + j)
    BY <2>2, <2>3, <2>4, <2>5 DEF Closing, Closes
  <2> QED BY <1>1, <1>3, <1>4, <2>2, <2>6
<1>8. Min(Closing(s, h, j)) = k - d
  <2>1. Closing(s, h, j) \in SUBSET Nat
    BY <1>1 DEF Closing
  <2>2. Min(Closing(s, h, j)) \in Closing(s, h, j) /\ Min(Closing(s, h, j)) <= k - d
    BY <1>6, <2>1, LeastOf
  <2> QED BY <1>5, <1>7, <2>1, <2>2
<1>9. lex_raw_string(s, i, j) = Done("RawString", Min(Closing(s, h, j)) + 1 + h)
  BY <1>1, <1>2, <1>6, lex_raw_stringIs
<1> QED BY <1>5, <1>8, <1>9
-----------------------------------------------------------------------------
(* A run in a part of a text is the one in the text, or the part cuts it.     *)
LEMMA RunInPart ==
  ASSUME NEW t \in Text, NEW s \in Text, NEW d, PartOf(s, t, d), NEW k \in Nat \ {0}, NEW j \in Int, NEW S,
         Outside \notin S, j <= Len(s) + 1, IsRun(t, d + k, S, d + j)
  PROVE  IsRun(s, k, S, j)
<1>1. Len(t) \in Nat /\ Len(s) \in Nat /\ d \in Nat
  BY LengthIs DEF PartOf
<1>2. j \in k..(Len(s) + 1)
  BY <1>1 DEF IsRun
<1>3. At(s, j) \notin S
  <2>1. CASE j \in 1..Len(s)
    BY <2>1, AtInPart DEF IsRun
  <2>2. CASE j \notin 1..Len(s)
    BY <2>2, AtIs
  <2> QED BY <2>1, <2>2
<1>4. ASSUME NEW x \in k..(j - 1) PROVE s[x] \in S
  <2>1. x \in 1..Len(s) /\ d + x \in (d + k)..(d + j - 1)
    BY <1>1, <1>2
  <2> QED BY <2>1 DEF PartOf, IsRun
<1> QED BY <1>2, <1>3, <1>4 DEF IsRun

LEMMA RunOfPart ==
  ASSUME NEW t \in Text, NEW s \in Text, NEW d, PartOf(s, t, d), NEW k \in Nat \ {0}, NEW j \in Int, NEW S,
         Outside \notin S, IsRun(s, k, S, j)
  PROVE  \E e \in Nat : IsRun(t, d + k, S, e) /\ e >= d + j /\ (j <= Len(s) => e = d + j)
<1>1. Len(t) \in Nat /\ Len(s) \in Nat /\ d \in Nat /\ d + Len(s) <= Len(t)
  BY LengthIs DEF PartOf
<1>2. j \in k..(Len(s) + 1) /\ d + k \in 1..(Len(t) + 1)
  BY <1>1 DEF IsRun
<1> DEFINE e == RunEnd(t, d + k, S)
<1>3. IsRun(t, d + k, S, e)
  BY <1>2, RunEndIs
<1> HIDE DEF e
<1>4. e \in (d + k)..(Len(t) + 1) /\ e \in Nat
  BY <1>1, <1>3 DEF IsRun
<1>5. e >= d + j
  <2> SUFFICES ASSUME e < d + j PROVE FALSE
    BY <1>1, <1>4
  <2>1. e - d \in k..(j - 1) /\ e - d \in 1..Len(s) /\ d + (e - d) = e /\ e \in 1..Len(t)
    BY <1>1, <1>2, <1>4
  <2>2. s[e - d] \in S /\ s[e - d] = t[e]
    BY <2>1 DEF IsRun, PartOf
  <2> QED BY <1>3, <2>1, <2>2, AtIs DEF IsRun
<1>6. ASSUME j <= Len(s) PROVE e = d + j
  <2> SUFFICES ASSUME e > d + j PROVE FALSE
    BY <1>1, <1>2, <1>4, <1>5
  <2>1. j \in 1..Len(s) /\ d + j \in (d + k)..(e - 1) /\ d + j \in 1..Len(t)
    BY <1>1, <1>2, <1>4, <1>6
  <2>2. At(s, j) = t[d + j] /\ t[d + j] \in S
    BY <1>3, <2>1, AtIs, AtInPart DEF IsRun
  <2> QED BY <2>2 DEF IsRun
<1> QED BY <1>3, <1>4, <1>5, <1>6
-----------------------------------------------------------------------------
(* A number: a dot with its digits or none, an exponent or none.              *)
Dot(t, j) == At(t, j) = "." /\ At(t, j + 1) \notin Letters \cup {".", Underscore}
Peek(t, m) == IF At(t, m + 1) \in {"+", "-"} THEN m + 2 ELSE m + 1
Exponent(t, m) == At(t, m) \in {"e", "E"} /\ At(t, Peek(t, m)) \in Digits
IsNumber(t, j, m, e) ==
  /\ IF Dot(t, j) THEN IsRun(t, j + 1, NumberBytes, m) ELSE m = j
  /\ IF Exponent(t, m) THEN IsRun(t, Peek(t, m), NumberBytes, e) ELSE e = m

LEMMA lex_decimal_numberIs ==
  ASSUME NEW t \in Text, NEW j \in 1..(Len(t) + 1)
  PROVE  \E m, e \in Nat :
           /\ IsNumber(t, j, m, e)
           /\ lex_decimal_number(t, j) = Done(IF Dot(t, j) \/ Exponent(t, m) THEN "Float" ELSE "Int", e)
<1>1. Len(t) \in Nat /\ j \in Nat
  BY LengthIs
<1> DEFINE m == IF Dot(t, j) THEN RunEnd(t, j + 1, NumberBytes) ELSE j
           e == IF Exponent(t, m) THEN RunEnd(t, Peek(t, m), NumberBytes) ELSE m
<1>2. Dot(t, j) => IsRun(t, j + 1, NumberBytes, m)
  <2>1. "." # Outside
    BY DEF Outside
  <2>2. Dot(t, j) => j \in 1..Len(t)
    BY <2>1, AtIs DEF Dot
  <2>3. Dot(t, j) => j + 1 \in 1..(Len(t) + 1)
    BY <1>1, <2>2
  <2> QED BY <2>3, RunEndIs, OutsideIsNoByte
<1>3. m \in j..(Len(t) + 1) /\ m \in Nat
  BY <1>1, <1>2 DEF IsRun
<1>4. lex_decimal_number(t, j) = Done(IF Dot(t, j) \/ Exponent(t, m) THEN "Float" ELSE "Int", e)
  BY DEF lex_decimal_number, Dot, Exponent, Peek, NumberBytes
<1>5. ~Dot(t, j) => m = j
  OBVIOUS
<1> HIDE DEF m
<1>6. Peek(t, m) \in Nat \ {0}
  BY <1>3 DEF Peek
<1>7. Exponent(t, m) => IsRun(t, Peek(t, m), NumberBytes, e)
  <2>1. Exponent(t, m) => Peek(t, m) \in 1..(Len(t) + 1)
    BY <1>1, <1>6, AtIs, OutsideIsNoByte DEF Exponent
  <2> QED BY <2>1, RunEndIs, OutsideIsNoByte
<1>8. e \in Nat
  BY <1>1, <1>3, <1>6, <1>7 DEF IsRun
<1>9. ~Exponent(t, m) => e = m
  OBVIOUS
<1> HIDE DEF e
<1>10. IsNumber(t, j, m, e)
  BY <1>2, <1>5, <1>7, <1>9 DEF IsNumber
<1> QED BY <1>3, <1>4, <1>8, <1>10

LEMMA NumberFacts ==
  ASSUME NEW t \in Text, NEW j \in 1..(Len(t) + 1), NEW m \in Nat, NEW e \in Nat, IsNumber(t, j, m, e)
  PROVE  /\ Len(t) \in Nat /\ j \in Nat
         /\ m \in j..(Len(t) + 1) /\ e \in m..(Len(t) + 1)
         /\ Dot(t, j) => j <= Len(t) /\ m > j /\ At(t, j) = "."
         /\ Exponent(t, m) => /\ m \in 1..Len(t) /\ Peek(t, m) \in (m + 1)..Len(t)
                              /\ Peek(t, m) \in {m + 1, m + 2} /\ e > Peek(t, m)
<1>1. Len(t) \in Nat /\ j \in Nat /\ j + 1 \in Nat
  BY LengthIs
<1>2. "." # Outside /\ Outside \notin {"e", "E"} /\ Outside \notin Digits
  BY OutsideIsNoByte DEF Outside
<1>3. Dot(t, j) => j \in 1..Len(t) /\ m \in (j + 1)..(Len(t) + 1)
  BY <1>1, <1>2, AtIs DEF Dot, IsNumber, IsRun
<1>4. m \in j..(Len(t) + 1)
  BY <1>1, <1>3 DEF IsNumber
<1>5. Exponent(t, m) => m \in 1..Len(t) /\ Peek(t, m) \in 1..Len(t) /\ Peek(t, m) \in {m + 1, m + 2}
  BY <1>2, AtIs DEF Exponent, Peek
<1>6. Exponent(t, m) => e > Peek(t, m) /\ e \in m..(Len(t) + 1)
  <2> SUFFICES ASSUME Exponent(t, m) PROVE e > Peek(t, m) /\ e \in m..(Len(t) + 1)
    OBVIOUS
  <2>1. IsRun(t, Peek(t, m), NumberBytes, e) /\ At(t, Peek(t, m)) \in NumberBytes
    BY DEF IsNumber, Exponent, NumberBytes
  <2>2. e # Peek(t, m) /\ e \in Peek(t, m)..(Len(t) + 1)
    BY <2>1 DEF IsRun
  <2> QED BY <1>1, <1>4, <1>5, <2>2
<1> QED BY <1>1, <1>3, <1>4, <1>5, <1>6 DEF IsNumber, Dot

LEMMA NumbersEndNarrow ==
  ASSUME NEW t \in Text, WellFormed(t), NEW j \in 2..(Len(t) + 1), NEW m \in Nat, NEW e \in Nat,
         IsNumber(t, j, m, e), t[j - 1] # Lead
  PROVE  t[e - 1] # Lead
<1>1. /\ Len(t) \in Nat /\ j \in Nat /\ j \in 1..(Len(t) + 1)
      /\ m \in j..(Len(t) + 1) /\ e \in m..(Len(t) + 1)
  <2>1. j \in 1..(Len(t) + 1)
    BY LengthIs
  <2> QED BY <2>1, NumberFacts
<1>2. t[m - 1] # Lead
  <2>1. CASE Dot(t, j)
    <3>1. IsRun(t, j + 1, NumberBytes, m) /\ j \in 1..Len(t) /\ t[j] = "."
      BY <1>1, <2>1, NumberFacts, AtIs DEF IsNumber
    <3>2. m - 1 = j \/ m - 1 \in (j + 1)..(m - 1)
      BY <1>1, <3>1 DEF IsRun
    <3> QED BY <3>1, <3>2, WideIsElsewhere DEF IsRun
  <2>2. CASE ~Dot(t, j)
    BY <2>2 DEF IsNumber
  <2> QED BY <2>1, <2>2
<1>3. CASE Exponent(t, m)
  <2>1. IsRun(t, Peek(t, m), NumberBytes, e) /\ e > Peek(t, m) /\ Peek(t, m) \in (m + 1)..Len(t)
    BY <1>1, <1>3, NumberFacts DEF IsNumber
  <2>2. e - 1 \in Peek(t, m)..(e - 1)
    BY <1>1, <2>1
  <2> QED BY <2>1, <2>2, WideIsElsewhere DEF IsRun
<1>4. CASE ~Exponent(t, m)
  BY <1>2, <1>4 DEF IsNumber
<1> QED BY <1>3, <1>4

LEMMA IsNumberDetermines ==
  ASSUME NEW t \in Text, NEW j \in 1..(Len(t) + 1), NEW m \in Nat, NEW e \in Nat, NEW n \in Nat, NEW f \in Nat,
         IsNumber(t, j, m, e), IsNumber(t, j, n, f)
  PROVE  m = n /\ e = f
<1>1. Len(t) \in Nat /\ j \in Nat
  BY LengthIs
<1>2. m = n
  <2>1. CASE Dot(t, j)
    <3>1. j + 1 \in 1..(Len(t) + 1)
      BY <1>1, <2>1, NumberFacts
    <3> QED BY <2>1, <3>1, OneRunEnd, OutsideIsNoByte DEF IsNumber
  <2>2. CASE ~Dot(t, j)
    BY <2>2 DEF IsNumber
  <2> QED BY <2>1, <2>2
<1>3. e = f
  <2>1. CASE Exponent(t, m)
    <3>1. Peek(t, m) \in 1..(Len(t) + 1)
      BY <1>1, <2>1, NumberFacts
    <3> QED BY <1>2, <2>1, <3>1, OneRunEnd, OutsideIsNoByte DEF IsNumber
  <2>2. CASE ~Exponent(t, m)
    BY <1>2, <2>2 DEF IsNumber
  <2> QED BY <2>1, <2>2
<1> QED BY <1>2, <1>3

LEMMA NumberInPart ==
  ASSUME NEW t \in Text, NEW s \in Text, NEW d, PartOf(s, t, d), NEW j \in 1..(Len(s) + 1),
         NEW m \in Nat, IsNumber(t, d + j, m, d + Len(s) + 1)
  PROVE  /\ m - d \in Nat /\ IsNumber(s, j, m - d, Len(s) + 1)
         /\ Dot(s, j) <=> Dot(t, d + j)
         /\ Exponent(s, m - d) <=> Exponent(t, m)
<1> DEFINE e == d + Len(s) + 1
           n == m - d
<1>1. Len(t) \in Nat /\ Len(s) \in Nat /\ d \in Nat /\ d + Len(s) <= Len(t) /\ j \in Nat
      /\ d + j \in 1..(Len(t) + 1) /\ e \in Nat
  BY LengthIs DEF PartOf
<1>2. /\ m \in (d + j)..e
      /\ Dot(t, d + j) => m > d + j /\ At(t, d + j) = "."
      /\ Exponent(t, m) => /\ Peek(t, m) \in (m + 1)..Len(t) /\ Peek(t, m) \in {m + 1, m + 2}
                           /\ e > Peek(t, m)
  BY <1>1, NumberFacts
<1>3. n \in Nat /\ n \in j..(Len(s) + 1) /\ m = d + n
  BY <1>1, <1>2
<1>4. Outside \notin NumberBytes /\ Outside \notin Letters \cup {".", Underscore} /\ Outside \notin {"e", "E"}
      /\ Outside # "."
  BY OutsideIsNoByte DEF Outside, Underscore
<1> HIDE DEF n
<1>5. Dot(s, j) <=> Dot(t, d + j)
  <2>1. CASE j = Len(s) + 1
    <3>1. At(s, j) = Outside
      BY <1>1, <2>1, AtIs
    <3>2. ~Dot(t, d + j)
      BY <1>1, <1>2, <2>1
    <3> QED BY <1>4, <3>1, <3>2 DEF Dot
  <2>2. CASE j # Len(s) + 1
    <3>1. j \in 1..Len(s) /\ At(s, j) = At(t, d + j)
      BY <1>1, <2>2, AtInPart
    <3>2. CASE j + 1 \in 1..Len(s)
      <4>1. At(s, j + 1) = At(t, d + (j + 1)) /\ d + (j + 1) = d + j + 1
        <5>1. At(s, j + 1) = At(t, d + (j + 1))
          BY <3>2, AtInPart
        <5>2. d + (j + 1) = d + j + 1
          BY <1>1
        <5> QED BY <5>1, <5>2
      <4> QED BY <3>1, <4>1 DEF Dot
    <3>3. CASE j + 1 \notin 1..Len(s)
      <4>1. At(s, j + 1) = Outside /\ j = Len(s)
        BY <1>1, <2>2, <3>3, AtIs
      <4>2. ASSUME At(t, d + j) = ".", ~Dot(t, d + j) PROVE FALSE
        <5>1. m = d + j
          BY <4>2 DEF IsNumber
        <5>2. Exponent(t, m)
          BY <1>1, <4>1, <5>1 DEF IsNumber
        <5> QED BY <4>2, <5>1, <5>2 DEF Exponent
      <4> QED BY <1>4, <3>1, <4>1, <4>2 DEF Dot
    <3> QED BY <3>2, <3>3
  <2> QED BY <2>1, <2>2
<1>6. IF Dot(s, j) THEN IsRun(s, j + 1, NumberBytes, n) ELSE n = j
  <2>1. CASE Dot(t, d + j)
    <3>1. IsRun(t, d + (j + 1), NumberBytes, d + n)
      BY <1>1, <1>3, <2>1 DEF IsNumber
    <3>2. IsRun(s, j + 1, NumberBytes, n)
      <4>1. j + 1 \in Nat \ {0} /\ n \in Int /\ n <= Len(s) + 1
        BY <1>1, <1>3
      <4> QED BY <1>4, <3>1, <4>1, RunInPart
    <3> QED BY <1>5, <2>1, <3>2
  <2>2. CASE ~Dot(t, d + j)
    BY <1>1, <1>3, <1>5, <2>2 DEF IsNumber
  <2> QED BY <2>1, <2>2
<1>7. CASE Exponent(t, m)
  <2>1. /\ m + 2 <= e /\ n \in 1..Len(s) /\ At(s, n) = At(t, m)
        /\ n + 1 \in 1..Len(s) /\ At(s, n + 1) = At(t, m + 1)
    <3>1. n \in 1..Len(s) /\ n + 1 \in 1..Len(s) /\ m + 2 <= e /\ d + (n + 1) = m + 1
      BY <1>1, <1>2, <1>3, <1>7
    <3> QED BY <1>3, <3>1, AtInPart
  <2>2. Peek(t, m) = d + Peek(s, n) /\ Peek(s, n) \in {n + 1, n + 2}
    BY <1>1, <1>3, <2>1 DEF Peek
  <2>3. Peek(s, n) \in 1..Len(s) /\ At(s, Peek(s, n)) = At(t, Peek(t, m)) /\ Peek(s, n) \in Nat \ {0}
    <3>1. Peek(s, n) \in 1..Len(s)
      BY <1>1, <1>2, <1>3, <1>7, <2>2
    <3> QED BY <2>2, <3>1, AtInPart
  <2>4. Exponent(s, n)
    BY <1>7, <2>1, <2>3 DEF Exponent
  <2>5. IsRun(t, d + Peek(s, n), NumberBytes, d + (Len(s) + 1))
    BY <1>1, <1>7, <2>2 DEF IsNumber
  <2>6. IsRun(s, Peek(s, n), NumberBytes, Len(s) + 1)
    <3>1. Len(s) + 1 \in Int /\ Len(s) + 1 <= Len(s) + 1
      BY <1>1
    <3> QED BY <1>4, <2>3, <2>5, <3>1, RunInPart
  <2> QED BY <1>3, <1>5, <1>6, <1>7, <2>4, <2>6 DEF IsNumber, n
<1>8. CASE ~Exponent(t, m)
  <2>1. n = Len(s) + 1
    BY <1>1, <1>3, <1>8 DEF IsNumber
  <2>2. ~Exponent(s, n)
    <3>1. At(s, n) = Outside
      BY <1>1, <2>1, AtIs
    <3> QED BY <1>4, <3>1 DEF Exponent
  <2> QED BY <1>3, <1>5, <1>6, <1>8, <2>1, <2>2 DEF IsNumber, n
<1> QED BY <1>7, <1>8

WholeDecimal(t, s, d, j, kind) ==
  lex_decimal_number(t, d + j) = Done(kind, d + Len(s) + 1) =>
    lex_decimal_number(s, j) = Done(kind, Len(s) + 1)

LEMMA DecimalInPart ==
  ASSUME NEW t \in Text, NEW s \in Text, NEW d, PartOf(s, t, d), NEW j \in 1..(Len(s) + 1), NEW kind
  PROVE  WholeDecimal(t, s, d, j, kind)
<1> SUFFICES ASSUME lex_decimal_number(t, d + j) = Done(kind, d + Len(s) + 1)
             PROVE  lex_decimal_number(s, j) = Done(kind, Len(s) + 1)
  BY DEF WholeDecimal
<1>1. Len(s) \in Nat /\ d \in Nat /\ d + j \in 1..(Len(t) + 1)
  BY LengthIs DEF PartOf
<1>2. PICK m \in Nat, e \in Nat :
        /\ IsNumber(t, d + j, m, e)
        /\ lex_decimal_number(t, d + j) = Done(IF Dot(t, d + j) \/ Exponent(t, m) THEN "Float" ELSE "Int", e)
  BY <1>1, lex_decimal_numberIs
<1>3. e = d + Len(s) + 1 /\ kind = IF Dot(t, d + j) \/ Exponent(t, m) THEN "Float" ELSE "Int"
  BY <1>2 DEF Done
<1>4. /\ m - d \in Nat /\ IsNumber(s, j, m - d, Len(s) + 1)
      /\ Dot(s, j) <=> Dot(t, d + j)
      /\ Exponent(s, m - d) <=> Exponent(t, m)
  BY <1>2, <1>3, NumberInPart
<1>5. PICK n \in Nat, f \in Nat :
        /\ IsNumber(s, j, n, f)
        /\ lex_decimal_number(s, j) = Done(IF Dot(s, j) \/ Exponent(s, n) THEN "Float" ELSE "Int", f)
  BY lex_decimal_numberIs
<1>6. n = m - d /\ f = Len(s) + 1
  <2>1. Len(s) + 1 \in Nat
    BY <1>1
  <2> QED BY <1>4, <1>5, <2>1, IsNumberDetermines
<1> QED BY <1>3, <1>4, <1>5, <1>6
-----------------------------------------------------------------------------
(* The scan of a comment counts how deep it is.                               *)
Look(f, i, d) == f[<<i, d>>]
CommentStep(t, f, i, d) ==
  CASE d = 0 -> Done("BlockComment", i)
    [] d > 0 /\ Follows(t, i, <<"/", "*">>) -> f[<<i + 2, d + 1>>]
    [] d > 0 /\ Follows(t, i, <<"*", "/">>) -> f[<<i + 2, d - 1>>]
    [] d > 0 /\ i > Len(t) -> Failed("UnterminatedBlockComment")
    [] OTHER -> f[<<i + 1, d>>]
CommentScan(t) == CHOOSE f : f = [p \in Nat \X Nat |-> CommentStep(t, f, p[1], p[2])]
CommentEnds == {Failed("UnterminatedBlockComment")} \cup {Done("BlockComment", e) : e \in Nat}
Opens(t, i) == Follows(t, i, <<"/", "*">>)
Shuts(t, i) == Follows(t, i, <<"*", "/">>)

LEMMA OpensOrShuts ==
  ASSUME NEW t \in Text, NEW i \in Nat
  PROVE  /\ ~(Opens(t, i) /\ Shuts(t, i))
         /\ Opens(t, i) => i \in 1..Len(t) /\ i + 1 \in 1..Len(t) /\ t[i] = "/" /\ t[i + 1] = "*"
         /\ Shuts(t, i) => i \in 1..Len(t) /\ i + 1 \in 1..Len(t) /\ t[i] = "*" /\ t[i + 1] = "/"
<1>1. Outside # "/" /\ Outside # "*" /\ "*" # "/"
  BY DEF Outside
<1>2. /\ Opens(t, i) <=> At(t, i) = "/" /\ At(t, i + 1) = "*"
      /\ Shuts(t, i) <=> At(t, i) = "*" /\ At(t, i + 1) = "/"
  BY FollowsTwo DEF Opens, Shuts
<1> QED BY <1>1, <1>2, AtIs

LEMMA CommentStepCases ==
  ASSUME NEW t \in Text, NEW f, NEW i \in Nat, NEW d \in Nat
  PROVE  /\ d = 0 => CommentStep(t, f, i, d) = Done("BlockComment", i)
         /\ d # 0 /\ Opens(t, i) => CommentStep(t, f, i, d) = Look(f, i + 2, d + 1)
         /\ d # 0 /\ Shuts(t, i) => CommentStep(t, f, i, d) = Look(f, i + 2, d - 1)
         /\ d # 0 /\ i > Len(t) => CommentStep(t, f, i, d) = Failed("UnterminatedBlockComment")
         /\ d # 0 /\ i <= Len(t) /\ ~Opens(t, i) /\ ~Shuts(t, i) =>
              CommentStep(t, f, i, d) = Look(f, i + 1, d)
<1>2. ~(Opens(t, i) /\ Shuts(t, i)) /\ (Opens(t, i) \/ Shuts(t, i) => ~(i > Len(t)))
  BY OpensOrShuts, LengthIs
<1>3. CommentStep(t, f, i, d) =
        CASE d = 0 -> Done("BlockComment", i)
          [] d > 0 /\ Opens(t, i) -> Look(f, i + 2, d + 1)
          [] d > 0 /\ Shuts(t, i) -> Look(f, i + 2, d - 1)
          [] d > 0 /\ i > Len(t) -> Failed("UnterminatedBlockComment")
          [] OTHER -> Look(f, i + 1, d)
  BY DEF CommentStep, Opens, Shuts, Look
<1>4. d # 0 => d > 0
  OBVIOUS
<1>5. Len(t) \in Nat
  BY LengthIs
<1>6. CASE d = 0
  BY <1>3, <1>6
<1>7. CASE d # 0 /\ Opens(t, i)
  BY <1>2, <1>3, <1>4, <1>7
<1>8. CASE d # 0 /\ Shuts(t, i)
  BY <1>2, <1>3, <1>4, <1>8
<1>9. CASE d # 0 /\ ~Opens(t, i) /\ ~Shuts(t, i)
  BY <1>3, <1>4, <1>5, <1>9
<1> QED BY <1>6, <1>7, <1>8, <1>9

LEMMA lex_block_commentIs ==
  ASSUME NEW t, NEW j PROVE lex_block_comment(t, j) = CommentScan(t)[<<j, 1>>]
BY DEF lex_block_comment, CommentScan, CommentStep

LEMMA CommentScanIs ==
  ASSUME NEW t \in Text
  PROVE  \A i, d \in Nat : CommentScan(t)[<<i, d>>] = CommentStep(t, CommentScan(t), i, d)
<1> DEFINE T == [Nat -> CommentEnds]
           G == [Nat -> T]
           Pairs(F) == [p \in Nat \X Nat |-> F[p[1]][p[2]]]
           Row(F, i) == [d \in Nat |-> CommentStep(t, Pairs(F), i, d)]
           step == [x \in Nat \X G |-> Row(x[2], x[1])]
<1>1. \A F : \A i, d \in Nat : Pairs(F)[<<i, d>>] = F[i][d]
  OBVIOUS
<1>2. \A i \in Nat : \A F \in G : step[<<i, F>>] = Row(F, i)
  OBVIOUS
<1>3. \A i \in Nat : \A F \in G : Row(F, i) \in T
  <2> SUFFICES ASSUME NEW i \in Nat, NEW F \in G, NEW d \in Nat
               PROVE  CommentStep(t, Pairs(F), i, d) \in CommentEnds
    OBVIOUS
  <2>1. \A k, l \in Nat : F[k][l] \in CommentEnds
    OBVIOUS
  <2> DEFINE f == Pairs(F)
  <2>2. \A k, l \in Nat : Look(f, k, l) \in CommentEnds
    BY <2>1 DEF Look
  <2>3. i + 1 \in Nat /\ i + 2 \in Nat /\ d + 1 \in Nat /\ (d # 0 => d - 1 \in Nat) /\ Len(t) \in Nat
    BY LengthIs
  <2> HIDE DEF f
  <2>4. CommentStep(t, f, i, d) \in CommentEnds
    <3>1. CASE d = 0
      <4>1. Done("BlockComment", i) \in CommentEnds
        BY DEF CommentEnds
      <4> QED BY <3>1, <4>1, CommentStepCases
    <3>2. CASE d # 0 /\ Opens(t, i)
      <4>1. CommentStep(t, f, i, d) = Look(f, i + 2, d + 1)
        BY <3>2, CommentStepCases
      <4> QED BY <2>2, <2>3, <4>1
    <3>3. CASE d # 0 /\ Shuts(t, i)
      <4>1. CommentStep(t, f, i, d) = Look(f, i + 2, d - 1)
        BY <3>3, CommentStepCases
      <4> QED BY <2>2, <2>3, <3>3, <4>1
    <3>4. CASE d # 0 /\ i > Len(t)
      BY <3>4, CommentStepCases DEF CommentEnds
    <3>5. CASE d # 0 /\ i <= Len(t) /\ ~Opens(t, i) /\ ~Shuts(t, i)
      <4>1. CommentStep(t, f, i, d) = Look(f, i + 1, d)
        BY <3>5, CommentStepCases
      <4> QED BY <2>2, <2>3, <4>1
    <3>6. i > Len(t) \/ i <= Len(t)
      BY <2>3
    <3> QED BY <3>1, <3>2, <3>3, <3>4, <3>5, <3>6
  <2> QED BY <2>4 DEF f
<1>4. EndsAsIn(Len(t), G, step)
  <2> DEFINE R == [d \in Nat |-> Failed("UnterminatedBlockComment")]
             E == [i \in Nat |-> [d \in Nat |-> IF d = 0 THEN Done("BlockComment", i)
                                                ELSE Failed("UnterminatedBlockComment")]]
  <2>1. E \in G
    BY DEF CommentEnds
  <2>2. \A i \in Nat : i > Len(t) => Row(E, i) = E[i]
    <3> SUFFICES ASSUME NEW i \in Nat, i > Len(t) PROVE Row(E, i) = E[i]
      OBVIOUS
    <3>1. i > Len(t)
      OBVIOUS
    <3>2. \A d \in Nat : CommentStep(t, Pairs(E), i, d) =
            IF d = 0 THEN Done("BlockComment", i) ELSE Failed("UnterminatedBlockComment")
      <4> DEFINE f == Pairs(E)
      <4>1. \A d \in Nat : CommentStep(t, f, i, d) =
              IF d = 0 THEN Done("BlockComment", i) ELSE Failed("UnterminatedBlockComment")
        <5> HIDE DEF f
        <5> QED BY <3>1, CommentStepCases
      <4> QED BY <4>1
    <3> HIDE DEF Pairs
    <3> QED BY <3>2
  <2> HIDE DEF E, G, step, Row
  <2>3. \A i \in Nat : i > Len(t) => E[i] = step[<<i, E>>]
    BY <1>2, <2>1, <2>2
  <2> QED BY <2>1, <2>3 DEF EndsAsIn
<1>5. StepsStayIn(Len(t), G, step)
  <2>1. \A i \in 0..Len(t) : i \in Nat
    BY LengthIs
  <2> HIDE DEF Row
  <2>2. \A i \in Nat : \A F \in G : step[<<i, F>>] \in T
    BY <1>2, <1>3
  <2> HIDE DEF step, T
  <2> QED BY <2>1, <2>2 DEF StepsStayIn
<1>6. LooksLater(G, step)
  <2> SUFFICES ASSUME NEW i \in Nat, NEW F \in G, NEW H \in G, \A k \in Nat : k > i => F[k] = H[k]
               PROVE  step[<<i, F>>] = step[<<i, H>>]
    BY DEF LooksLater
  <2> DEFINE f == Pairs(F)
             h == Pairs(H)
  <2>1. \A k, l \in Nat : k > i => Look(f, k, l) = Look(h, k, l)
    BY DEF Look
  <2> HIDE DEF f, h
  <2>2. \A d \in Nat : CommentStep(t, f, i, d) = CommentStep(t, h, i, d)
    <3> SUFFICES ASSUME NEW d \in Nat
                 PROVE  CommentStep(t, f, i, d) = CommentStep(t, h, i, d)
      OBVIOUS
    <3>1. /\ i + 1 \in Nat /\ i + 2 \in Nat /\ d + 1 \in Nat /\ (d # 0 => d - 1 \in Nat) /\ Len(t) \in Nat
          /\ i + 1 > i /\ i + 2 > i
      BY LengthIs
    <3>2. CASE d = 0
      BY <3>2, CommentStepCases
    <3>3. CASE d # 0 /\ Opens(t, i)
      <4>1. CommentStep(t, f, i, d) = Look(f, i + 2, d + 1) /\ CommentStep(t, h, i, d) = Look(h, i + 2, d + 1)
        BY <3>3, CommentStepCases
      <4> QED BY <2>1, <3>1, <4>1
    <3>4. CASE d # 0 /\ Shuts(t, i)
      <4>1. CommentStep(t, f, i, d) = Look(f, i + 2, d - 1) /\ CommentStep(t, h, i, d) = Look(h, i + 2, d - 1)
        BY <3>4, CommentStepCases
      <4> QED BY <2>1, <3>1, <3>4, <4>1
    <3>5. CASE d # 0 /\ i > Len(t)
      BY <3>5, CommentStepCases
    <3>6. CASE d # 0 /\ i <= Len(t) /\ ~Opens(t, i) /\ ~Shuts(t, i)
      <4>1. CommentStep(t, f, i, d) = Look(f, i + 1, d) /\ CommentStep(t, h, i, d) = Look(h, i + 1, d)
        BY <3>6, CommentStepCases
      <4> QED BY <2>1, <3>1, <4>1
    <3>7. i > Len(t) \/ i <= Len(t)
      BY <3>1
    <3> QED BY <3>2, <3>3, <3>4, <3>5, <3>6, <3>7
  <2>3. Row(F, i) = Row(H, i)
    BY <2>2 DEF f, h
  <2> HIDE DEF Row
  <2> QED BY <1>2, <2>3
<1>7. PICK F \in G : \A i \in Nat : F[i] = step[<<i, F>>]
  <2> HIDE DEF step
  <2>1. Len(t) \in Nat /\ G \in SUBSET [Nat -> T]
    BY LengthIs
  <2> HIDE DEF G, T
  <2>2. Fulfilments(G, step) # {}
    BY <2>1, <1>4, <1>5, <1>6, Later
  <2> QED BY <2>2 DEF Fulfilments
<1> DEFINE f == Pairs(F)
<1>8. \A i, d \in Nat : F[i][d] = CommentStep(t, f, i, d)
  <2>1. \A i \in Nat : F[i] = Row(F, i)
    <3> HIDE DEF Row, step
    <3> QED BY <1>2, <1>7
  <2> HIDE DEF Pairs
  <2> QED BY <2>1
<1>9. f = [p \in Nat \X Nat |-> CommentStep(t, f, p[1], p[2])]
  <2>1. \A p \in Nat \X Nat : p[1] \in Nat /\ p[2] \in Nat
    OBVIOUS
  <2>2. \A p \in Nat \X Nat : F[p[1]][p[2]] = CommentStep(t, f, p[1], p[2])
    <3> HIDE DEF f
    <3> QED BY <1>8, <2>1
  <2> QED BY <2>2
<1> HIDE DEF f
<1>10. CommentScan(t) = [p \in Nat \X Nat |-> CommentStep(t, CommentScan(t), p[1], p[2])]
  BY <1>9 DEF CommentScan
<1> QED BY <1>10

(* What the scan finds at a place and a depth.                                *)
Comment(t, i, d) == CommentScan(t)[<<i, d>>]
Unclosed == Failed("UnterminatedBlockComment")
Plain(t, i) == i <= Len(t) /\ ~Opens(t, i) /\ ~Shuts(t, i)

LEMMA CommentCases ==
  ASSUME NEW t \in Text, NEW i \in Nat, NEW d \in Nat
  PROVE  /\ d = 0 => Comment(t, i, d) = Done("BlockComment", i)
         /\ d # 0 /\ Opens(t, i) => Comment(t, i, d) = Comment(t, i + 2, d + 1)
         /\ d # 0 /\ Shuts(t, i) => Comment(t, i, d) = Comment(t, i + 2, d - 1)
         /\ d # 0 /\ i > Len(t) => Comment(t, i, d) = Unclosed
         /\ d # 0 /\ Plain(t, i) => Comment(t, i, d) = Comment(t, i + 1, d)
         /\ Opens(t, i) \/ Shuts(t, i) \/ i > Len(t) \/ Plain(t, i)
         /\ i + 1 \in Nat /\ i + 2 \in Nat /\ d + 1 \in Nat /\ (d # 0 => d - 1 \in Nat)
<1>1. \A k, l : Look(CommentScan(t), k, l) = Comment(t, k, l)
  BY DEF Look, Comment
<1>2. Comment(t, i, d) = CommentStep(t, CommentScan(t), i, d)
  BY CommentScanIs DEF Comment
<1>3. i > Len(t) \/ i <= Len(t)
  BY LengthIs
<1>4. /\ d = 0 => Comment(t, i, d) = Done("BlockComment", i)
      /\ d # 0 /\ Opens(t, i) => Comment(t, i, d) = Look(CommentScan(t), i + 2, d + 1)
      /\ d # 0 /\ Shuts(t, i) => Comment(t, i, d) = Look(CommentScan(t), i + 2, d - 1)
      /\ d # 0 /\ i > Len(t) => Comment(t, i, d) = Failed("UnterminatedBlockComment")
      /\ d # 0 /\ Plain(t, i) => Comment(t, i, d) = Look(CommentScan(t), i + 1, d)
  BY <1>2, CommentStepCases DEF Plain
<1>5. i + 1 \in Nat /\ i + 2 \in Nat /\ d + 1 \in Nat /\ (d # 0 => d - 1 \in Nat)
  OBVIOUS
<1> QED BY <1>1, <1>3, <1>4, <1>5 DEF Plain, Unclosed

(* A comment ends after a slash, or has no end.                               *)
Ended(t, v, i, d) ==
  \/ v = Unclosed /\ d # 0
  \/ \E e \in Nat : /\ v = Done("BlockComment", e)
                    /\ d = 0 => e = i
                    /\ d # 0 => e >= i + 2 /\ e - 1 \in 1..Len(t) /\ t[e - 1] = "/"

LEMMA CommentsEnd ==
  ASSUME NEW t \in Text
  PROVE  \A i, d \in Nat : Ended(t, Comment(t, i, d), i, d)
<1> DEFINE Ends(i) == \A d \in Nat : Ended(t, Comment(t, i, d), i, d)
           S == {i \in Nat : Ends(i)}
<1>1. Len(t) \in Nat
  BY LengthIs
<1>2. ASSUME NEW i \in Nat, i > Len(t) PROVE Ends(i)
  <2> SUFFICES ASSUME NEW d \in Nat PROVE Ended(t, Comment(t, i, d), i, d)
    OBVIOUS
  <2>1. CASE d = 0
    BY <2>1, CommentCases DEF Ended
  <2>2. CASE d # 0
    BY <1>2, <2>2, CommentCases DEF Ended
  <2> QED BY <2>1, <2>2
<1>3. ASSUME NEW i \in 0..Len(t), \A k \in Nat : k > i => Ends(k) PROVE Ends(i)
  <2> SUFFICES ASSUME NEW d \in Nat PROVE Ended(t, Comment(t, i, d), i, d)
    OBVIOUS
  <2>1. i \in Nat
    BY <1>1
  <2>2. \A k, l \in Nat : k > i => Ended(t, Comment(t, k, l), k, l)
    BY <1>3
  <2> HIDE DEF Ends
  <2>3. CASE d = 0
    BY <2>1, <2>3, CommentCases DEF Ended
  <2>4. CASE d # 0 /\ Opens(t, i)
    <3>1. Comment(t, i, d) = Comment(t, i + 2, d + 1) /\ i + 2 \in Nat /\ d + 1 \in Nat
      BY <2>1, <2>4, CommentCases
    <3>2. Ended(t, Comment(t, i + 2, d + 1), i + 2, d + 1)
      BY <2>1, <2>2, <3>1
    <3> QED BY <2>1, <2>4, <3>1, <3>2 DEF Ended
  <2>5. CASE d # 0 /\ Shuts(t, i)
    <3>1. Comment(t, i, d) = Comment(t, i + 2, d - 1) /\ i + 2 \in Nat /\ d - 1 \in Nat
      BY <2>1, <2>5, CommentCases
    <3>2. Ended(t, Comment(t, i + 2, d - 1), i + 2, d - 1)
      BY <2>1, <2>2, <3>1
    <3>3. i + 1 \in 1..Len(t) /\ t[i + 1] = "/" /\ (i + 2) - 1 = i + 1
      BY <2>1, <2>5, OpensOrShuts
    <3> QED BY <2>1, <2>5, <3>1, <3>2, <3>3 DEF Ended
  <2>6. CASE d # 0 /\ i > Len(t)
    BY <1>2, <2>1, <2>6 DEF Ends
  <2>7. CASE d # 0 /\ Plain(t, i)
    <3>1. Comment(t, i, d) = Comment(t, i + 1, d) /\ i + 1 \in Nat
      BY <2>1, <2>7, CommentCases
    <3>2. Ended(t, Comment(t, i + 1, d), i + 1, d)
      BY <2>1, <2>2, <3>1
    <3> QED BY <2>1, <2>7, <3>1, <3>2 DEF Ended
  <2> QED BY <2>1, <2>3, <2>4, <2>5, <2>6, <2>7, CommentCases
<1> HIDE DEF Ends
<1>4. \A i \in Nat : i > Len(t) => i \in S
  BY <1>2
<1>5. \A i \in 0..Len(t) : (\A k \in Nat : k > i => k \in S) => i \in S
  BY <1>1, <1>3
<1>6. \A i \in Nat : i \in S
  <2> HIDE DEF S
  <2> QED BY <1>1, <1>4, <1>5, Downwards
<1> QED BY <1>6 DEF Ends

(* A comment that ends with a part of the text is the one of that part.       *)
Whole(s, d, v, w) == v = Done("BlockComment", d + Len(s) + 1) => w = Done("BlockComment", Len(s) + 1)

LEMMA OpensInPart ==
  ASSUME NEW t \in Text, NEW s \in Text, NEW d, PartOf(s, t, d), NEW k \in Nat \ {0}, k + 1 <= Len(s)
  PROVE  (Opens(s, k) <=> Opens(t, d + k)) /\ (Shuts(s, k) <=> Shuts(t, d + k))
<1>1. Len(s) \in Nat /\ d \in Nat /\ k \in 1..Len(s) /\ k + 1 \in 1..Len(s) /\ d + (k + 1) = d + k + 1
  BY LengthIs DEF PartOf
<1>2. At(s, k) = At(t, d + k) /\ At(s, k + 1) = At(t, d + k + 1)
  <2>1. \A n \in 1..Len(s) : At(s, n) = At(t, d + n)
    BY AtInPart
  <2>2. At(s, k + 1) = At(t, d + (k + 1))
    BY <1>1, <2>1
  <2> QED BY <1>1, <2>1, <2>2
<1>3. k \in Nat /\ d + k \in Nat
  BY <1>1
<1> QED BY <1>2, <1>3, FollowsTwo DEF Opens, Shuts

LEMMA CommentInPart ==
  ASSUME NEW t \in Text, NEW s \in Text, NEW d, PartOf(s, t, d)
  PROVE  \A i \in Nat \ {0} : \A v \in Nat : Whole(s, d, Comment(t, d + i, v), Comment(s, i, v))
<1> DEFINE Same(i) == i # 0 => \A v \in Nat : Whole(s, d, Comment(t, d + i, v), Comment(s, i, v))
           S == {i \in Nat : Same(i)}
<1>1. Len(s) \in Nat /\ d \in Nat /\ Len(t) \in Nat /\ d + Len(s) <= Len(t)
  BY LengthIs DEF PartOf
<1>2. \A e, f : Done("BlockComment", e) = Done("BlockComment", f) => e = f
  BY DEF Done
<1>3. \A e : Done("BlockComment", e) # Unclosed
  BY DEF Done, Failed, Unclosed
<1>4. ASSUME NEW i \in Nat, i # 0, NEW v \in Nat, Comment(t, d + i, v) = Done("BlockComment", d + Len(s) + 1)
      PROVE  /\ v = 0 => i = Len(s) + 1
             /\ v # 0 => i + 1 <= Len(s)
  <2>1. d + i \in Nat
    BY <1>1
  <2>2. Ended(t, Comment(t, d + i, v), d + i, v)
    BY <2>1, CommentsEnd
  <2>3. PICK e \in Nat : /\ Comment(t, d + i, v) = Done("BlockComment", e)
                         /\ v = 0 => e = d + i
                         /\ v # 0 => e >= d + i + 2
    BY <1>3, <1>4, <2>2 DEF Ended
  <2>4. e = d + Len(s) + 1
    BY <1>2, <1>4, <2>3
  <2> QED BY <1>1, <2>3, <2>4
<1>5. ASSUME NEW i \in Nat, i # 0, NEW v \in Nat, v = 0
      PROVE  Whole(s, d, Comment(t, d + i, v), Comment(s, i, v))
  <2>1. Comment(s, i, v) = Done("BlockComment", i)
    BY <1>5, CommentCases
  <2> QED BY <1>4, <1>5, <2>1 DEF Whole
<1>6. ASSUME NEW i \in Nat, i > Len(s) PROVE Same(i)
  <2> SUFFICES ASSUME i # 0, NEW v \in Nat PROVE Whole(s, d, Comment(t, d + i, v), Comment(s, i, v))
    OBVIOUS
  <2>1. CASE v = 0
    BY <1>5, <2>1
  <2>2. CASE v # 0
    <3>1. ~(i + 1 <= Len(s))
      BY <1>1, <1>6
    <3> QED BY <1>4, <2>2, <3>1 DEF Whole
  <2> QED BY <2>1, <2>2
<1>7. ASSUME NEW i \in 0..Len(s), \A k \in Nat : k > i => Same(k) PROVE Same(i)
  <2> SUFFICES ASSUME i # 0, NEW v \in Nat, Comment(t, d + i, v) = Done("BlockComment", d + Len(s) + 1)
               PROVE  Comment(s, i, v) = Done("BlockComment", Len(s) + 1)
    BY DEF Whole
  <2>1. i \in Nat
    BY <1>1
  <2>2. \A k, w \in Nat : k > i => Whole(s, d, Comment(t, d + k, w), Comment(s, k, w))
    BY <1>7, <2>1
  <2> HIDE DEF Same
  <2>3. CASE v = 0
    BY <1>5, <2>1, <2>3 DEF Whole
  <2>4. CASE v # 0
    <3>1. i + 1 <= Len(s)
      BY <1>4, <2>1, <2>4
    <3>2. (Opens(s, i) <=> Opens(t, d + i)) /\ (Shuts(s, i) <=> Shuts(t, d + i))
      BY <2>1, <3>1, OpensInPart
    <3>3. /\ d + i \in Nat /\ d + i <= Len(t) /\ ~(i > Len(s)) /\ ~(d + i > Len(t)) /\ i <= Len(s)
          /\ d + (i + 1) = d + i + 1 /\ d + (i + 2) = d + i + 2
          /\ i + 1 \in Nat /\ i + 2 \in Nat /\ v + 1 \in Nat /\ v - 1 \in Nat /\ i + 1 > i /\ i + 2 > i
      BY <1>1, <2>1, <2>4, <3>1
    <3>4. CASE Opens(s, i)
      <4>1. Comment(t, d + i, v) = Comment(t, d + i + 2, v + 1) /\ Comment(s, i, v) = Comment(s, i + 2, v + 1)
        BY <2>1, <2>4, <3>2, <3>3, <3>4, CommentCases
      <4>2. Whole(s, d, Comment(t, d + (i + 2), v + 1), Comment(s, i + 2, v + 1))
        BY <2>2, <3>3
      <4> QED BY <3>3, <4>1, <4>2 DEF Whole
    <3>5. CASE Shuts(s, i)
      <4>1. Comment(t, d + i, v) = Comment(t, d + i + 2, v - 1) /\ Comment(s, i, v) = Comment(s, i + 2, v - 1)
        BY <2>1, <2>4, <3>2, <3>3, <3>5, CommentCases
      <4>2. Whole(s, d, Comment(t, d + (i + 2), v - 1), Comment(s, i + 2, v - 1))
        BY <2>2, <3>3
      <4> QED BY <3>3, <4>1, <4>2 DEF Whole
    <3>6. CASE ~Opens(s, i) /\ ~Shuts(s, i)
      <4>1. Plain(t, d + i) /\ Plain(s, i)
        BY <3>2, <3>3, <3>6 DEF Plain
      <4>2. Comment(t, d + i, v) = Comment(t, d + i + 1, v) /\ Comment(s, i, v) = Comment(s, i + 1, v)
        BY <2>1, <2>4, <3>3, <4>1, CommentCases
      <4>3. Whole(s, d, Comment(t, d + (i + 1), v), Comment(s, i + 1, v))
        BY <2>2, <3>3
      <4> QED BY <3>3, <4>2, <4>3 DEF Whole
    <3> QED BY <3>4, <3>5, <3>6
  <2> QED BY <2>3, <2>4
<1> HIDE DEF Same
<1>8. \A i \in Nat : i > Len(s) => i \in S
  BY <1>6
<1>9. \A i \in 0..Len(s) : (\A k \in Nat : k > i => k \in S) => i \in S
  BY <1>1, <1>7
<1>10. \A i \in Nat : i \in S
  <2> HIDE DEF S
  <2> QED BY <1>1, <1>8, <1>9, Downwards
<1> QED BY <1>10 DEF Same

(* The body of a comment, by its definition by recursion.                     *)
BodyStep(t, f, k) ==
  CASE k > Len(t) -> 0
    [] Shuts(t, k) -> k + 2
    [] Opens(t, k) -> IF f[k + 2] = 0 THEN 0 ELSE f[f[k + 2]]
    [] OTHER -> f[k + 1]
Body(t) == CHOOSE f : f = [k \in Nat |-> BodyStep(t, f, k)]
Beyond == {f \in [Nat -> Nat] : \A k \in Nat : f[k] = 0 \/ f[k] > k}

LEMMA BodyStepCases ==
  ASSUME NEW t \in Text, NEW f, NEW k \in Nat
  PROVE  /\ k > Len(t) => BodyStep(t, f, k) = 0
         /\ Shuts(t, k) => BodyStep(t, f, k) = k + 2
         /\ Opens(t, k) => BodyStep(t, f, k) = IF f[k + 2] = 0 THEN 0 ELSE f[f[k + 2]]
         /\ Plain(t, k) => BodyStep(t, f, k) = f[k + 1]
         /\ Opens(t, k) \/ Shuts(t, k) \/ k > Len(t) \/ Plain(t, k)
<1>1. Len(t) \in Nat
  BY LengthIs
<1>2. ~(Opens(t, k) /\ Shuts(t, k)) /\ (Opens(t, k) \/ Shuts(t, k) => ~(k > Len(t)))
  BY <1>1, OpensOrShuts
<1>3. k <= Len(t) <=> ~(k > Len(t))
  BY <1>1
<1>4. CASE k > Len(t)
  BY <1>2, <1>3, <1>4 DEF BodyStep, Plain
<1>5. CASE Shuts(t, k)
  BY <1>2, <1>3, <1>5 DEF BodyStep, Plain
<1>6. CASE Opens(t, k)
  BY <1>2, <1>3, <1>6 DEF BodyStep, Plain
<1>7. CASE Plain(t, k)
  BY <1>2, <1>3, <1>7 DEF BodyStep, Plain
<1> QED BY <1>3, <1>4, <1>5, <1>6, <1>7 DEF Plain

LEMMA CommentEndIs == ASSUME NEW t, NEW i PROVE CommentEnd(t, i) = Body(t)[i + 2]
BY DEF CommentEnd, Body, BodyStep, Opens, Shuts

LEMMA BodyIs ==
  ASSUME NEW t \in Text
  PROVE  Body(t) \in Beyond /\ \A k \in Nat : Body(t)[k] = BodyStep(t, Body(t), k)
<1> DEFINE step == [x \in Nat \X Beyond |-> BodyStep(t, x[2], x[1])]
<1>1. \A k \in Nat : \A f \in Beyond : step[<<k, f>>] = BodyStep(t, f, k)
  OBVIOUS
<1>2. Len(t) \in Nat /\ Beyond \in SUBSET [Nat -> Nat]
  BY LengthIs DEF Beyond
<1>3. ASSUME NEW k \in Nat, NEW f \in Beyond
      PROVE  BodyStep(t, f, k) \in Nat /\ (BodyStep(t, f, k) = 0 \/ BodyStep(t, f, k) > k)
  <2>1. \A l \in Nat : f[l] \in Nat /\ (f[l] = 0 \/ f[l] > l)
    BY DEF Beyond
  <2>2. k + 1 \in Nat /\ k + 2 \in Nat
    OBVIOUS
  <2>3. f[k + 2] \in Nat /\ (f[k + 2] = 0 \/ f[k + 2] > k + 2)
    BY <2>1, <2>2
  <2>4. f[f[k + 2]] \in Nat /\ (f[f[k + 2]] = 0 \/ f[f[k + 2]] > f[k + 2])
    BY <2>1, <2>3
  <2>5. f[k + 1] \in Nat /\ (f[k + 1] = 0 \/ f[k + 1] > k + 1)
    BY <2>1, <2>2
  <2>6. CASE k > Len(t)
    BY <2>6, BodyStepCases
  <2>7. CASE Shuts(t, k)
    <3>1. BodyStep(t, f, k) = k + 2
      BY <2>7, BodyStepCases
    <3> QED BY <3>1
  <2>8. CASE Opens(t, k)
    <3>1. BodyStep(t, f, k) = IF f[k + 2] = 0 THEN 0 ELSE f[f[k + 2]]
      BY <2>8, BodyStepCases
    <3> QED BY <2>3, <2>4, <3>1
  <2>9. CASE Plain(t, k)
    <3>1. BodyStep(t, f, k) = f[k + 1]
      BY <2>9, BodyStepCases
    <3> QED BY <2>5, <3>1
  <2> QED BY <2>6, <2>7, <2>8, <2>9, BodyStepCases
<1>4. EndsAsIn(Len(t), Beyond, step)
  <2> DEFINE z == [k \in Nat |-> 0]
  <2>1. z \in Beyond
    BY DEF Beyond
  <2>2. \A k \in Nat : z[k] = 0
    OBVIOUS
  <2> HIDE DEF z, step
  <2>3. \A k \in Nat : k > Len(t) => z[k] = step[<<k, z>>]
    BY <1>1, <2>1, <2>2, BodyStepCases
  <2> QED BY <2>1, <2>3 DEF EndsAsIn
<1>5. StepsStayIn(Len(t), Beyond, step)
  <2> SUFFICES ASSUME NEW k \in 0..Len(t), NEW f \in Beyond
               PROVE  [f EXCEPT ![k] = step[<<k, f>>]] \in Beyond
    BY DEF StepsStayIn
  <2>1. k \in Nat
    BY <1>2
  <2>2. step[<<k, f>>] \in Nat /\ (step[<<k, f>>] = 0 \/ step[<<k, f>>] > k)
    BY <1>1, <1>3, <2>1
  <2> HIDE DEF step
  <2> QED BY <2>1, <2>2 DEF Beyond
<1>6. LooksLater(Beyond, step)
  <2> SUFFICES ASSUME NEW k \in Nat, NEW f \in Beyond, NEW g \in Beyond, \A l \in Nat : l > k => f[l] = g[l]
               PROVE  BodyStep(t, f, k) = BodyStep(t, g, k)
    BY <1>1 DEF LooksLater
  <2>1. f[k + 1] = g[k + 1] /\ f[k + 2] = g[k + 2]
    OBVIOUS
  <2>2. f[k + 2] # 0 => f[f[k + 2]] = g[f[k + 2]]
    <3>1. f[k + 2] \in Nat /\ (f[k + 2] = 0 \/ f[k + 2] > k + 2)
      BY DEF Beyond
    <3> QED BY <3>1
  <2>3. CASE k > Len(t)
    BY <2>3, BodyStepCases
  <2>4. CASE Shuts(t, k)
    BY <2>4, BodyStepCases
  <2>5. CASE Opens(t, k)
    <3>1. /\ BodyStep(t, f, k) = IF f[k + 2] = 0 THEN 0 ELSE f[f[k + 2]]
          /\ BodyStep(t, g, k) = IF g[k + 2] = 0 THEN 0 ELSE g[g[k + 2]]
      BY <2>5, BodyStepCases
    <3> QED BY <2>1, <2>2, <3>1
  <2>6. CASE Plain(t, k)
    BY <2>1, <2>6, BodyStepCases
  <2> QED BY <2>3, <2>4, <2>5, <2>6, BodyStepCases
<1>7. PICK f \in Beyond : \A k \in Nat : f[k] = step[<<k, f>>]
  <2> HIDE DEF step
  <2>1. Fulfilments(Beyond, step) # {}
    BY <1>2, <1>4, <1>5, <1>6, Later
  <2> QED BY <2>1 DEF Fulfilments
<1>8. f = [k \in Nat |-> BodyStep(t, f, k)]
  <2>1. f \in [Nat -> Nat]
    BY DEF Beyond
  <2>2. \A k \in Nat : f[k] = BodyStep(t, f, k)
    BY <1>1, <1>7
  <2> QED BY <2>1, <2>2
<1>9. Body(t) = [k \in Nat |-> BodyStep(t, Body(t), k)]
  BY <1>8 DEF Body
<1> HIDE DEF step
<1>10. \A k \in Nat : Body(t)[k] = BodyStep(t, Body(t), k)
  BY <1>9
<1> DEFINE Is(k) == Body(t)[k] \in Nat /\ (Body(t)[k] = 0 \/ Body(t)[k] > k)
           S == {k \in Nat : Is(k)}
           body == Body(t)
<1>11. \A k \in Nat : k > Len(t) => Is(k)
  BY <1>10, BodyStepCases
<1>12. ASSUME NEW k \in 0..Len(t), \A l \in Nat : l > k => Is(l) PROVE Is(k)
  <2>1. k \in Nat /\ k + 1 \in Nat /\ k + 2 \in Nat /\ k + 1 > k /\ k + 2 > k
    BY <1>2
  <2>2. Is(k + 1) /\ Is(k + 2)
    BY <1>12, <2>1
  <2>3. body[k + 2] # 0 => Is(body[k + 2])
    BY <1>12, <2>1, <2>2
  <2>4. body[k] = BodyStep(t, body, k)
    BY <1>10, <2>1
  <2> HIDE DEF body
  <2>5. CASE k > Len(t)
    BY <1>11, <2>1, <2>5
  <2>6. CASE Shuts(t, k)
    <3>1. body[k] = k + 2
      BY <2>1, <2>4, <2>6, BodyStepCases
    <3> QED BY <2>1, <3>1 DEF body
  <2>7. CASE Opens(t, k)
    <3>1. body[k] = IF body[k + 2] = 0 THEN 0 ELSE body[body[k + 2]]
      BY <2>1, <2>4, <2>7, BodyStepCases
    <3> QED BY <2>1, <2>2, <2>3, <3>1 DEF body
  <2>8. CASE Plain(t, k)
    <3>1. body[k] = body[k + 1]
      BY <2>1, <2>4, <2>8, BodyStepCases
    <3> QED BY <2>1, <2>2, <3>1 DEF body
  <2> HIDE DEF Is
  <2> QED BY <2>1, <2>5, <2>6, <2>7, <2>8, BodyStepCases
<1> HIDE DEF Is, body
<1>13. \A k \in Nat : k > Len(t) => k \in S
  BY <1>11
<1>14. \A k \in 0..Len(t) : (\A l \in Nat : l > k => l \in S) => k \in S
  BY <1>2, <1>12
<1>15. \A k \in Nat : k \in S
  <2> HIDE DEF S
  <2> QED BY <1>2, <1>13, <1>14, Downwards
<1>16. \A k \in Nat : Body(t)[k] \in Nat /\ (Body(t)[k] = 0 \/ Body(t)[k] > k)
  BY <1>15 DEF Is
<1>17. Body(t) \in [Nat -> Nat]
  BY <1>9, <1>16
<1> QED BY <1>10, <1>16, <1>17 DEF Beyond

(* The body ends where the count comes back to where it was.                  *)
LEMMA BodyClosesOne ==
  ASSUME NEW t \in Text
  PROVE  \A k \in Nat : \A v \in Nat \ {0} :
           Comment(t, k, v) = IF Body(t)[k] = 0 THEN Unclosed ELSE Comment(t, Body(t)[k], v - 1)
<1> DEFINE body == Body(t)
           Counts(k) == \A v \in Nat \ {0} :
                          Comment(t, k, v) = IF body[k] = 0 THEN Unclosed ELSE Comment(t, body[k], v - 1)
           S == {k \in Nat : Counts(k)}
<1>1. /\ Len(t) \in Nat
      /\ \A k \in Nat : body[k] \in Nat /\ (body[k] = 0 \/ body[k] > k) /\ body[k] = BodyStep(t, body, k)
  BY BodyIs, LengthIs DEF Beyond
<1> HIDE DEF body
<1>2. ASSUME NEW k \in Nat, k > Len(t) PROVE Counts(k)
  <2>1. body[k] = 0
    BY <1>1, <1>2, BodyStepCases
  <2> SUFFICES ASSUME NEW v \in Nat \ {0} PROVE Comment(t, k, v) = Unclosed
    BY <2>1
  <2> QED BY <1>2, CommentCases
<1>3. ASSUME NEW k \in 0..Len(t), \A l \in Nat : l > k => Counts(l) PROVE Counts(k)
  <2>1. k \in Nat /\ k + 1 \in Nat /\ k + 2 \in Nat /\ k + 1 > k /\ k + 2 > k
    BY <1>1
  <2>2. Counts(k + 1) /\ Counts(k + 2)
    BY <1>3, <2>1
  <2>3. body[k + 2] # 0 => Counts(body[k + 2])
    <3>1. body[k + 2] \in Nat /\ (body[k + 2] = 0 \/ body[k + 2] > k + 2)
      BY <1>1, <2>1
    <3>2. body[k + 2] # 0 => body[k + 2] > k
      BY <2>1, <3>1
    <3> QED BY <1>3, <3>1, <3>2
  <2> SUFFICES ASSUME NEW v \in Nat \ {0}
               PROVE  Comment(t, k, v) = IF body[k] = 0 THEN Unclosed ELSE Comment(t, body[k], v - 1)
    OBVIOUS
  <2>4. v # 0 /\ v \in Nat /\ v + 1 \in Nat \ {0} /\ (v + 1) - 1 = v
    OBVIOUS
  <2>5. CASE k > Len(t)
    BY <1>2, <2>1, <2>5
  <2>6. CASE Shuts(t, k)
    <3>1. body[k] = k + 2
      BY <1>1, <2>1, <2>6, BodyStepCases
    <3>2. Comment(t, k, v) = Comment(t, k + 2, v - 1)
      BY <2>1, <2>4, <2>6, CommentCases
    <3> QED BY <2>1, <3>1, <3>2
  <2>7. CASE Opens(t, k)
    <3>1. body[k] = IF body[k + 2] = 0 THEN 0 ELSE body[body[k + 2]]
      BY <1>1, <2>1, <2>7, BodyStepCases
    <3>2. Comment(t, k, v) = Comment(t, k + 2, v + 1)
      BY <2>1, <2>4, <2>7, CommentCases
    <3>3. Comment(t, k + 2, v + 1) = IF body[k + 2] = 0 THEN Unclosed ELSE Comment(t, body[k + 2], v)
      BY <2>2, <2>4
    <3>4. body[k + 2] # 0 =>
            Comment(t, body[k + 2], v) =
              IF body[body[k + 2]] = 0 THEN Unclosed ELSE Comment(t, body[body[k + 2]], v - 1)
      BY <2>3
    <3> QED BY <3>1, <3>2, <3>3, <3>4
  <2>8. CASE Plain(t, k)
    <3>1. body[k] = body[k + 1]
      BY <1>1, <2>1, <2>8, BodyStepCases
    <3>2. Comment(t, k, v) = Comment(t, k + 1, v)
      BY <2>1, <2>4, <2>8, CommentCases
    <3> QED BY <2>2, <3>1, <3>2
  <2> QED BY <2>1, <2>5, <2>6, <2>7, <2>8, CommentCases
<1> HIDE DEF Counts
<1>4. \A k \in Nat : k > Len(t) => k \in S
  BY <1>2
<1>5. \A k \in 0..Len(t) : (\A l \in Nat : l > k => l \in S) => k \in S
  BY <1>1, <1>3
<1>6. \A k \in Nat : k \in S
  <2> HIDE DEF S
  <2> QED BY <1>1, <1>4, <1>5, Downwards
<1> QED BY <1>6 DEF Counts, body

LEMMA CommentEndsWhereItsBodyDoes ==
  ASSUME NEW t \in Text, NEW i \in Nat
  PROVE  /\ \A e : lex_block_comment(t, i + 2) = Done("BlockComment", e) => CommentEnd(t, i) = e
         /\ lex_block_comment(t, i + 2) = Unclosed => CommentEnd(t, i) = 0
<1> DEFINE b == Body(t)[i + 2]
<1>1. i + 2 \in Nat /\ b \in Nat
  <2>1. i + 2 \in Nat
    OBVIOUS
  <2> QED BY <2>1, BodyIs DEF Beyond
<1>2. CommentEnd(t, i) = b
  BY CommentEndIs
<1>3. lex_block_comment(t, i + 2) = Comment(t, i + 2, 1)
  BY lex_block_commentIs DEF Comment
<1>4. 1 \in Nat \ {0} /\ 1 - 1 = 0
  OBVIOUS
<1>5. Comment(t, i + 2, 1) = IF b = 0 THEN Unclosed ELSE Comment(t, b, 0)
  BY <1>1, <1>4, BodyClosesOne
<1> HIDE DEF b
<1>6. Comment(t, b, 0) = Done("BlockComment", b)
  BY <1>1, CommentCases
<1>7. \A e, f : Done("BlockComment", e) # Unclosed /\ (Done("BlockComment", e) = Done("BlockComment", f) => e = f)
  BY DEF Done, Failed, Unclosed
<1> QED BY <1>2, <1>3, <1>5, <1>6, <1>7
-----------------------------------------------------------------------------
(* What the table matches in a text and in a part of it.                      *)
LEMMA RadixBytes ==
  ASSUME NEW r \in Radixes
  PROVE  Outside \notin r[1] /\ Outside \notin r[2] /\ Outside # "0" /\ Outside # "r" /\ Outside # Quote
<1>1. Outside # "0" /\ Outside # "r" /\ Outside # Quote
  BY DEF Outside, Quote
<1> QED BY <1>1, OutsideIsNoByte

LEMMA LinesReachFurther ==
  ASSUME NEW t \in Text, NEW i \in Nat \ {0}, NEW end, NEW opening,
         opening \in {<<"/", "/">>, <<"/", "/", "!">>, <<"/", "/", "/">>}, IsLine(t, i, opening, end)
  PROVE  end >= i + Len(opening)
<1>1. /\ IsRun(t, i, LineBytes, end) /\ Len(t) \in Nat /\ end \in Nat /\ end >= i
      /\ At(t, end) \notin LineBytes
  BY LengthIs DEF IsLine, IsRun
<1>2. \A k \in 1..Len(opening) : At(t, i + k - 1) = opening[k] /\ opening[k] \in {"/", "!"}
  <2>1. DOMAIN opening = 1..Len(opening) /\ \A k \in 1..Len(opening) : opening[k] \in {"/", "!"}
    OBVIOUS
  <2> QED BY <2>1 DEF IsLine, Follows
<1>3. \A k \in 1..Len(opening) : At(t, i + k - 1) \in LineBytes
  <2> SUFFICES ASSUME NEW k \in 1..Len(opening) PROVE At(t, i + k - 1) \in LineBytes
    OBVIOUS
  <2>1. At(t, i + k - 1) \in {"/", "!"}
    BY <1>2
  <2>2. At(t, i + k - 1) # Outside /\ At(t, i + k - 1) # "\n"
    BY <2>1 DEF Outside
  <2>3. i + k - 1 \in 1..Len(t)
    BY <2>2, AtIs
  <2> QED BY <2>2, <2>3, AtIs DEF LineBytes
<1>4. \A k \in 1..Len(opening) : end # i + k - 1
  BY <1>1, <1>3
<1>5. CASE opening = <<"/", "/">>
  <2>1. 1 \in 1..Len(opening) /\ 2 \in 1..Len(opening) /\ Len(opening) = 2
    BY <1>5
  <2>2. end # i + 1 - 1 /\ end # i + 2 - 1
    BY <1>4, <2>1
  <2> QED BY <1>1, <2>1, <2>2
<1>6. CASE opening \in {<<"/", "/", "!">>, <<"/", "/", "/">>}
  <2>1. 1 \in 1..Len(opening) /\ 2 \in 1..Len(opening) /\ 3 \in 1..Len(opening) /\ Len(opening) = 3
    <3>1. Len(opening) = 3
      BY <1>6
    <3> QED BY <3>1
  <2>2. end # i + 1 - 1 /\ end # i + 2 - 1 /\ end # i + 3 - 1
    BY <1>4, <2>1
  <2> QED BY <1>1, <2>1, <2>2
<1> QED BY <1>5, <1>6

LEMMA FollowsInPart ==
  ASSUME NEW t \in Text, NEW s \in Text, NEW d, PartOf(s, t, d), NEW word,
         Len(word) \in Nat, DOMAIN word = 1..Len(word), Len(word) <= Len(s)
  PROVE  Follows(s, 1, word) <=> Follows(t, d + 1, word)
<1>1. Len(s) \in Nat /\ d \in Nat
  BY LengthIs DEF PartOf
<1>2. \A n \in 1..Len(word) : At(s, n) = At(t, d + n) /\ 1 + n - 1 = n /\ d + 1 + n - 1 = d + n
  <2> SUFFICES ASSUME NEW n \in 1..Len(word)
               PROVE  At(s, n) = At(t, d + n) /\ 1 + n - 1 = n /\ d + 1 + n - 1 = d + n
    OBVIOUS
  <2>1. n \in 1..Len(s) /\ 1 + n - 1 = n /\ d + 1 + n - 1 = d + n
    BY <1>1
  <2> QED BY <2>1, AtInPart
<1> QED BY <1>2 DEF Follows

Openings == {<<"/", "/">>, <<"/", "/", "!">>, <<"/", "/", "/">>, <<"/", "*">>}

LEMMA OpeningsAreWords ==
  ASSUME NEW w \in Openings
  PROVE  Len(w) \in Nat \ {0} /\ DOMAIN w = 1..Len(w) /\ w[Len(w)] # Outside /\ w[1] # Outside
BY DEF Openings, Outside

(* Where a word stands, the text goes on for its length.                      *)
LEMMA FollowsFits ==
  ASSUME NEW s \in Text, NEW w, Len(w) \in Nat \ {0}, DOMAIN w = 1..Len(w), w[Len(w)] # Outside,
         Follows(s, 1, w)
  PROVE  Len(w) <= Len(s)
<1>1. Len(s) \in Nat
  BY LengthIs
<1>2. At(s, 1 + Len(w) - 1) = w[Len(w)] /\ 1 + Len(w) - 1 = Len(w)
  BY DEF Follows
<1>3. Len(w) \in 1..Len(s)
  BY <1>2, AtIs
<1> QED BY <1>1, <1>3

LEMMA LineInPart ==
  ASSUME NEW t \in Text, NEW s \in Text, NEW d, PartOf(s, t, d), NEW e \in Int, e <= Len(s) + 1,
         NEW w \in Openings \ {<<"/", "*">>}, IsLine(t, d + 1, w, d + e)
  PROVE  IsLine(s, 1, w, e)
<1>1. Len(s) \in Nat /\ d \in Nat /\ d + 1 \in Nat \ {0}
  BY LengthIs DEF PartOf
<1>2. w \in {<<"/", "/">>, <<"/", "/", "!">>, <<"/", "/", "/">>}
  BY DEF Openings
<1>3. d + e >= d + 1 + Len(w)
  BY <1>1, <1>2, LinesReachFurther
<1>4. Len(w) \in Nat /\ DOMAIN w = 1..Len(w)
  BY OpeningsAreWords
<1>5. Len(w) <= Len(s)
  BY <1>1, <1>3, <1>4
<1>6. Follows(s, 1, w)
  BY <1>4, <1>5, FollowsInPart DEF IsLine
<1>7. IsRun(s, 1, LineBytes, e)
  <2>1. 1 \in Nat \ {0} /\ Outside \notin LineBytes
    BY OutsideIsNoByte
  <2> QED BY <2>1, RunInPart DEF IsLine
<1> QED BY <1>6, <1>7 DEF IsLine

LEMMA ShapeInPart ==
  ASSUME NEW t \in Text, NEW s \in Text, NEW d, PartOf(s, t, d), NEW e \in 2..(Len(s) + 1), NEW k, NEW p,
         Shape(t, d + 1, k, p, d + e)
  PROVE  Shape(s, 1, k, p, e)
<1>1. Len(s) \in Nat /\ Len(s) >= 1 /\ d \in Nat /\ e \in Int /\ e <= Len(s) + 1 /\ e >= 2
      /\ d + 1 \in 1..Len(t) /\ Len(t) \in Nat
  BY LengthIs DEF PartOf
<1>2. At(s, 1) = At(t, d + 1) /\ 1 \in Nat \ {0} /\ 1 \in 1..Len(s)
  BY <1>1, AtInPart
<1>3. \A S : Outside \notin S /\ IsRun(t, d + 1, S, d + e) => IsRun(s, 1, S, e)
  BY <1>1, <1>2, RunInPart
<1>4. CASE k = "Fixed" /\ p = 2 /\ IsFixed(t, d + 1, d + e)
  <2>1. PICK w \in Keywords \cup Symbols : Follows(t, d + 1, w) /\ d + e = d + 1 + Len(w)
    BY <1>4 DEF IsFixed
  <2>2. Len(w) \in Nat /\ DOMAIN w = 1..Len(w)
    BY WordIs
  <2>3. e = 1 + Len(w) /\ Len(w) <= Len(s)
    BY <1>1, <2>1, <2>2
  <2>4. Follows(s, 1, w)
    BY <2>1, <2>2, <2>3, FollowsInPart
  <2> QED BY <1>4, <2>3, <2>4 DEF Shape, IsFixed
<1>5. CASE k = "Blank" /\ p = 1 /\ IsRun(t, d + 1, Blank, d + e)
  BY <1>3, <1>5, OutsideIsNoByte DEF Shape
<1>6. CASE k = "Identifier" /\ p = 1 /\ At(t, d + 1) \notin Digits /\ IsRun(t, d + 1, NameBytes, d + e)
  BY <1>2, <1>3, <1>6, OutsideIsNoByte DEF Shape
<1>7. CASE k = "Int" /\ p = 2 /\ IsInt(t, d + 1, d + e)
  <2>1. PICK r \in Radixes : /\ At(t, d + 1) = "0" /\ At(t, d + 1 + 1) \in r[1] /\ At(t, d + 1 + 2) \in r[2]
                             /\ IsRun(t, d + 1 + 2, r[2], d + e)
    BY <1>7 DEF IsInt
  <2>2. d + e \in (d + 1 + 2)..(Len(t) + 1) /\ At(t, d + e) \notin r[2]
    BY <2>1 DEF IsRun
  <2>3. d + e # d + 1 + 2
    BY <2>1, <2>2
  <2>4. 2 \in 1..Len(s) /\ 3 \in 1..Len(s) /\ d + 1 + 1 = d + 2 /\ d + 1 + 2 = d + 3 /\ 1 + 1 = 2 /\ 1 + 2 = 3
    BY <1>1, <2>2, <2>3
  <2>5. At(s, 2) = At(t, d + 2) /\ At(s, 3) = At(t, d + 3)
    BY <2>4, AtInPart
  <2>6. IsRun(s, 3, r[2], e)
    <3>1. 3 \in Nat \ {0} /\ Outside \notin r[2] /\ IsRun(t, d + 3, r[2], d + e)
      BY <2>1, <2>4, RadixBytes
    <3> QED BY <1>1, <3>1, RunInPart
  <2> QED BY <1>2, <1>7, <2>1, <2>4, <2>5, <2>6 DEF Shape, IsInt
<1>8. CASE k = "Decimal" /\ p = 2 /\ At(t, d + 1) \in Digits /\ IsRun(t, d + 1, NumberBytes, d + e)
  BY <1>2, <1>3, <1>8, OutsideIsNoByte DEF Shape
<1>9. CASE k = "String" /\ p = 2 /\ At(t, d + 1) = Quote /\ d + e = d + 1 + 1
  <2>1. e = 1 + 1
    BY <1>1, <1>9
  <2> QED BY <1>2, <1>9, <2>1 DEF Shape
<1>10. CASE k = "RawString" /\ p = 2 /\ IsRawString(t, d + 1, d + e)
  <2>1. At(t, d + 1) = "r" /\ At(t, (d + e) - 1) = Quote /\ IsRun(t, d + 1 + 1, {"#"}, (d + e) - 1)
    BY <1>10 DEF IsRawString
  <2>2. /\ (d + e) - 1 = d + (e - 1) /\ d + 1 + 1 = d + 2 /\ e - 1 \in 1..Len(s) /\ e - 1 <= Len(s) + 1
        /\ 2 \in Nat \ {0} /\ e - 1 \in Int /\ 1 + 1 = 2
    BY <1>1
  <2>3. At(s, e - 1) = Quote
    BY <2>1, <2>2, AtInPart
  <2>4. IsRun(s, 2, {"#"}, e - 1)
    BY <2>1, <2>2, RunInPart, OutsideIsNoByte
  <2> QED BY <1>2, <1>10, <2>1, <2>2, <2>3, <2>4 DEF Shape, IsRawString
<1>11. CASE k = "InnerDocComment" /\ p = 10 /\ IsLine(t, d + 1, <<"/", "/", "!">>, d + e)
  <2>1. <<"/", "/", "!">> \in Openings \ {<<"/", "*">>}
    BY DEF Openings
  <2> QED BY <1>1, <1>11, <2>1, LineInPart DEF Shape
<1>12. CASE k = "OuterDocComment" /\ p = 10 /\ IsLine(t, d + 1, <<"/", "/", "/">>, d + e)
  <2>1. <<"/", "/", "/">> \in Openings \ {<<"/", "*">>}
    BY DEF Openings
  <2> QED BY <1>1, <1>12, <2>1, LineInPart DEF Shape
<1>13. CASE k = "LineComment" /\ p = 2 /\ IsLine(t, d + 1, <<"/", "/">>, d + e)
  <2>1. <<"/", "/">> \in Openings \ {<<"/", "*">>}
    BY DEF Openings
  <2> QED BY <1>1, <1>13, <2>1, LineInPart DEF Shape
<1>14. CASE k = "BlockComment" /\ p = 2 /\ Follows(t, d + 1, <<"/", "*">>) /\ d + e = d + 1 + 2
  <2>1. e = 1 + 2 /\ 2 <= Len(s)
    BY <1>1, <1>14
  <2>2. Len(<<"/", "*">>) = 2 /\ DOMAIN <<"/", "*">> = 1..2
    OBVIOUS
  <2>3. Follows(s, 1, <<"/", "*">>)
    BY <1>14, <2>1, <2>2, FollowsInPart
  <2> QED BY <1>14, <2>1, <2>3 DEF Shape
<1> QED BY <1>4, <1>5, <1>6, <1>7, <1>8, <1>9, <1>10, <1>11, <1>12, <1>13, <1>14 DEF Shape

(* What a part matches, the text matches at least as far.                     *)
Reaches(t, d, k, p, e) == \E f \in Nat : f >= d + e /\ Shape(t, d + 1, k, p, f)

LEMMA FollowsOfPart ==
  ASSUME NEW t \in Text, NEW s \in Text, NEW d, PartOf(s, t, d), NEW w,
         w \in Openings \/ w \in Keywords \cup Symbols, Follows(s, 1, w)
  PROVE  Follows(t, d + 1, w) /\ Len(w) \in Nat
<1>1. Len(w) \in Nat \ {0} /\ DOMAIN w = 1..Len(w) /\ w[Len(w)] # Outside
  <2>1. CASE w \in Openings
    BY <2>1, OpeningsAreWords
  <2>2. CASE w \in Keywords \cup Symbols
    <3>1. Len(w) \in Nat \ {0} /\ DOMAIN w = 1..Len(w)
          /\ \A n \in 1..Len(w) : w[n] \in Letters \cup Marks
      BY <2>2, WordIs
    <3>2. w[Len(w)] \in Letters \cup Marks
      BY <3>1
    <3>3. Outside \notin Letters /\ Outside \notin Marks
      BY OutsideIsNoByte DEF Marks, Outside, Semicolon, OpeningBrace
    <3> QED BY <3>1, <3>2, <3>3
  <2> QED BY <2>1, <2>2
<1>2. Len(w) <= Len(s)
  BY <1>1, FollowsFits
<1> QED BY <1>1, <1>2, FollowsInPart

LEMMA ShapeOfPart ==
  ASSUME NEW t \in Text, NEW s \in Text, NEW d, PartOf(s, t, d), Len(s) >= 1, NEW e \in Nat, NEW k, NEW p,
         Shape(s, 1, k, p, e)
  PROVE  Reaches(t, d, k, p, e)
<1>1. Len(s) \in Nat /\ d \in Nat /\ d + 1 \in 1..Len(t) /\ Len(t) \in Nat /\ d + e \in Nat /\ d + e >= d + e
  BY LengthIs DEF PartOf
<1>2. At(s, 1) = At(t, d + 1) /\ 1 \in Nat \ {0} /\ 1 \in 1..Len(s)
  BY <1>1, AtInPart
<1>3. \A S : Outside \notin S /\ IsRun(s, 1, S, e) => \E f \in Nat : f >= d + e /\ IsRun(t, d + 1, S, f)
  BY <1>1, <1>2, RunOfPart
<1>4. CASE k = "Fixed" /\ p = 2 /\ IsFixed(s, 1, e)
  <2>1. PICK w \in Keywords \cup Symbols : Follows(s, 1, w) /\ e = 1 + Len(w)
    BY <1>4 DEF IsFixed
  <2>2. Follows(t, d + 1, w) /\ Len(w) \in Nat
    BY <2>1, FollowsOfPart
  <2>3. d + e = d + 1 + Len(w)
    BY <1>1, <2>1, <2>2
  <2>4. IsFixed(t, d + 1, d + e)
    BY <2>2, <2>3 DEF IsFixed
  <2> QED BY <1>1, <1>4, <2>4 DEF Shape, Reaches
<1>5. CASE k = "Blank" /\ p = 1 /\ IsRun(s, 1, Blank, e)
  BY <1>3, <1>5, OutsideIsNoByte DEF Shape, Reaches
<1>6. CASE k = "Identifier" /\ p = 1 /\ At(s, 1) \notin Digits /\ IsRun(s, 1, NameBytes, e)
  BY <1>2, <1>3, <1>6, OutsideIsNoByte DEF Shape, Reaches
<1>7. CASE k = "Int" /\ p = 2 /\ IsInt(s, 1, e)
  <2>1. PICK r \in Radixes : /\ At(s, 1) = "0" /\ At(s, 1 + 1) \in r[1] /\ At(s, 1 + 2) \in r[2]
                             /\ IsRun(s, 1 + 2, r[2], e)
    BY <1>7 DEF IsInt
  <2>2. 1 + 1 = 2 /\ 1 + 2 = 3 /\ d + 1 + 1 = d + 2 /\ d + 1 + 2 = d + 3
    BY <1>1
  <2>3. 2 \in 1..Len(s) /\ 3 \in 1..Len(s)
    <3>1. At(s, 2) # Outside /\ At(s, 3) # Outside
      BY <2>1, <2>2, RadixBytes
    <3> QED BY <3>1, AtIs
  <2>4. At(s, 2) = At(t, d + 2) /\ At(s, 3) = At(t, d + 3)
    BY <2>3, AtInPart
  <2>5. PICK f \in Nat : f >= d + e /\ IsRun(t, d + 3, r[2], f)
    <3>1. 3 \in Nat \ {0} /\ Outside \notin r[2] /\ e \in Int /\ IsRun(s, 3, r[2], e)
      BY <2>1, <2>2, RadixBytes
    <3> QED BY <3>1, RunOfPart
  <2>6. IsInt(t, d + 1, f)
    BY <1>2, <2>1, <2>2, <2>4, <2>5 DEF IsInt
  <2> QED BY <1>7, <2>5, <2>6 DEF Shape, Reaches
<1>8. CASE k = "Decimal" /\ p = 2 /\ At(s, 1) \in Digits /\ IsRun(s, 1, NumberBytes, e)
  BY <1>2, <1>3, <1>8, OutsideIsNoByte DEF Shape, Reaches
<1>9. CASE k = "String" /\ p = 2 /\ At(s, 1) = Quote /\ e = 1 + 1
  <2>1. d + e = d + 1 + 1
    BY <1>1, <1>9
  <2> QED BY <1>1, <1>2, <1>9, <2>1 DEF Shape, Reaches
<1>10. CASE k = "RawString" /\ p = 2 /\ IsRawString(s, 1, e)
  <2>1. At(s, 1) = "r" /\ At(s, e - 1) = Quote /\ IsRun(s, 1 + 1, {"#"}, e - 1)
    BY <1>10 DEF IsRawString
  <2>2. e - 1 \in 1..Len(s) /\ 1 + 1 = 2 /\ d + 1 + 1 = d + 2
    <3>1. At(s, e - 1) # Outside
      BY <2>1 DEF Quote, Outside
    <3> QED BY <1>1, <3>1, AtIs
  <2>3. At(t, d + (e - 1)) = Quote /\ d + (e - 1) = (d + e) - 1
    <3>1. At(t, d + (e - 1)) = Quote
      BY <2>1, <2>2, AtInPart
    <3> QED BY <1>1, <3>1
  <2>4. IsRun(t, d + 2, {"#"}, d + (e - 1))
    <3>1. 2 \in Nat \ {0} /\ e - 1 \in Int /\ e - 1 <= Len(s) /\ Outside \notin {"#"} /\ IsRun(s, 2, {"#"}, e - 1)
      BY <1>1, <2>1, <2>2, OutsideIsNoByte
    <3> QED BY <3>1, RunOfPart
  <2>5. IsRawString(t, d + 1, d + e)
    BY <1>2, <2>1, <2>2, <2>3, <2>4 DEF IsRawString
  <2> QED BY <1>1, <1>10, <2>5 DEF Shape, Reaches
<1>11. ASSUME NEW w \in Openings, IsLine(s, 1, w, e)
       PROVE  \E f \in Nat : f >= d + e /\ IsLine(t, d + 1, w, f)
  <2>1. Follows(t, d + 1, w)
    BY <1>11, FollowsOfPart DEF IsLine
  <2>2. \E f \in Nat : f >= d + e /\ IsRun(t, d + 1, LineBytes, f)
    BY <1>3, <1>11, OutsideIsNoByte DEF IsLine
  <2> QED BY <2>1, <2>2 DEF IsLine
<1>12. {<<"/", "/", "!">>, <<"/", "/", "/">>, <<"/", "/">>, <<"/", "*">>} \subseteq Openings
  BY DEF Openings
<1>13. CASE k = "InnerDocComment" /\ p = 10 /\ IsLine(s, 1, <<"/", "/", "!">>, e)
  BY <1>11, <1>12, <1>13 DEF Shape, Reaches
<1>14. CASE k = "OuterDocComment" /\ p = 10 /\ IsLine(s, 1, <<"/", "/", "/">>, e)
  BY <1>11, <1>12, <1>14 DEF Shape, Reaches
<1>15. CASE k = "LineComment" /\ p = 2 /\ IsLine(s, 1, <<"/", "/">>, e)
  BY <1>11, <1>12, <1>15 DEF Shape, Reaches
<1>16. CASE k = "BlockComment" /\ p = 2 /\ Follows(s, 1, <<"/", "*">>) /\ e = 1 + 2
  <2>1. Follows(t, d + 1, <<"/", "*">>)
    BY <1>12, <1>16, FollowsOfPart
  <2>2. d + e = d + 1 + 2
    BY <1>1, <1>16
  <2> QED BY <1>1, <1>16, <2>1, <2>2 DEF Shape, Reaches
<1> QED BY <1>4, <1>5, <1>6, <1>7, <1>8, <1>9, <1>10, <1>13, <1>14, <1>15, <1>16 DEF Shape

(* Between two places that cut no character, a text is well-formed.           *)
LEMMA PartsAreWellFormed ==
  ASSUME NEW t \in Text, WellFormed(t), NEW s \in Text, NEW d, PartOf(s, t, d), Len(s) >= 1,
         Boundary(t, d + 1), Boundary(t, d + Len(s) + 1)
  PROVE  WellFormed(s)
<1>1. Len(s) \in Nat /\ d \in Nat /\ Len(t) \in Nat /\ 1 \in 1..Len(s) /\ DOMAIN s = 1..Len(s)
      /\ DOMAIN t = 1..Len(t)
  BY LengthIs DEF PartOf
<1>2. At(s, 1) # Continuation
  BY <1>1, AtInPart DEF Boundary
<1>3. ASSUME NEW i \in 1..Len(s) PROVE s[i] = Lead <=> At(s, i + 1) = Continuation
  <2>1. s[i] = t[d + i] /\ d + i \in 1..Len(t) /\ d + i + 1 = d + (i + 1)
    BY <1>1 DEF PartOf
  <2>2. t[d + i] = Lead <=> At(t, d + i + 1) = Continuation
    BY <1>1, <2>1 DEF WellFormed
  <2>3. CASE i = Len(s)
    <3>1. At(s, i + 1) = Outside /\ Outside # Continuation
      BY <1>1, <2>3, AtIs, WideIsElsewhere
    <3>2. At(t, d + i + 1) # Continuation
      BY <2>3 DEF Boundary
    <3> QED BY <2>1, <2>2, <3>1, <3>2
  <2>4. CASE i # Len(s)
    <3>1. i + 1 \in 1..Len(s)
      <4>1. Len(s) \in Nat
        BY <1>1
      <4> HIDE <1>1, <1>2
      <4> QED BY <2>4, <4>1
    <3>2. At(s, i + 1) = At(t, d + (i + 1))
      BY <3>1, AtInPart
    <3> QED BY <2>1, <2>2, <3>2
  <2> QED BY <2>3, <2>4
<1> QED BY <1>1, <1>2, <1>3 DEF WellFormed, Text

LEMMA LongestInPart ==
  ASSUME NEW t \in Text, WellFormed(t), NEW s \in Text, WellFormed(s), NEW d, PartOf(s, t, d), Len(s) >= 1,
         Candidates(t, d + 1) # {}, NEW m, m = Longest(t, d + 1), m.end <= d + Len(s) + 1
  PROVE  /\ Candidates(s, 1) # {}
         /\ Longest(s, 1).kind = m.kind /\ Longest(s, 1).end = m.end - d
<1>1. Len(s) \in Nat /\ d \in Nat /\ Len(t) \in Nat /\ 1 \in 1..Len(s) /\ d + 1 \in 1..Len(t)
  BY LengthIs DEF PartOf
<1>2. m \in Candidates(t, d + 1) /\ Tops(m, Candidates(t, d + 1))
  BY <1>1, LongestIs
<1>3. m \in Entry /\ m.end > d + 1 /\ Shape(t, d + 1, m.kind, m.priority, m.end)
  BY <1>1, <1>2, CandidatesAre
<1> DEFINE e == m.end - d
           M == Found(m.kind, m.priority, e)
<1>4. m.end \in Nat /\ e \in 2..(Len(s) + 1) /\ d + e = m.end /\ e > 1 /\ e \in Nat
      /\ m.kind \in Kinds /\ m.priority \in {1, 2, 10}
  BY <1>1, <1>3 DEF Entry
<1> HIDE DEF e
<1>5. M \in Candidates(s, 1)
  <2>1. Shape(s, 1, m.kind, m.priority, e)
    BY <1>3, <1>4, ShapeInPart
  <2>2. M \in Entry /\ M.end = e /\ M.kind = m.kind /\ M.priority = m.priority
    BY <1>4 DEF Entry, Found
  <2> QED BY <1>1, <1>4, <2>1, <2>2, CandidatesAre
<1>6. ASSUME NEW o \in Candidates(s, 1)
      PROVE  o.end < e \/ (o.end = e /\ o.priority <= m.priority)
  <2>1. o \in Entry /\ o.end > 1 /\ Shape(s, 1, o.kind, o.priority, o.end)
    BY <1>1, CandidatesAre
  <2>2. o.end \in Nat /\ o.kind \in Kinds /\ o.priority \in {1, 2, 10}
    BY <2>1 DEF Entry
  <2>3. PICK f \in Nat : f >= d + o.end /\ Shape(t, d + 1, o.kind, o.priority, f)
    <3>1. Reaches(t, d, o.kind, o.priority, o.end)
      BY <2>1, <2>2, ShapeOfPart
    <3> QED BY <3>1 DEF Reaches
  <2> DEFINE O == Found(o.kind, o.priority, f)
  <2>4. O \in Candidates(t, d + 1)
    <3>1. O \in Entry /\ O.end = f /\ O.kind = o.kind /\ O.priority = o.priority
      BY <2>2 DEF Entry, Found
    <3>2. f > d + 1
      BY <1>1, <2>1, <2>2, <2>3
    <3> QED BY <1>1, <2>3, <3>1, <3>2, CandidatesAre
  <2>5. f < m.end \/ (f = m.end /\ o.priority <= m.priority)
    <3>1. O.end = f /\ O.priority = o.priority
      BY DEF Found
    <3> QED BY <1>2, <2>4, <3>1 DEF Tops
  <2> QED BY <1>1, <1>4, <2>2, <2>3, <2>5
<1>7. Longest(s, 1) \in Candidates(s, 1) /\ Tops(Longest(s, 1), Candidates(s, 1))
  BY <1>1, <1>5, LongestIs
<1> DEFINE l == Longest(s, 1)
<1>8. /\ l.end < e \/ (l.end = e /\ l.priority <= m.priority)
      /\ e < l.end \/ (e = l.end /\ m.priority <= l.priority)
  <2>1. M.end = e /\ M.priority = m.priority
    BY DEF Found
  <2> HIDE DEF l, M
  <2> QED BY <1>5, <1>6, <1>7, <2>1 DEF Tops, l
<1>9. l \in Entry
  BY <1>1, <1>7, CandidatesAre
<1> HIDE DEF l
<1>10. l.end = e /\ l.priority = m.priority
  BY <1>4, <1>8, <1>9 DEF Entry
<1>11. l = M
  <2>1. M.end = e /\ M.priority = m.priority
    BY DEF Found
  <2> HIDE DEF M
  <2> QED BY <1>1, <1>5, <1>7, <1>10, <2>1, OneLongest DEF l
<1>12. M.kind = m.kind /\ M.end = e
  BY DEF Found
<1> QED BY <1>5, <1>11, <1>12 DEF l, e
-----------------------------------------------------------------------------
(* What the lexer finds at a place.                                           *)
Errors == {"InvalidToken", "UnterminatedString", "UnterminatedRawString", "UnterminatedBlockComment"}
ByHand == {"Decimal", "String", "RawString", "BlockComment"}

LEMMA OutcomesDiffer ==
  /\ \A x : Failed(x).error = x /\ Failed(x).kind = "none"
  /\ \A k, e : Done(k, e).error = "none" /\ Done(k, e).kind = k /\ Done(k, e).end = e
  /\ \A x, k, e : Done(k, e) = Failed(x) => k = "none" /\ x = "none"
  /\ "none" \notin Errors /\ "panicked" \notin Errors /\ "none" \notin Kinds
BY DEF Done, Failed, Errors, Kinds

LEMMA LexCases ==
  ASSUME NEW t \in Text, WellFormed(t), NEW i \in 1..Len(t), Candidates(t, i) # {}, NEW m, m = Longest(t, i)
  PROVE  /\ m.kind = "Decimal" => Lex(t, i) = lex_decimal_number(t, m.end)
         /\ m.kind = "String" => Lex(t, i) = lex_string(t, m.end)
         /\ m.kind = "RawString" => Lex(t, i) = lex_raw_string(t, i, m.end)
         /\ m.kind = "BlockComment" => Lex(t, i) = lex_block_comment(t, m.end)
         /\ m.kind \notin ByHand => Lex(t, i) = Done(m.kind, m.end)
         /\ m \in Candidates(t, i) /\ Tops(m, Candidates(t, i))
         /\ m.kind \in Kinds /\ m.kind # "Float" /\ m.end \in Nat
         /\ Shape(t, i, m.kind, m.priority, m.end)
         /\ m.end \in (i + 1)..(Len(t) + 1) /\ Boundary(t, m.end)
<1>1. m \in Candidates(t, i) /\ Tops(m, Candidates(t, i))
  BY LongestIs
<1>2. m \in Entry /\ Shape(t, i, m.kind, m.priority, m.end)
  BY <1>1, CandidatesAre
<1>3. m.end \in (i + 1)..(Len(t) + 1) /\ Boundary(t, m.end)
  BY <1>1, MatchesStayInside
<1>4. m.kind # "Float"
  BY <1>2 DEF Shape
<1>5. Lex(t, i) = CASE m.kind = "Decimal" -> lex_decimal_number(t, m.end)
                    [] m.kind = "String" -> lex_string(t, m.end)
                    [] m.kind = "RawString" -> lex_raw_string(t, i, m.end)
                    [] m.kind = "BlockComment" -> lex_block_comment(t, m.end)
                    [] OTHER -> Done(m.kind, m.end)
  BY DEF Lex
<1>6. m.kind \in Kinds /\ m.end \in Nat
  BY <1>2 DEF Entry
<1>7. /\ m.kind = "Decimal" => Lex(t, i) = lex_decimal_number(t, m.end)
      /\ m.kind = "String" => Lex(t, i) = lex_string(t, m.end)
      /\ m.kind = "RawString" => Lex(t, i) = lex_raw_string(t, i, m.end)
      /\ m.kind = "BlockComment" => Lex(t, i) = lex_block_comment(t, m.end)
  BY <1>5
<1>8. m.kind \notin ByHand => Lex(t, i) = Done(m.kind, m.end)
  BY <1>5 DEF ByHand
<1> QED BY <1>1, <1>2, <1>3, <1>4, <1>6, <1>7, <1>8

(* Each scan by hand ends no earlier than the match and after a narrow byte,  *)
(* or fails.                                                                  *)
EndsWell(t, i, j, found, kinds) ==
  \/ \E x \in Errors : found = Failed(x)
  \/ \E k \in kinds : \E e \in (i + 1)..(Len(t) + 1) : found = Done(k, e) /\ e >= j /\ Boundary(t, e)

LEMMA DecimalEndsWell ==
  ASSUME NEW t \in Text, WellFormed(t), NEW i \in 1..Len(t), NEW j \in (i + 1)..(Len(t) + 1),
         IsRun(t, i, NumberBytes, j)
  PROVE  EndsWell(t, i, j, lex_decimal_number(t, j), {"Int", "Float"})
<1>1. Len(t) \in Nat /\ j \in 2..(Len(t) + 1) /\ j \in 1..(Len(t) + 1) /\ j - 1 \in i..(j - 1)
  BY LengthIs
<1>2. t[j - 1] # Lead
  BY <1>1, WideIsElsewhere DEF IsRun
<1>3. PICK m \in Nat, e \in Nat :
        /\ IsNumber(t, j, m, e)
        /\ lex_decimal_number(t, j) = Done(IF Dot(t, j) \/ Exponent(t, m) THEN "Float" ELSE "Int", e)
  BY <1>1, lex_decimal_numberIs
<1>4. m \in j..(Len(t) + 1) /\ e \in m..(Len(t) + 1)
  BY <1>1, <1>3, NumberFacts
<1>5. e \in 2..(Len(t) + 1) /\ e \in (i + 1)..(Len(t) + 1) /\ e >= j
  BY <1>1, <1>4
<1>6. t[e - 1] # Lead
  BY <1>1, <1>2, <1>3, NumbersEndNarrow
<1>7. Boundary(t, e)
  BY <1>5, <1>6, AfterNarrow
<1> QED BY <1>3, <1>5, <1>7 DEF EndsWell

LEMMA StringEndsWell ==
  ASSUME NEW t \in Text, WellFormed(t), NEW i \in 1..Len(t), NEW j \in (i + 1)..(Len(t) + 1)
  PROVE  EndsWell(t, i, j, lex_string(t, j), {"String"})
<1>1. Len(t) \in Nat /\ j \in Nat
  BY LengthIs
<1>2. lex_string(t, j) = StringScan(t)[j] /\ StringScan(t)[j] \in StringEnds
  BY <1>1, lex_stringIs, StringScanIs
<1>3. CASE lex_string(t, j) = Failed("UnterminatedString")
  BY <1>3 DEF EndsWell, Errors
<1>4. CASE \E e \in Nat : lex_string(t, j) = Done("String", e)
  <2>1. PICK e \in Nat : lex_string(t, j) = Done("String", e)
    BY <1>4
  <2>2. e > j /\ e - 1 \in 1..Len(t) /\ t[e - 1] = Quote
    BY <1>1, <1>2, <2>1, StringEndsAfterQuote
  <2>3. e \in 2..(Len(t) + 1) /\ e \in (i + 1)..(Len(t) + 1) /\ e >= j
    BY <1>1, <2>2
  <2>4. Boundary(t, e)
    BY <2>2, <2>3, AfterNarrow, WideIsElsewhere
  <2> QED BY <2>1, <2>3, <2>4 DEF EndsWell
<1> QED BY <1>2, <1>3, <1>4 DEF StringEnds

LEMMA RawStringEndsWell ==
  ASSUME NEW t \in Text, WellFormed(t), NEW i \in 1..Len(t), NEW j \in (i + 1)..(Len(t) + 1),
         IsRawString(t, i, j)
  PROVE  /\ j \in (i + 2)..(Len(t) + 1)
         /\ EndsWell(t, i, j, lex_raw_string(t, i, j), {"RawString"})
<1>1. Len(t) \in Nat /\ j \in Nat /\ j \in (i + 2)..(Len(t) + 1)
  BY LengthIs DEF IsRawString, IsRun
<1>2. \/ lex_raw_string(t, i, j) = Failed("UnterminatedRawString")
      \/ \E e : lex_raw_string(t, i, j) = Done("RawString", e)
  BY DEF lex_raw_string
<1>3. CASE lex_raw_string(t, i, j) = Failed("UnterminatedRawString")
  BY <1>1, <1>3 DEF EndsWell, Errors
<1>4. CASE \E e : lex_raw_string(t, i, j) = Done("RawString", e)
  <2>1. PICK e : lex_raw_string(t, i, j) = Done("RawString", e)
    BY <1>4
  <2>2. e \in Nat /\ e > j /\ e \in 2..(Len(t) + 1) /\ t[e - 1] # Lead
    BY <1>1, <2>1, RawStringEnds
  <2>3. e \in (i + 1)..(Len(t) + 1) /\ e >= j
    BY <1>1, <2>2
  <2>4. Boundary(t, e)
    BY <2>2, AfterNarrow
  <2> QED BY <1>1, <2>1, <2>3, <2>4 DEF EndsWell
<1> QED BY <1>2, <1>3, <1>4

LEMMA CommentEndsWell ==
  ASSUME NEW t \in Text, WellFormed(t), NEW i \in 1..Len(t), NEW j \in (i + 1)..(Len(t) + 1)
  PROVE  EndsWell(t, i, j, lex_block_comment(t, j), {"BlockComment"})
<1>1. Len(t) \in Nat /\ j \in Nat /\ 1 \in Nat
  BY LengthIs
<1>2. lex_block_comment(t, j) = Comment(t, j, 1)
  BY lex_block_commentIs DEF Comment
<1>3. Ended(t, Comment(t, j, 1), j, 1)
  BY <1>1, CommentsEnd
<1>4. CASE lex_block_comment(t, j) = Failed("UnterminatedBlockComment")
  BY <1>4 DEF EndsWell, Errors
<1>5. CASE \E e \in Nat : /\ lex_block_comment(t, j) = Done("BlockComment", e)
                          /\ e >= j + 2 /\ e - 1 \in 1..Len(t) /\ t[e - 1] = "/"
  <2>1. PICK e \in Nat : /\ lex_block_comment(t, j) = Done("BlockComment", e)
                         /\ e >= j + 2 /\ e - 1 \in 1..Len(t) /\ t[e - 1] = "/"
    BY <1>5
  <2>2. e \in 2..(Len(t) + 1) /\ e \in (i + 1)..(Len(t) + 1) /\ e >= j
    BY <1>1, <2>1
  <2>3. Boundary(t, e)
    BY <2>1, <2>2, AfterNarrow, WideIsElsewhere
  <2> QED BY <2>1, <2>2, <2>3 DEF EndsWell
<1> QED BY <1>2, <1>3, <1>4, <1>5 DEF Ended, Unclosed

(* A match never panics: what the lexer finds is an error of the list, or a   *)
(* piece that is not empty, ends in the text and cuts no character.           *)
KindsFrom(kind) == IF kind = "Decimal" THEN {"Int", "Float"} ELSE {kind}

LEMMA LexIs ==
  ASSUME NEW t \in Text, WellFormed(t), NEW i \in 1..Len(t)
  PROVE  \/ \E x \in Errors : Lex(t, i) = Failed(x)
         \/ /\ Candidates(t, i) # {}
            /\ EndsWell(t, i, Longest(t, i).end, Lex(t, i), Kinds)
            /\ EndsWell(t, i, Longest(t, i).end, Lex(t, i), KindsFrom(Longest(t, i).kind))
<1>1. CASE Candidates(t, i) = {}
  BY <1>1 DEF Lex, Errors
<1>2. CASE Candidates(t, i) # {}
  <2> DEFINE m == Longest(t, i)
  <2> HIDE DEF m
  <2>1. /\ m.kind = "Decimal" => Lex(t, i) = lex_decimal_number(t, m.end)
        /\ m.kind = "String" => Lex(t, i) = lex_string(t, m.end)
        /\ m.kind = "RawString" => Lex(t, i) = lex_raw_string(t, i, m.end)
        /\ m.kind = "BlockComment" => Lex(t, i) = lex_block_comment(t, m.end)
        /\ m.kind \notin ByHand => Lex(t, i) = Done(m.kind, m.end)
    BY <1>2, LexCases DEF m
  <2>2. /\ m.kind \in Kinds /\ m.end \in Nat /\ Shape(t, i, m.kind, m.priority, m.end)
        /\ m.end \in (i + 1)..(Len(t) + 1) /\ Boundary(t, m.end)
    BY <1>2, LexCases DEF m
  <2> SUFFICES EndsWell(t, i, m.end, Lex(t, i), KindsFrom(m.kind))
    <3>1. KindsFrom(m.kind) \subseteq Kinds
      BY <2>2 DEF KindsFrom, Kinds
    <3>2. EndsWell(t, i, m.end, Lex(t, i), KindsFrom(m.kind)) => EndsWell(t, i, m.end, Lex(t, i), Kinds)
      BY <3>1 DEF EndsWell
    <3> QED BY <1>2, <3>2 DEF m
  <2>3. CASE m.kind = "Decimal"
    <3>1. IsRun(t, i, NumberBytes, m.end)
      BY <2>2, <2>3 DEF Shape
    <3>2. EndsWell(t, i, m.end, lex_decimal_number(t, m.end), {"Int", "Float"})
      BY <2>2, <3>1, DecimalEndsWell
    <3> QED BY <2>1, <2>3, <3>2 DEF KindsFrom
  <2>4. CASE m.kind = "String"
    <3>1. EndsWell(t, i, m.end, lex_string(t, m.end), {"String"})
      BY <2>2, StringEndsWell
    <3> QED BY <2>1, <2>4, <3>1 DEF KindsFrom
  <2>5. CASE m.kind = "RawString"
    <3>1. IsRawString(t, i, m.end)
      BY <2>2, <2>5 DEF Shape
    <3>2. EndsWell(t, i, m.end, lex_raw_string(t, i, m.end), {"RawString"})
      BY <2>2, <3>1, RawStringEndsWell
    <3> QED BY <2>1, <2>5, <3>2 DEF KindsFrom
  <2>6. CASE m.kind = "BlockComment"
    <3>1. EndsWell(t, i, m.end, lex_block_comment(t, m.end), {"BlockComment"})
      BY <2>2, CommentEndsWell
    <3> QED BY <2>1, <2>6, <3>1 DEF KindsFrom
  <2>7. CASE m.kind \notin ByHand
    <3>1. m.end >= m.end
      BY <2>2
    <3>2. EndsWell(t, i, m.end, Done(m.kind, m.end), {m.kind})
      BY <2>2, <3>1 DEF EndsWell
    <3>3. KindsFrom(m.kind) = {m.kind}
      BY <2>7 DEF KindsFrom, ByHand
    <3> QED BY <2>1, <2>7, <3>2, <3>3
  <2> QED BY <2>3, <2>4, <2>5, <2>6, <2>7 DEF ByHand
<1> QED BY <1>1, <1>2

LEMMA SliceIs ==
  ASSUME NEW t \in Text, NEW i \in 1..Len(t), NEW j \in (i + 1)..(Len(t) + 1)
  PROVE  /\ Slice(t, i, j) \in Text /\ Len(Slice(t, i, j)) = j - i
         /\ \A k \in 1..(j - i) : Slice(t, i, j)[k] = t[i + k - 1]
<1>1. Len(t) \in Nat /\ j - 1 \in Nat /\ j - 1 <= Len(t) /\ {j - 1, Len(t)} \in SUBSET Nat /\ i \in Nat
  BY LengthIs
<1>2. Min({j - 1, Len(t)}) = j - 1
  <2>1. Min({j - 1, Len(t)}) \in {j - 1, Len(t)} /\ \A n \in {j - 1, Len(t)} : Min({j - 1, Len(t)}) <= n
    BY <1>1, LeastOf
  <2> QED BY <1>1, <2>1
<1>3. Slice(t, i, j) = SubSeq(t, i, j - 1)
  BY <1>2 DEF Slice
<1> DEFINE s == SubSeq(t, i, j - 1)
<1>4. /\ s \in Seq(Bytes) /\ Len(s) = j - i
      /\ \A k \in 1..(j - i) : s[k] = t[i + k - 1]
  <2>1. t \in Seq(Bytes) /\ i \in 1..(Len(t) + 1) /\ j - 1 \in (i - 1)..Len(t)
    BY <1>1 DEF Text
  <2>2. s \in Seq(Bytes) /\ Len(s) = (j - 1) - i + 1 /\ \A k \in 1..((j - 1) - i + 1) : s[k] = t[i + k - 1]
    BY <1>1, <2>1
  <2>3. (j - 1) - i + 1 = j - i
    BY <1>1
  <2> HIDE DEF s
  <2> QED BY <2>2, <2>3
<1> QED BY <1>3, <1>4 DEF Text

Piece(t, d, e, s) ==
  /\ s \in Text /\ Len(s) \in Nat /\ Len(s) >= 1 /\ PartOf(s, t, d) /\ e = d + Len(s) + 1
  /\ \A k \in 1..Len(s) : s[k] = t[d + k]

LEMMA SliceIsPart ==
  ASSUME NEW t \in Text, NEW d \in Nat, d + 1 \in 1..Len(t), NEW e \in (d + 2)..(Len(t) + 1), NEW s, s = Slice(t, d + 1, e)
  PROVE  Piece(t, d, e, s)
<1>1. Len(t) \in Nat /\ e \in (d + 1 + 1)..(Len(t) + 1)
  BY LengthIs
<1>2. /\ s \in Text /\ Len(s) = e - (d + 1)
      /\ \A k \in 1..(e - (d + 1)) : s[k] = t[d + 1 + k - 1]
  BY <1>1, SliceIs
<1>3. Len(s) \in Nat /\ Len(s) >= 1 /\ e = d + Len(s) + 1
  BY <1>1, <1>2
<1>4. \A k \in 1..Len(s) : s[k] = t[d + k]
  BY <1>2, <1>3
<1> QED BY <1>1, <1>2, <1>3, <1>4 DEF PartOf, Piece

LEMMA LexInPart ==
  ASSUME NEW t \in Text, WellFormed(t), NEW d \in Nat, d + 1 \in 1..Len(t), Boundary(t, d + 1),
         NEW k \in Kinds, NEW e, Lex(t, d + 1) = Done(k, e), NEW s, s = Slice(t, d + 1, e)
  PROVE  Lex(s, 1) = Done(k, Len(s) + 1) /\ WellFormed(s) /\ Candidates(s, 1) # {}
<1> DEFINE m == Longest(t, d + 1)
           l == Longest(s, 1)
<1>1. Candidates(t, d + 1) # {} /\ EndsWell(t, d + 1, m.end, Lex(t, d + 1), Kinds)
  BY LexIs, OutcomesDiffer
<1>2. e \in (d + 2)..(Len(t) + 1) /\ e >= m.end /\ Boundary(t, e)
  <2> HIDE DEF m
  <2>1. \A x \in Errors : Lex(t, d + 1) # Failed(x)
    BY OutcomesDiffer
  <2>2. PICK f \in (d + 1 + 1)..(Len(t) + 1) : \E n \in Kinds : Done(k, e) = Done(n, f) /\ f >= m.end /\ Boundary(t, f)
    BY <1>1, <2>1 DEF EndsWell
  <2>3. f = e /\ f \in (d + 2)..(Len(t) + 1)
    BY <2>2, OutcomesDiffer
  <2> QED BY <2>2, <2>3
<1>3. /\ s \in Text /\ Len(s) \in Nat /\ Len(s) >= 1 /\ PartOf(s, t, d) /\ e = d + Len(s) + 1
  <2> HIDE DEF m, l
  <2>1. e \in (d + 2)..(Len(t) + 1)
    BY <1>2
  <2>2. Piece(t, d, e, s)
    BY <2>1, SliceIsPart
  <2> QED BY <2>2 DEF Piece
<1>4. WellFormed(s)
  BY <1>2, <1>3, PartsAreWellFormed
<1>5. Candidates(s, 1) # {} /\ l.kind = m.kind /\ l.end = m.end - d
  BY <1>1, <1>2, <1>3, <1>4, LongestInPart
<1>6. /\ m.kind = "Decimal" => Done(k, e) = lex_decimal_number(t, m.end)
      /\ m.kind = "String" => Done(k, e) = lex_string(t, m.end)
      /\ m.kind = "RawString" => Done(k, e) = lex_raw_string(t, d + 1, m.end)
      /\ m.kind = "BlockComment" => Done(k, e) = lex_block_comment(t, m.end)
      /\ m.kind \notin ByHand => Done(k, e) = Done(m.kind, m.end)
      /\ m.end \in Nat /\ m.end \in (d + 1 + 1)..(Len(t) + 1)
      /\ Shape(t, d + 1, m.kind, m.priority, m.end)
  BY <1>1, LexCases
<1>7. 1 \in 1..Len(s)
  BY <1>3
<1>8. /\ l.kind = "Decimal" => Lex(s, 1) = lex_decimal_number(s, l.end)
      /\ l.kind = "String" => Lex(s, 1) = lex_string(s, l.end)
      /\ l.kind = "RawString" => Lex(s, 1) = lex_raw_string(s, 1, l.end)
      /\ l.kind = "BlockComment" => Lex(s, 1) = lex_block_comment(s, l.end)
      /\ l.kind \notin ByHand => Lex(s, 1) = Done(l.kind, l.end)
      /\ l.end \in Nat /\ l.end \in (1 + 1)..(Len(s) + 1)
      /\ Shape(s, 1, l.kind, l.priority, l.end)
  BY <1>3, <1>4, <1>5, <1>7, LexCases
<1> DEFINE j == l.end
<1>9. m.end = d + j /\ j \in 1..(Len(s) + 1) /\ j \in Nat \ {0} /\ j \in Nat
  <2>1. m.end \in Nat /\ j \in Nat /\ j \in 2..(Len(s) + 1) /\ j = m.end - d
    BY <1>5, <1>6, <1>8
  <2>2. d \in Nat
    BY <1>3
  <2> HIDE DEF m, l, j
  <2> QED BY ONLY <1>3, <2>1, <2>2
<1> HIDE DEF m, l, j
<1>10. CASE m.kind = "Decimal"
  <2>1. lex_decimal_number(t, d + j) = Done(k, d + Len(s) + 1)
    BY <1>3, <1>6, <1>9, <1>10
  <2>2. lex_decimal_number(s, j) = Done(k, Len(s) + 1)
    <3>1. s \in Text /\ PartOf(s, t, d) /\ j \in 1..(Len(s) + 1)
      BY <1>3, <1>9
    <3>2. WholeDecimal(t, s, d, j, k)
      BY <3>1, DecimalInPart
    <3> QED BY <2>1, <3>2 DEF WholeDecimal
  <2> QED BY <1>4, <1>5, <1>8, <1>10, <2>2 DEF j
<1>11. CASE m.kind = "String"
  <2>1. StringScan(t)[d + j] = Done(k, d + Len(s) + 1)
    BY <1>3, <1>6, <1>9, <1>11, lex_stringIs
  <2>2. k = "String"
    <3>1. StringScan(t)[d + j] \in StringEnds
      <4>1. d + j \in Nat
        BY <1>9
      <4> QED BY <4>1, StringScanIs
    <3>2. Done(k, d + Len(s) + 1) # Failed("UnterminatedString")
      BY OutcomesDiffer
    <3>3. PICK f \in Nat : Done(k, d + Len(s) + 1) = Done("String", f)
      BY <2>1, <3>1, <3>2 DEF StringEnds
    <3> QED BY <3>3, OutcomesDiffer
  <2>3. StringScan(s)[j] = Done("String", Len(s) + 1)
    BY <1>3, <1>9, <2>1, <2>2, StringInPart
  <2> QED BY <1>4, <1>5, <1>8, <1>11, <2>2, <2>3, lex_stringIs DEF j
<1>12. CASE m.kind = "RawString"
  <2>1. lex_raw_string(t, d + 1, d + j) = Done(k, d + Len(s) + 1)
    BY <1>3, <1>6, <1>9, <1>12
  <2>2. k = "RawString"
    <3>1. \/ Done(k, d + Len(s) + 1) = Failed("UnterminatedRawString")
          \/ \E f : Done(k, d + Len(s) + 1) = Done("RawString", f)
      BY <2>1 DEF lex_raw_string
    <3> QED BY <3>1, OutcomesDiffer
  <2>3. IsRawString(t, d + 1, d + j) /\ IsRawString(s, 1, j)
    BY <1>5, <1>6, <1>8, <1>9, <1>12 DEF Shape, j
  <2>4. j \in (1 + 2)..(Len(s) + 1)
    BY <1>3, <1>7, <1>9, <2>3 DEF IsRawString, IsRun
  <2>5. lex_raw_string(s, 1, j) = Done("RawString", Len(s) + 1)
    BY <1>3, <1>7, <2>1, <2>2, <2>3, <2>4, RawStringInPart
  <2> QED BY <1>4, <1>5, <1>8, <1>12, <2>2, <2>5 DEF j
<1>13. CASE m.kind = "BlockComment"
  <2>1. Comment(t, d + j, 1) = Done(k, d + Len(s) + 1)
    BY <1>3, <1>6, <1>9, <1>13, lex_block_commentIs DEF Comment
  <2>2. k = "BlockComment"
    <3>1. Ended(t, Comment(t, d + j, 1), d + j, 1)
      <4>1. d + j \in Nat /\ 1 \in Nat
        BY <1>9
      <4> QED BY <4>1, CommentsEnd
    <3>2. Comment(t, d + j, 1) # Unclosed
      BY <2>1, OutcomesDiffer DEF Unclosed
    <3>3. PICK f \in Nat : Done(k, d + Len(s) + 1) = Done("BlockComment", f)
      BY <2>1, <3>1, <3>2 DEF Ended
    <3> QED BY <3>3, OutcomesDiffer
  <2>3. Whole(s, d, Comment(t, d + j, 1), Comment(s, j, 1))
    BY <1>3, <1>9, CommentInPart
  <2>4. Comment(s, j, 1) = Done("BlockComment", Len(s) + 1)
    BY <2>1, <2>2, <2>3 DEF Whole
  <2> QED BY <1>4, <1>5, <1>8, <1>13, <2>2, <2>4, lex_block_commentIs DEF j, Comment
<1>14. CASE m.kind \notin ByHand
  <2>1. k = m.kind /\ m.end = d + Len(s) + 1
    BY <1>3, <1>6, <1>14, OutcomesDiffer
  <2>2. j = Len(s) + 1
    BY <1>3, <1>9, <2>1
  <2> QED BY <1>4, <1>5, <1>8, <1>14, <2>1, <2>2 DEF j
<1> QED BY <1>10, <1>11, <1>12, <1>13, <1>14 DEF ByHand
-----------------------------------------------------------------------------
(* The specification.                                                         *)
LEMMA LexDone ==
  ASSUME NEW t \in Text, WellFormed(t), NEW i \in 1..Len(t), NEW k, k # "none", NEW e, Lex(t, i) = Done(k, e)
  PROVE  /\ k \in Kinds /\ e \in (i + 1)..(Len(t) + 1) /\ Boundary(t, e)
         /\ Candidates(t, i) # {} /\ e >= Longest(t, i).end
         /\ k \in KindsFrom(Longest(t, i).kind)
<1> DEFINE m == Longest(t, i)
<1>1. /\ Candidates(t, i) # {}
      /\ EndsWell(t, i, m.end, Done(k, e), Kinds)
      /\ EndsWell(t, i, m.end, Done(k, e), KindsFrom(m.kind))
  BY LexIs, OutcomesDiffer
<1>2. \A kinds : EndsWell(t, i, m.end, Done(k, e), kinds) =>
                   k \in kinds /\ e \in (i + 1)..(Len(t) + 1) /\ e >= m.end /\ Boundary(t, e)
  <2> HIDE DEF m
  <2> QED BY OutcomesDiffer DEF EndsWell
<1> QED BY <1>1, <1>2

Piecewise(t, p) ==
  /\ p.from \in 1..Len(t) /\ Boundary(t, p.from) /\ p.kind \in Kinds
  /\ Lex(t, p.from) = Done(p.kind, p.to)
PieceRecords == [kind : Kinds, from : Nat, to : Nat]

LexInv ==
  /\ text \in Text /\ WellFormed(text)
  /\ place \in 1..(Len(text) + 1) /\ Boundary(text, place)
  /\ pieces \in Seq(PieceRecords)
  /\ \A n \in 1..Len(pieces) : Piecewise(text, pieces[n])
  /\ \A n \in 1..Len(pieces) : pieces[n].from = IF n = 1 THEN 1 ELSE pieces[n - 1].to
  /\ place = IF Len(pieces) = 0 THEN 1 ELSE pieces[Len(pieces)].to
  /\ error \in Errors \cup {"none"}
  /\ error # "none" => place \in 1..Len(text) /\ Lex(text, place) = Failed(error)

LEMMA LexInvHolds ==
  Spec => []LexInv
<1>1. Init => LexInv
  <2> SUFFICES ASSUME Init PROVE LexInv
    OBVIOUS
  <2>1. text \in Text /\ WellFormed(text)
    BY TextsAssumption DEF Init, LexInit, WellFormed, Text
  <2>2. place = 1 /\ pieces = <<>> /\ error = "none"
    BY DEF Init, LexInit
  <2>3. 1 \in 1..(Len(text) + 1) /\ Len(text) \in Nat
    BY <2>1, LengthIs
  <2>4. Boundary(text, place)
    BY <2>1, <2>2, <2>3 DEF Boundary, WellFormed
  <2>5. pieces \in Seq(PieceRecords) /\ Len(pieces) = 0 /\ \A n \in 1..Len(pieces) : FALSE
    BY <2>2
  <2> QED BY <2>1, <2>2, <2>3, <2>4, <2>5 DEF LexInv
<1>2. LexInv /\ [Next]_vars => LexInv'
  <2> SUFFICES ASSUME LexInv, [Next]_vars PROVE LexInv'
    OBVIOUS
  <2> USE DEF LexInv
  <2>1. CASE UNCHANGED <<text, place, pieces, error>>
    BY <2>1
  <2>2. CASE LexNext
    <3> DEFINE found == Lex(text, place)
    <3>1. error = "none" /\ place \in 1..Len(text) /\ Len(text) \in Nat /\ text' = text
      <4>1. error = "none" /\ ~(place > Len(text)) /\ text' = text
        BY <2>2 DEF LexNext, Lexed
      <4>2. Len(text) \in Nat
        BY LengthIs
      <4> QED BY <4>1, <4>2
    <3>2. \/ /\ found.error # "none" /\ error' = found.error /\ UNCHANGED <<place, pieces>>
          \/ /\ found.error = "none" /\ ~Boundary(text, found.end)
          \/ /\ found.error = "none" /\ Boundary(text, found.end)
             /\ pieces' = Append(pieces, [kind |-> found.kind, from |-> place, to |-> found.end])
             /\ place' = found.end /\ UNCHANGED error
      BY <2>2 DEF LexNext
    <3>3. \/ \E x \in Errors : found = Failed(x)
          \/ \E k \in Kinds : \E e \in (place + 1)..(Len(text) + 1) : found = Done(k, e) /\ Boundary(text, e)
      BY <3>1, LexIs DEF EndsWell
    <3> HIDE DEF found
    <3>4. CASE \E x \in Errors : found = Failed(x)
      <4>1. PICK x \in Errors : found = Failed(x)
        BY <3>4
      <4>2. found.error = x /\ x # "none"
        BY <4>1, OutcomesDiffer
      <4>3. error' = x /\ UNCHANGED <<place, pieces>>
        BY <3>2, <4>2
      <4> QED BY <3>1, <4>1, <4>3 DEF found
    <3>5. CASE \E k \in Kinds : \E e \in (place + 1)..(Len(text) + 1) : found = Done(k, e) /\ Boundary(text, e)
      <4>1. PICK k \in Kinds, e \in (place + 1)..(Len(text) + 1) : found = Done(k, e) /\ Boundary(text, e)
        BY <3>5
      <4>2. found.error = "none" /\ found.kind = k /\ found.end = e
        BY <4>1, OutcomesDiffer
      <4> DEFINE p == [kind |-> k, from |-> place, to |-> e]
      <4>3. pieces' = Append(pieces, p) /\ place' = e /\ error' = "none"
        BY <3>1, <3>2, <4>1, <4>2
      <4>4. p \in PieceRecords /\ Piecewise(text, p) /\ e \in 1..(Len(text) + 1) /\ p.to = e /\ p.from = place
        <5>1. e \in 1..(Len(text) + 1) /\ place \in Nat
          BY <3>1
        <5> QED BY <3>1, <4>1, <5>1 DEF PieceRecords, Piecewise, found
      <4> HIDE DEF p
      <4> DEFINE n == Len(pieces)
      <4>5. /\ n \in Nat /\ Len(pieces') = n + 1 /\ pieces' \in Seq(PieceRecords)
            /\ pieces'[n + 1] = p /\ \A l \in 1..n : pieces'[l] = pieces[l]
        BY <4>3, <4>4
      <4>6. (\A l \in 1..n : Piecewise(text, pieces[l])) /\ place = IF n = 0 THEN 1 ELSE pieces[n].to
        OBVIOUS
      <4>7. \A l \in 1..n : pieces[l].from = IF l = 1 THEN 1 ELSE pieces[l - 1].to
        OBVIOUS
      <4> HIDE DEF n
      <4>8. \A l \in 1..(n + 1) : Piecewise(text, pieces'[l])
        BY <4>4, <4>5, <4>6
      <4>9. \A l \in 1..(n + 1) : pieces'[l].from = IF l = 1 THEN 1 ELSE pieces'[l - 1].to
        <5> SUFFICES ASSUME NEW l \in 1..(n + 1)
                     PROVE  pieces'[l].from = IF l = 1 THEN 1 ELSE pieces'[l - 1].to
          OBVIOUS
        <5>1. CASE l = n + 1
          <6>1. l - 1 = n /\ (l = 1 <=> n = 0) /\ (n # 0 => n \in 1..n)
            <7>1. n \in Nat
              BY <4>5
            <7> QED BY <5>1, <7>1
          <6> QED BY <4>4, <4>5, <4>6, <5>1, <6>1
        <5>2. CASE l # n + 1
          <6>1. l \in 1..n /\ (l # 1 => l - 1 \in 1..n)
            BY <4>5, <5>2
          <6> QED BY <4>5, <4>7, <6>1
        <5> QED BY <5>1, <5>2
      <4>10. place' = IF n + 1 = 0 THEN 1 ELSE pieces'[n + 1].to
        <5>1. n + 1 # 0
          BY <4>5
        <5> QED BY <4>3, <4>4, <4>5, <5>1
      <4>11. text' \in Text /\ WellFormed(text') /\ place' \in 1..(Len(text') + 1) /\ Boundary(text', place')
        BY <3>1, <4>1, <4>3, <4>4
      <4>12. /\ \A l \in 1..Len(pieces') : Piecewise(text', pieces'[l])
             /\ \A l \in 1..Len(pieces') : pieces'[l].from = IF l = 1 THEN 1 ELSE pieces'[l - 1].to
             /\ place' = IF Len(pieces') = 0 THEN 1 ELSE pieces'[Len(pieces')].to
        BY <3>1, <4>5, <4>8, <4>9, <4>10
      <4> QED BY <4>3, <4>5, <4>11, <4>12
    <3> QED BY <3>3, <3>4, <3>5
  <2>3. CASE Match
    BY <2>2, <2>3 DEF Match
  <2>4. CASE Take
    <3>1. UNCHANGED <<text, place, pieces, error>>
      BY <2>4, Zenon DEF Take
    <3> QED BY <2>1, <3>1
  <2>5. CASE UNCHANGED vars
    BY <2>1, <2>5 DEF vars
  <2> QED BY <2>3, <2>4, <2>5 DEF Next
<1> QED BY <1>1, <1>2, PTL DEF Spec

(* What the invariant says of a piece.                                        *)
LEMMA PiecesAre ==
  ASSUME NEW t \in Text, WellFormed(t), NEW p, Piecewise(t, p)
  PROVE  /\ p.to \in (p.from + 1)..(Len(t) + 1) /\ p.from \in 1..Len(t) /\ Len(t) \in Nat
         /\ p.from < p.to /\ Boundary(t, p.to)
         /\ Candidates(t, p.from) # {} /\ p.to >= Longest(t, p.from).end
         /\ p.kind \in KindsFrom(Longest(t, p.from).kind) /\ p.kind # "none"
<1>1. p.kind \in Kinds /\ p.kind # "none" /\ p.from \in 1..Len(t) /\ Lex(t, p.from) = Done(p.kind, p.to)
  BY OutcomesDiffer DEF Piecewise
<1>2. /\ p.to \in (p.from + 1)..(Len(t) + 1) /\ Boundary(t, p.to)
      /\ Candidates(t, p.from) # {} /\ p.to >= Longest(t, p.from).end
      /\ p.kind \in KindsFrom(Longest(t, p.from).kind)
  BY <1>1, LexDone
<1>3. Len(t) \in Nat /\ p.from < p.to
  BY <1>1, <1>2, LengthIs
<1> QED BY <1>1, <1>2, <1>3

LEMMA PiecesStandAlone ==
  ASSUME NEW t \in Text, WellFormed(t), NEW p, Piecewise(t, p), NEW s, s = Slice(t, p.from, p.to)
  PROVE  /\ Lex(s, 1) = Done(p.kind, Len(s) + 1) /\ WellFormed(s) /\ Candidates(s, 1) # {}
         /\ Piece(t, p.from - 1, p.to, s)
<1> DEFINE d == p.from - 1
<1>1. d \in Nat /\ d + 1 = p.from /\ p.to \in (d + 2)..(Len(t) + 1) /\ d + 1 \in 1..Len(t)
  BY PiecesAre
<1> HIDE DEF d
<1>2. p.kind \in Kinds /\ Lex(t, d + 1) = Done(p.kind, p.to) /\ Boundary(t, d + 1) /\ s = Slice(t, d + 1, p.to)
  BY <1>1 DEF Piecewise
<1>3. Lex(s, 1) = Done(p.kind, Len(s) + 1) /\ WellFormed(s) /\ Candidates(s, 1) # {}
  BY <1>1, <1>2, LexInPart
<1>4. Piece(t, d, p.to, s)
  BY <1>1, <1>2, SliceIsPart
<1> QED BY <1>3, <1>4 DEF d

(* The last piece.                                                            *)
LEMMA LatestIs ==
  ASSUME LexInv, pieces # <<>>
  PROVE  /\ Len(pieces) \in Nat \ {0} /\ Latest = pieces[Len(pieces)]
         /\ Piecewise(text, Latest) /\ place = Latest.to /\ text \in Text /\ WellFormed(text)
         /\ TextOf(Latest) = Slice(text, Latest.from, Latest.to)
<1>1. Len(pieces) \in Nat /\ Len(pieces) # 0
  <2>1. pieces \in Seq(PieceRecords)
    BY DEF LexInv
  <2> QED BY <2>1
<1>2. Len(pieces) \in 1..Len(pieces)
  BY <1>1
<1> QED BY <1>1, <1>2 DEF LexInv, Latest, TextOf

LEMMA NothingIsLost == LexInv => NothingLost
<1> SUFFICES ASSUME LexInv PROVE NothingLost
  OBVIOUS
<1>1. error # "panicked"
  <2>1. "panicked" # "none"
    OBVIOUS
  <2> QED BY <2>1, OutcomesDiffer DEF LexInv
<1>2. Len(pieces) \in Nat /\ DOMAIN pieces = 1..Len(pieces) /\ (pieces = <<>> <=> Len(pieces) = 0)
  <2>1. pieces \in Seq(PieceRecords)
    BY DEF LexInv
  <2> QED BY <2>1
<1>3. ASSUME NEW n \in 1..Len(pieces)
      PROVE  /\ pieces[n].from = (IF n = 1 THEN 1 ELSE pieces[n - 1].to)
             /\ pieces[n].from < pieces[n].to /\ Boundary(text, pieces[n].to)
  <2>1. /\ pieces[n].from = (IF n = 1 THEN 1 ELSE pieces[n - 1].to)
        /\ Piecewise(text, pieces[n]) /\ text \in Text /\ WellFormed(text)
    BY DEF LexInv
  <2> QED BY <2>1, PiecesAre
<1>4. place = IF pieces = <<>> THEN 1 ELSE Latest.to
  <2>1. place = IF Len(pieces) = 0 THEN 1 ELSE pieces[Len(pieces)].to
    BY DEF LexInv
  <2> QED BY <1>2, <2>1 DEF Latest
<1> QED BY <1>1, <1>2, <1>3, <1>4 DEF NothingLost

LEMMA EachStandsAlone == LexInv => StandAlone
<1> SUFFICES ASSUME LexInv, pieces # <<>>
             PROVE  Lex(TextOf(Latest), 1) = Done(Latest.kind, Len(TextOf(Latest)) + 1)
  BY DEF StandAlone
<1> QED BY LatestIs, PiecesStandAlone

(* A word of the table, or a name, over two pieces would have been matched.   *)
LEMMA MatchedAtLeast ==
  ASSUME NEW t \in Text, WellFormed(t), NEW i \in 1..Len(t), NEW e \in (i + 1)..(Len(t) + 1),
         NEW k \in Kinds, NEW q \in {1, 2, 10}, NEW f \in Nat, f >= e, Shape(t, i, k, q, f)
  PROVE  Longest(t, i).end >= e
<1> DEFINE o == Found(k, q, f)
           m == Longest(t, i)
<1>1. o \in Entry /\ o.end = f /\ o.kind = k /\ o.priority = q
  BY DEF Entry, Found
<1>2. f > i /\ e \in Nat
  BY LengthIs
<1> HIDE DEF o
<1>3. o \in Candidates(t, i)
  BY <1>1, <1>2, CandidatesAre
<1>4. m \in Candidates(t, i) /\ Tops(m, Candidates(t, i))
  BY <1>3, LongestIs
<1>5. m.end \in Nat /\ (f < m.end \/ f = m.end)
  <2>1. m \in Entry
    BY <1>4, CandidatesAre
  <2>2. o.end < m.end \/ o.end = m.end
    BY <1>3, <1>4 DEF Tops
  <2> HIDE DEF m
  <2> QED BY <1>1, <2>1, <2>2 DEF Entry
<1> HIDE DEF m
<1>6. m.end >= e
  BY <1>2, <1>5
<1> QED BY <1>6 DEF m

LEMMA PairsAreNotOne ==
  ASSUME NEW t \in Text, WellFormed(t), NEW p, NEW q, Piecewise(t, p), Piecewise(t, q), q.from = p.to,
         NEW whole, whole = Slice(t, p.from, q.to)
  PROVE  /\ whole \notin Keywords \cup Symbols
         /\ ~(whole[1] \in Letters /\ \A i \in DOMAIN whole : whole[i] \in Letters \cup Digits \cup {Underscore})
<1> DEFINE d == p.from - 1
           e == q.to
<1>1. /\ p.to \in (p.from + 1)..(Len(t) + 1) /\ p.from \in 1..Len(t) /\ Len(t) \in Nat
      /\ q.to \in (p.to + 1)..(Len(t) + 1) /\ p.to >= Longest(t, p.from).end
      /\ Candidates(t, p.from) # {}
  BY PiecesAre
<1>2. d \in Nat /\ d + 1 = p.from /\ e \in (d + 2)..(Len(t) + 1) /\ d + 1 \in 1..Len(t) /\ e \in Nat
      /\ e \in (p.from + 1)..(Len(t) + 1)
  <2>1. p.from \in Nat /\ p.to \in Nat /\ q.to \in Nat /\ p.to > p.from /\ q.to > p.to /\ q.to <= Len(t) + 1
    BY <1>1
  <2>2. d \in Nat /\ d + 1 = p.from /\ d + 1 \in 1..Len(t)
    BY ONLY <1>1, <2>1
  <2>3. e \in (p.from + 1)..(Len(t) + 1) /\ e \in Nat
    BY ONLY <1>1, <2>1
  <2> HIDE DEF d, e
  <2> QED BY ONLY <1>1, <2>1, <2>2, <2>3
<1> HIDE DEF d, e
<1>3. Piece(t, d, e, whole)
  BY <1>2, SliceIsPart DEF e
<1>4. /\ whole \in Text /\ Len(whole) \in Nat /\ Len(whole) >= 1 /\ PartOf(whole, t, d) /\ e = d + Len(whole) + 1
      /\ \A k \in 1..Len(whole) : whole[k] = t[d + k]
  BY <1>3 DEF Piece
<1>5. ~(Longest(t, p.from).end >= e)
  <2>1. Longest(t, p.from).end \in Nat
    <3>1. Longest(t, p.from) \in Candidates(t, p.from)
      BY <1>1, LongestIs
    <3>2. Longest(t, p.from) \in Entry
      BY <1>1, <3>1, CandidatesAre
    <3> QED BY <3>2 DEF Entry
  <2>2. e > p.to /\ p.to \in Nat
    BY <1>1 DEF e
  <2> QED BY <1>1, <1>2, <2>1, <2>2
<1>6. ASSUME whole \in Keywords \cup Symbols PROVE FALSE
  <2>1. Len(whole) \in Nat /\ DOMAIN whole = 1..Len(whole) /\ Len(whole) <= Len(whole)
    BY <1>4, <1>6, WordIs
  <2>2. Follows(whole, 1, whole)
    <3>1. \A n \in 1..Len(whole) : At(whole, n) = whole[n] /\ 1 + n - 1 = n
      BY <1>4, AtIs
    <3> QED BY <2>1, <3>1 DEF Follows
  <2>3. Follows(t, d + 1, whole)
    BY <1>4, <2>1, <2>2, FollowsInPart
  <2>4. e = d + 1 + Len(whole) /\ e >= e
    BY <1>2, <1>4
  <2>5. Shape(t, p.from, "Fixed", 2, e)
    BY <1>2, <1>6, <2>3, <2>4 DEF Shape, IsFixed
  <2>6. "Fixed" \in Kinds /\ 2 \in {1, 2, 10}
    BY DEF Kinds
  <2> QED BY <1>1, <1>2, <1>5, <2>4, <2>5, <2>6, MatchedAtLeast
<1>7. ASSUME whole[1] \in Letters, \A i \in DOMAIN whole : whole[i] \in NameBytes PROVE FALSE
  <2>1. p.from \in 1..(Len(t) + 1) /\ Outside \notin NameBytes
    BY <1>1, OutsideIsNoByte
  <2> DEFINE f == RunEnd(t, p.from, NameBytes)
  <2>2. IsRun(t, p.from, NameBytes, f)
    BY <2>1, RunEndIs
  <2> HIDE DEF f
  <2>3. f \in Nat /\ f >= p.from /\ At(t, f) \notin NameBytes
    BY <1>1, <2>2 DEF IsRun
  <2>4. f >= e
    <3> SUFFICES ASSUME ~(f >= e) PROVE FALSE
      OBVIOUS
    <3>1. f - d \in 1..Len(whole) /\ d + (f - d) = f
      BY <1>2, <1>4, <2>3
    <3>2. whole[f - d] \in NameBytes
      <4>1. DOMAIN whole = 1..Len(whole)
        BY <1>4, LengthIs
      <4> QED BY <1>7, <3>1, <4>1
    <3>3. At(t, f) = whole[f - d]
      <4>1. At(whole, f - d) = At(t, f) /\ At(whole, f - d) = whole[f - d]
        BY <1>4, <3>1, AtInPart, AtIs
      <4> QED BY <4>1
    <3> QED BY <2>3, <3>2, <3>3
  <2>5. At(t, p.from) \notin Digits
    <3>1. At(t, p.from) = whole[1]
      <4>1. 1 \in 1..Len(whole)
        BY <1>4
      <4>2. At(whole, 1) = At(t, d + 1) /\ At(whole, 1) = whole[1]
        BY <1>4, <4>1, AtInPart, AtIs
      <4> QED BY <1>2, <4>2
    <3>2. Letters \cap Digits = {}
      BY DEF Letters, LowerHex, UpperHex, Digits
    <3> QED BY <1>7, <3>1, <3>2
  <2>6. Shape(t, p.from, "Identifier", 1, f)
    BY <2>2, <2>5 DEF Shape
  <2>7. "Identifier" \in Kinds /\ 1 \in {1, 2, 10}
    BY DEF Kinds
  <2> QED BY <1>1, <1>2, <1>5, <2>3, <2>4, <2>6, <2>7, MatchedAtLeast
<1> QED BY <1>6, <1>7 DEF NameBytes

LEMMA TheLongestWins == LexInv => LongestWins
<1> SUFFICES ASSUME LexInv, NEW n \in 1..(Len(pieces) - 1), NEW whole,
                    whole = Slice(text, pieces[n].from, pieces[n + 1].to)
             PROVE  /\ whole \notin Keywords \cup Symbols
                    /\ ~(whole[1] \in Letters /\
                         \A i \in DOMAIN whole : whole[i] \in Letters \cup Digits \cup {Underscore})
  BY DEF LongestWins
<1>1. pieces \in Seq(PieceRecords)
  BY DEF LexInv
<1>2. n \in 1..Len(pieces) /\ n + 1 \in 1..Len(pieces) /\ n + 1 # 1 /\ (n + 1) - 1 = n
  <2>1. Len(pieces) \in Nat
    BY <1>1
  <2> QED BY <2>1
<1>3. /\ text \in Text /\ WellFormed(text) /\ Piecewise(text, pieces[n]) /\ Piecewise(text, pieces[n + 1])
      /\ pieces[n + 1].from = pieces[n].to
  BY <1>2 DEF LexInv
<1> QED BY <1>3, PairsAreNotOne

(* In a number a dot stands only where its digits end, and is not a range's.  *)
LEMMA DotsOfNumbers ==
  ASSUME NEW t \in Text, NEW i \in 1..Len(t), NEW j \in (i + 1)..(Len(t) + 1), IsRun(t, i, NumberBytes, j),
         NEW m \in Nat, NEW e \in Nat, IsNumber(t, j, m, e), NEW n \in i..(e - 1), t[n] = "."
  PROVE  /\ At(t, n + 1) \notin Letters \cup {".", Underscore} \/ n + 1 # e
         /\ n + 1 < e => t[n + 1] \in Digits \cup {Underscore, "e", "E"}
<1>1. /\ Len(t) \in Nat /\ j \in Nat /\ i \in Nat /\ j \in 1..(Len(t) + 1) /\ i < j
      /\ m \in j..(Len(t) + 1) /\ e \in m..(Len(t) + 1)
      /\ Dot(t, j) => j <= Len(t) /\ m > j
      /\ Exponent(t, m) => /\ m \in 1..Len(t) /\ Peek(t, m) \in (m + 1)..Len(t)
                           /\ Peek(t, m) \in {m + 1, m + 2} /\ e > Peek(t, m)
  <2>1. Len(t) \in Nat
    BY LengthIs
  <2>2. j \in 1..(Len(t) + 1) /\ j \in Nat /\ i \in Nat /\ i < j
    BY <2>1
  <2> QED BY <2>1, <2>2, NumberFacts
<1>2. n \in 1..Len(t) /\ n \in Nat /\ At(t, n) = "."
  <2>1. n \in 1..Len(t) /\ n \in Nat
    BY <1>1
  <2> QED BY <2>1, AtIs
<1>3. /\ "." \notin NumberBytes /\ "." \notin {"e", "E"} /\ "." \notin {"+", "-"}
  BY DEF NumberBytes, Digits, Underscore
<1>4. ASSUME ~(n = j /\ Dot(t, j)) PROVE FALSE
  <2>1. CASE n < j
    <3>1. n \in i..(j - 1)
      BY <1>1, <1>2, <2>1
    <3> QED BY <1>3, <3>1 DEF IsRun
  <2>2. CASE n >= j /\ n < m
    <3>1. Dot(t, j) /\ IsRun(t, j + 1, NumberBytes, m)
      BY <1>1, <1>2, <2>2 DEF IsNumber
    <3>2. n \in (j + 1)..(m - 1)
      BY <1>1, <1>2, <1>4, <2>2, <3>1
    <3> QED BY <1>3, <3>1, <3>2 DEF IsRun
  <2>3. CASE n >= m
    <3>1. Exponent(t, m) /\ IsRun(t, Peek(t, m), NumberBytes, e)
      BY <1>1, <1>2, <2>3 DEF IsNumber
    <3>2. n # m
      BY <1>2, <1>3, <3>1 DEF Exponent
    <3>3. CASE n >= Peek(t, m)
      <4>1. n \in Peek(t, m)..(e - 1)
        BY <1>1, <1>2, <3>1, <3>3
      <4> QED BY <1>3, <3>1, <4>1 DEF IsRun
    <3>4. CASE n < Peek(t, m)
      <4>1. n = m + 1 /\ Peek(t, m) = m + 2
        BY <1>1, <1>2, <2>3, <3>1, <3>2, <3>4
      <4>2. At(t, m + 1) \in {"+", "-"}
        <5>1. m + 1 # m + 2
          BY <1>1
        <5> QED BY <4>1, <5>1 DEF Peek
      <4> QED BY <1>2, <1>3, <4>1, <4>2
    <3> QED BY <1>1, <1>2, <3>1, <3>3, <3>4
  <2> QED BY <1>1, <1>2, <2>1, <2>2, <2>3
<1>5. n = j /\ Dot(t, j) /\ At(t, n + 1) \notin Letters \cup {".", Underscore}
  BY <1>4 DEF Dot
<1>6. ASSUME n + 1 < e PROVE t[n + 1] \in Digits \cup {Underscore, "e", "E"}
  <2>1. IsRun(t, j + 1, NumberBytes, m) /\ m >= n + 1
    BY <1>1, <1>2, <1>5 DEF IsNumber
  <2>2. CASE n + 1 < m
    <3>1. n + 1 \in (j + 1)..(m - 1)
      BY <1>1, <1>2, <1>5, <2>2
    <3> QED BY <2>1, <3>1 DEF IsRun, NumberBytes
  <2>3. CASE n + 1 = m
    <3>1. Exponent(t, m)
      BY <1>1, <1>6, <2>3 DEF IsNumber
    <3>2. t[m] = At(t, m)
      BY <1>1, <3>1, AtIs
    <3> QED BY <2>3, <3>1, <3>2 DEF Exponent
  <2> QED BY <1>1, <1>2, <2>1, <2>2, <2>3
<1> QED BY <1>5, <1>6

LEMMA RangesAreWhole == LexInv => RangesStayWhole
<1> SUFFICES ASSUME LexInv, pieces # <<>>, Latest.kind = "Float", NEW s, s = TextOf(Latest)
             PROVE  /\ s[Len(s)] = "." => At(text, Latest.to) \notin Letters \cup {".", Underscore}
                    /\ \A i \in 1..(Len(s) - 1) : s[i] = "." => s[i + 1] \in Digits \cup {Underscore, "e", "E"}
  BY DEF RangesStayWhole, Just
<1> DEFINE t == text
           p == Latest
           i == p.from
           d == i - 1
           l == Longest(t, i)
           j == l.end
<1>1. t \in Text /\ WellFormed(t) /\ Piecewise(t, p) /\ s = Slice(t, p.from, p.to)
  BY LatestIs
<1>2. /\ p.to \in (i + 1)..(Len(t) + 1) /\ i \in 1..Len(t) /\ Len(t) \in Nat
      /\ Candidates(t, i) # {} /\ p.kind \in KindsFrom(l.kind)
      /\ Lex(t, i) = Done(p.kind, p.to)
  <2> HIDE DEF t, p
  <2> QED BY <1>1, PiecesAre DEF Piecewise
<1>3. Piece(t, d, p.to, s)
  <2> HIDE DEF t, p
  <2> QED BY <1>1, PiecesStandAlone
<1> HIDE DEF t, l
<1>4. l.kind # "Float" /\ j \in (i + 1)..(Len(t) + 1) /\ Shape(t, i, l.kind, l.priority, j)
      /\ (l.kind = "Decimal" => Lex(t, i) = lex_decimal_number(t, j))
  BY <1>1, <1>2, LexCases DEF l
<1>5. l.kind = "Decimal"
  BY <1>2, <1>4 DEF KindsFrom
<1>6. IsRun(t, i, NumberBytes, j)
  BY <1>4, <1>5 DEF Shape
<1>7. PICK m \in Nat, e \in Nat : IsNumber(t, j, m, e) /\ e = p.to
  <2>1. j \in 1..(Len(t) + 1)
    BY <1>2, <1>4
  <2>2. PICK m \in Nat, e \in Nat :
          /\ IsNumber(t, j, m, e)
          /\ lex_decimal_number(t, j) = Done(IF Dot(t, j) \/ Exponent(t, m) THEN "Float" ELSE "Int", e)
    BY <1>1, <2>1, lex_decimal_numberIs
  <2>3. e = p.to
    BY <1>2, <1>4, <1>5, <2>2, OutcomesDiffer
  <2> QED BY <2>2, <2>3
<1> HIDE DEF j, p, i
<1>8. \A n \in i..(e - 1) : t[n] = "." =>
        /\ At(t, n + 1) \notin Letters \cup {".", Underscore} \/ n + 1 # e
        /\ n + 1 < e => t[n + 1] \in Digits \cup {Underscore, "e", "E"}
  BY <1>1, <1>2, <1>4, <1>6, <1>7, DotsOfNumbers
<1>9. /\ Len(s) \in Nat /\ Len(s) >= 1 /\ e = d + Len(s) + 1 /\ \A k \in 1..Len(s) : s[k] = t[d + k]
  BY <1>3, <1>7 DEF Piece
<1>10. d + 1 = i /\ d \in Nat /\ i \in Nat
  BY <1>2
<1> HIDE DEF d
<1>11. s[Len(s)] = "." => At(t, e) \notin Letters \cup {".", Underscore}
  <2>1. Len(s) \in 1..Len(s) /\ d + Len(s) \in i..(e - 1) /\ d + Len(s) + 1 = e
    BY <1>9, <1>10
  <2>2. s[Len(s)] = t[d + Len(s)]
    BY <1>9, <2>1
  <2> QED BY <1>8, <2>1, <2>2
<1>12. ASSUME NEW k \in 1..(Len(s) - 1), s[k] = "." PROVE s[k + 1] \in Digits \cup {Underscore, "e", "E"}
  <2>1. k \in 1..Len(s) /\ k + 1 \in 1..Len(s) /\ d + k \in i..(e - 1) /\ d + k + 1 < e /\ d + (k + 1) = d + k + 1
    BY <1>9, <1>10
  <2>2. s[k] = t[d + k] /\ s[k + 1] = t[d + k + 1]
    BY <1>9, <2>1
  <2> QED BY <1>8, <1>12, <2>1, <2>2
<1> QED BY <1>7, <1>11, <1>12 DEF t, p

LEMMA StringsAreClosed == LexInv => StringsClose
<1> SUFFICES ASSUME LexInv, pieces # <<>>, Latest.kind = "String", NEW s, s = TextOf(Latest)
             PROVE  {i \in 2..Len(s) : s[i] = Quote /\ ~Escaped(s, i)} = {Len(s)}
  BY DEF StringsClose, Just
<1> DEFINE l == Longest(s, 1)
<1>1. Lex(s, 1) = Done("String", Len(s) + 1) /\ WellFormed(s) /\ Candidates(s, 1) # {}
      /\ Piece(text, Latest.from - 1, Latest.to, s)
  BY LatestIs, PiecesStandAlone
<1>2. s \in Text /\ Len(s) \in Nat /\ Len(s) >= 1 /\ 1 \in 1..Len(s)
  <2>1. s \in Text /\ Len(s) \in Nat /\ Len(s) >= 1
    BY <1>1 DEF Piece
  <2> QED BY <2>1
<1>3. "String" \in KindsFrom(l.kind)
  <2>1. "String" # "none"
    OBVIOUS
  <2> HIDE DEF l
  <2> QED BY <1>1, <1>2, <2>1, LexDone DEF l
<1>4. l.kind = "String"
  BY <1>3 DEF KindsFrom
<1>5. Lex(s, 1) = lex_string(s, l.end) /\ Shape(s, 1, l.kind, l.priority, l.end)
  <2> HIDE DEF l
  <2> QED BY <1>1, <1>2, <1>4, LexCases DEF l
<1> HIDE DEF l
<1>6. At(s, 1) = Quote /\ l.end = 1 + 1
  BY <1>4, <1>5 DEF Shape
<1>7. s[1] = Quote
  BY <1>2, <1>6, AtIs
<1>8. StringScan(s)[2] = Done("String", Len(s) + 1)
  <2>1. l.end = 2
    BY <1>6
  <2> QED BY <1>1, <1>5, <2>1, lex_stringIs
<1> QED BY <1>2, <1>7, <1>8, FirstOpenQuote

LEMMA UnclosedComments ==
  ASSUME NEW t \in Text, WellFormed(t), NEW i \in 1..Len(t), Lex(t, i) = Unclosed
  PROVE  Candidates(t, i) # {} /\ Longest(t, i).kind = "BlockComment"
<1> DEFINE m == Longest(t, i)
<1>1. /\ \A x : Failed(x) = Unclosed => x = "UnterminatedBlockComment"
      /\ \A k, e : Done(k, e) # Unclosed
  BY DEF Failed, Done, Unclosed
<1>2. Candidates(t, i) # {}
  BY <1>1 DEF Lex
<1> HIDE DEF m
<1>3. /\ m.kind = "Decimal" => Lex(t, i) = lex_decimal_number(t, m.end)
      /\ m.kind = "String" => Lex(t, i) = lex_string(t, m.end)
      /\ m.kind = "RawString" => Lex(t, i) = lex_raw_string(t, i, m.end)
      /\ m.kind \notin ByHand => Lex(t, i) = Done(m.kind, m.end)
      /\ m.end \in Nat /\ m.end \in (i + 1)..(Len(t) + 1)
  BY <1>2, LexCases DEF m
<1>4. m.kind # "Decimal"
  <2>1. \E k, e : lex_decimal_number(t, m.end) = Done(k, e)
    BY DEF lex_decimal_number
  <2> QED BY <1>1, <1>3, <2>1
<1>5. m.kind # "String"
  <2>1. lex_string(t, m.end) \in StringEnds
    BY <1>3, lex_stringIs, StringScanIs
  <2> QED BY <1>1, <1>3, <2>1 DEF StringEnds
<1>6. m.kind # "RawString"
  <2>1. \/ lex_raw_string(t, i, m.end) = Failed("UnterminatedRawString")
        \/ \E e : lex_raw_string(t, i, m.end) = Done("RawString", e)
    BY DEF lex_raw_string
  <2> QED BY <1>1, <1>3, <2>1
<1>7. m.kind \in ByHand
  BY <1>1, <1>3
<1> QED BY <1>2, <1>4, <1>5, <1>6, <1>7 DEF ByHand, m

LEMMA CommentsAreNested == LexInv => CommentsNest
<1> SUFFICES ASSUME LexInv PROVE CommentsNest
  OBVIOUS
<1>1. text \in Text /\ WellFormed(text)
  BY DEF LexInv
<1>2. ASSUME NEW i \in 1..Len(text), Candidates(text, i) # {}, Longest(text, i).kind = "BlockComment"
      PROVE  Lex(text, i) = lex_block_comment(text, i + 2) /\ i \in Nat
  <2> DEFINE m == Longest(text, i)
  <2> HIDE DEF m
  <2>1. Lex(text, i) = lex_block_comment(text, m.end) /\ Shape(text, i, m.kind, m.priority, m.end)
    BY <1>1, <1>2, LexCases DEF m
  <2>2. m.end = i + 2
    BY <1>2, <2>1 DEF Shape, m
  <2> QED BY <2>1, <2>2
<1>3. ASSUME pieces # <<>>, Latest.kind = "BlockComment" PROVE CommentEnd(text, Latest.from) = Latest.to
  <2> DEFINE p == Latest
             l == Longest(text, p.from)
  <2>1. Piecewise(text, p)
    BY <1>3, LatestIs
  <2> HIDE DEF p
  <2>2. p.from \in 1..Len(text) /\ Candidates(text, p.from) # {} /\ p.kind \in KindsFrom(l.kind)
    BY <1>1, <2>1, PiecesAre
  <2>3. l.kind = "BlockComment"
    BY <1>3, <2>2 DEF KindsFrom, p
  <2>4. lex_block_comment(text, p.from + 2) = Done("BlockComment", p.to) /\ p.from \in Nat
    BY <1>2, <1>3, <2>1, <2>2, <2>3 DEF Piecewise, p
  <2>5. CommentEnd(text, p.from) = p.to
    BY <1>1, <2>4, CommentEndsWhereItsBodyDoes
  <2> QED BY <2>5 DEF p
<1>4. ASSUME error = "UnterminatedBlockComment" PROVE CommentEnd(text, place) = 0
  <2>1. "UnterminatedBlockComment" # "none"
    OBVIOUS
  <2>2. place \in 1..Len(text) /\ Lex(text, place) = Unclosed
    BY <1>4, <2>1 DEF LexInv, Unclosed
  <2>3. lex_block_comment(text, place + 2) = Unclosed /\ place \in Nat
    BY <1>1, <1>2, <2>2, UnclosedComments
  <2> QED BY <1>1, <2>3, CommentEndsWhereItsBodyDoes
<1> QED BY <1>3, <1>4 DEF CommentsNest, Just

(* Whatever the text, no byte of it is lost and no match panics; each token   *)
(* is what its own text says however the text goes on, two that touch are not *)
(* one, a number leaves the dots of a range alone, a string ends at the first *)
(* quote that is not escaped, and a comment after the comments in it.         *)
THEOREM TokensAreRight == Spec => []TokensRight
<1>1. LexInv => TokensRight
  BY NothingIsLost, EachStandsAlone, TheLongestWins, RangesAreWhole, StringsAreClosed, CommentsAreNested
     DEF TokensRight
<1> QED BY <1>1, LexInvHolds, PTL
-----------------------------------------------------------------------------
(* What is kept of a sequence, element after element.                         *)
KeptStep(s, S, f, n) ==
  IF n = 0 THEN <<>> ELSE IF s[n] \in S THEN Append(f[n - 1], s[n]) ELSE f[n - 1]
KeptTo(s, S) == CHOOSE f : f = [n \in 0..Len(s) |-> KeptStep(s, S, f, n)]

LEMMA KeptIs == ASSUME NEW s, NEW S PROVE Kept(s, S) = KeptTo(s, S)[Len(s)]
BY DEF Kept, KeptTo, KeptStep

KeptSo(T, s, S, f) ==
  /\ f \in [0..Len(s) -> Seq(T)] /\ f[0] = <<>>
  /\ \A n \in 1..Len(s) : f[n] = IF s[n] \in S THEN Append(f[n - 1], s[n]) ELSE f[n - 1]

LEMMA KeptToIs ==
  ASSUME NEW T, NEW s \in Seq(T), NEW S
  PROVE  KeptSo(T, s, S, KeptTo(s, S)) /\ Len(s) \in Nat
<1> DEFINE step == [x \in (1..Len(s)) \X Seq(T) |-> IF s[x[1]] \in S THEN Append(x[2], s[x[1]]) ELSE x[2]]
<1>1. Len(s) \in Nat /\ <<>> \in Seq(T) /\ \A n \in 1..Len(s) : s[n] \in T
  OBVIOUS
<1>2. \A n \in 1..Len(s) : \A v \in Seq(T) :
        step[<<n, v>>] = (IF s[n] \in S THEN Append(v, s[n]) ELSE v) /\ step[<<n, v>>] \in Seq(T)
  <2> SUFFICES ASSUME NEW n \in 1..Len(s), NEW v \in Seq(T)
               PROVE  step[<<n, v>>] = (IF s[n] \in S THEN Append(v, s[n]) ELSE v) /\ step[<<n, v>>] \in Seq(T)
    OBVIOUS
  <2>1. step[<<n, v>>] = IF s[n] \in S THEN Append(v, s[n]) ELSE v
    OBVIOUS
  <2>2. Append(v, s[n]) \in Seq(T)
    BY <1>1
  <2> QED BY <2>1, <2>2
<1>3. PICK f : f \in ByRecursion(Len(s), Seq(T), <<>>, step)
  <2> HIDE DEF step
  <2>1. \A n \in 1..Len(s) : \A v \in Seq(T) : step[<<n, v>>] \in Seq(T)
    BY <1>2
  <2>2. ByRecursion(Len(s), Seq(T), <<>>, step) # {}
    BY <1>1, <2>1, Recursion
  <2> QED BY <2>2
<1>4. f \in [0..Len(s) -> Seq(T)] /\ f[0] = <<>> /\ \A n \in 1..Len(s) : f[n] = step[<<n, f[n - 1]>>]
  <2> HIDE DEF step
  <2> QED BY <1>3 DEF ByRecursion
<1>5. \A n \in 1..Len(s) : f[n] = IF s[n] \in S THEN Append(f[n - 1], s[n]) ELSE f[n - 1]
  <2> TAKE n \in 1..Len(s)
  <2>1. n - 1 \in 0..Len(s)
    BY <1>1
  <2>2. f[n - 1] \in Seq(T)
    BY <1>4, <2>1
  <2> HIDE DEF step
  <2> QED BY <1>2, <1>4, <2>2
<1>6. f = [n \in 0..Len(s) |-> KeptStep(s, S, f, n)]
  <2>1. ASSUME NEW n \in 0..Len(s) PROVE f[n] = KeptStep(s, S, f, n)
    <3>1. n = 0 \/ n \in 1..Len(s)
      BY <1>1
    <3>2. 0 \notin 1..Len(s)
      OBVIOUS
    <3> QED BY <1>4, <1>5, <3>1, <3>2 DEF KeptStep
  <2> QED BY <1>4, <2>1
<1>7. KeptTo(s, S) = [n \in 0..Len(s) |-> KeptStep(s, S, KeptTo(s, S), n)]
  BY <1>6 DEF KeptTo
<1> DEFINE h == KeptTo(s, S)
<1>8. h = [n \in 0..Len(s) |-> KeptStep(s, S, h, n)]
  BY <1>7
<1> HIDE DEF h
<1>9. h[0] = <<>>
  <2>1. 0 \in 0..Len(s)
    BY <1>1
  <2>2. h[0] = KeptStep(s, S, h, 0)
    BY <1>8, <2>1
  <2> QED BY <2>2 DEF KeptStep
<1>10. \A n \in 1..Len(s) : h[n] = IF s[n] \in S THEN Append(h[n - 1], s[n]) ELSE h[n - 1]
  <2> TAKE n \in 1..Len(s)
  <2>1. n \in 0..Len(s) /\ n # 0
    BY <1>1
  <2>2. h[n] = KeptStep(s, S, h, n)
    BY <1>8, <2>1
  <2> QED BY <2>1, <2>2 DEF KeptStep
<1>11. \A n \in 0..Len(s) : h[n] \in Seq(T)
  <2> DEFINE P == {n \in Nat : h[n] \in Seq(T)}
  <2>1. 0 \in P
    BY <1>1, <1>9
  <2>2. ASSUME NEW n \in 0..(Len(s) - 1), n \in P PROVE n + 1 \in P
    <3>1. n + 1 \in 1..Len(s) /\ n + 1 - 1 = n /\ n + 1 \in Nat
      BY <1>1
    <3>2. h[n + 1] = IF s[n + 1] \in S THEN Append(h[n], s[n + 1]) ELSE h[n]
      BY <1>10, <3>1
    <3>3. h[n] \in Seq(T) /\ s[n + 1] \in T
      BY <1>1, <2>2, <3>1
    <3>4. h[n + 1] \in Seq(T)
      BY <3>2, <3>3
    <3> QED BY <3>1, <3>4
  <2> HIDE DEF P
  <2>3. \A n \in 0..Len(s) : n \in P
    BY <1>1, <2>1, <2>2, UpTo
  <2> QED BY <2>3 DEF P
<1>12. h \in [0..Len(s) -> Seq(T)]
  <2>1. DOMAIN h = 0..Len(s) /\ h = [n \in 0..Len(s) |-> h[n]]
    <3> DEFINE st(n) == KeptStep(s, S, h, n)
    <3>1. h = [n \in 0..Len(s) |-> st(n)]
      BY <1>8
    <3> HIDE DEF st
    <3> QED BY <3>1
  <2> QED BY <1>11, <2>1
<1> QED BY <1>1, <1>9, <1>10, <1>12 DEF h, KeptSo

(* What was kept up to a place is the start of what is kept in the end; it is *)
(* of the sequence and of the set, and is empty only when there is nothing.   *)
StartOf(p, q) == Len(p) <= Len(q) /\ \A k \in 1..Len(p) : q[k] = p[k]
KeptFrom(s, S, n, v) ==
  /\ \A k \in 1..Len(v) : v[k] \in S /\ \E i \in 1..Len(s) : v[k] = s[i]
  /\ v # <<>> <=> \E i \in 1..n : s[i] \in S

LEMMA KeptFromIs ==
  ASSUME NEW T, NEW s \in Seq(T), NEW S, NEW f, KeptSo(T, s, S, f)
  PROVE  \A n \in 0..Len(s) : f[n] \in Seq(T) /\ KeptFrom(s, S, n, f[n])
<1> DEFINE P == {n \in 0..Len(s) : f[n] \in Seq(T) /\ KeptFrom(s, S, n, f[n])}
<1>1. Len(s) \in Nat /\ (\A n \in 1..Len(s) : s[n] \in T) /\ \A n \in 0..Len(s) : f[n] \in Seq(T)
  <2>1. Len(s) \in Nat /\ \A n \in 1..Len(s) : s[n] \in T
    OBVIOUS
  <2>2. f \in [0..Len(s) -> Seq(T)]
    BY DEF KeptSo
  <2> QED BY <2>1, <2>2
<1>2. 0 \in P
  <2>1. f[0] = <<>> /\ f[0] \in Seq(T) /\ 0 \in 0..Len(s)
    BY <1>1 DEF KeptSo
  <2>2. Len(<<>>) = 0 /\ \A i \in 1..0 : FALSE
    OBVIOUS
  <2>3. KeptFrom(s, S, 0, <<>>)
    BY <2>2 DEF KeptFrom
  <2> QED BY <2>1, <2>3
<1>3. ASSUME NEW n \in 0..(Len(s) - 1), n \in P PROVE n + 1 \in P
  <2>1. n + 1 \in 1..Len(s) /\ n + 1 \in 0..Len(s) /\ n + 1 - 1 = n /\ n \in 0..Len(s) /\ n \in Nat
    BY <1>1
  <2>2. f[n + 1] = IF s[n + 1] \in S THEN Append(f[n], s[n + 1]) ELSE f[n]
    BY <2>1 DEF KeptSo
  <2>3. f[n] \in Seq(T) /\ f[n + 1] \in Seq(T) /\ s[n + 1] \in T /\ KeptFrom(s, S, n, f[n])
    BY <1>1, <1>3, <2>1
  <2> DEFINE v == f[n]
  <2> HIDE DEF v
  <2>4. v \in Seq(T) /\ KeptFrom(s, S, n, v)
    BY <2>3 DEF v
  <2>5. CASE s[n + 1] \in S
    <3>1. f[n + 1] = Append(v, s[n + 1])
      BY <2>2, <2>5 DEF v
    <3> DEFINE w == Append(v, s[n + 1])
    <3>2. /\ Len(w) = Len(v) + 1 /\ Len(v) \in Nat /\ w[Len(v) + 1] = s[n + 1]
          /\ \A k \in 1..Len(v) : w[k] = v[k]
      BY <2>3, <2>4
    <3> HIDE DEF w
    <3>3. w # <<>>
      BY <3>2
    <3>4. \A k \in 1..Len(w) : w[k] \in S /\ \E i \in 1..Len(s) : w[k] = s[i]
      <4> TAKE k \in 1..Len(w)
      <4>1. k = Len(v) + 1 \/ k \in 1..Len(v)
        BY <3>2
      <4> QED BY <2>1, <2>4, <2>5, <3>2, <4>1 DEF KeptFrom
    <3>5. \E i \in 1..(n + 1) : s[i] \in S
      BY <2>1, <2>5
    <3> QED BY <2>1, <2>3, <3>1, <3>3, <3>4, <3>5 DEF KeptFrom, w
  <2>6. CASE s[n + 1] \notin S
    <3>1. f[n + 1] = v
      BY <2>2, <2>6 DEF v
    <3>2. (\E i \in 1..(n + 1) : s[i] \in S) <=> (\E i \in 1..n : s[i] \in S)
      <4>1. \A i \in 1..(n + 1) : i = n + 1 \/ i \in 1..n
        BY <2>1
      <4>2. \A i \in 1..n : i \in 1..(n + 1)
        BY <2>1
      <4> QED BY <2>6, <4>1, <4>2
    <3> QED BY <2>1, <2>3, <2>4, <3>1, <3>2 DEF KeptFrom
  <2> QED BY <2>5, <2>6
<1>4. \A n \in 0..Len(s) : n \in P
  <2> HIDE DEF P
  <2> QED BY <1>1, <1>2, <1>3, UpTo
<1> QED BY <1>4

LEMMA KeptIsASequence ==
  ASSUME NEW T, NEW s \in Seq(T), NEW S
  PROVE  Kept(s, S) \in Seq(T)
<1>1. KeptSo(T, s, S, KeptTo(s, S)) /\ Len(s) \in Nat
  BY KeptToIs
<1>2. Len(s) \in 0..Len(s)
  BY <1>1
<1> QED BY <1>1, <1>2, KeptIs DEF KeptSo

LEMMA KeptStarts ==
  ASSUME NEW T, NEW s \in Seq(T), NEW S, NEW f, KeptSo(T, s, S, f)
  PROVE  \A n \in 0..Len(s) : StartOf(f[n], f[Len(s)])
<1> DEFINE N == Len(s)
           P == {n \in Nat : n <= N => StartOf(f[n], f[N])}
<1>1. N \in Nat /\ (\A n \in 1..N : s[n] \in T) /\ \A n \in 0..N : f[n] \in Seq(T)
  <2>1. N \in Nat /\ \A n \in 1..N : s[n] \in T
    OBVIOUS
  <2>2. f \in [0..N -> Seq(T)]
    BY DEF KeptSo
  <2> QED BY <2>1, <2>2
<1>2. \A n \in 1..N : f[n] = IF s[n] \in S THEN Append(f[n - 1], s[n]) ELSE f[n - 1]
  BY DEF KeptSo
<1> HIDE DEF N
<1>3. \A n \in Nat : n > N => n \in P
  BY <1>1
<1>4. ASSUME NEW n \in 0..N, \A k \in Nat : k > n => k \in P PROVE n \in P
  <2>1. CASE n = N
    <3>1. f[N] \in Seq(T) /\ Len(f[N]) \in Nat
      BY <1>1
    <3> QED BY <1>1, <2>1, <3>1 DEF StartOf
  <2>2. CASE n # N
    <3>1. n + 1 \in 1..N /\ n + 1 - 1 = n /\ n \in 0..N /\ n + 1 \in Nat /\ n + 1 > n /\ n \in Nat /\ N \in 0..N
      BY <1>1, <2>2
    <3>2. StartOf(f[n + 1], f[N]) /\ f[n] \in Seq(T) /\ s[n + 1] \in T /\ f[N] \in Seq(T)
      BY <1>1, <1>4, <3>1
    <3>3. f[n + 1] = IF s[n + 1] \in S THEN Append(f[n], s[n + 1]) ELSE f[n]
      BY <1>2, <3>1
    <3>4. CASE s[n + 1] \in S
      <4> DEFINE v == f[n]
                 w == Append(v, s[n + 1])
      <4>1. /\ Len(w) = Len(v) + 1 /\ Len(v) \in Nat
            /\ \A k \in 1..Len(v) : w[k] = v[k]
        BY <3>2
      <4>2. f[n + 1] = w /\ Len(f[N]) \in Nat
        BY <3>2, <3>3, <3>4
      <4> HIDE DEF w, v
      <4>3. StartOf(v, f[N])
        BY <3>2, <4>1, <4>2 DEF StartOf
      <4> QED BY <3>1, <4>3 DEF v
    <3>5. CASE s[n + 1] \notin S
      BY <3>1, <3>2, <3>3, <3>5
    <3> QED BY <3>4, <3>5
  <2> QED BY <2>1, <2>2
<1>5. \A n \in Nat : n \in P
  <2> HIDE DEF P
  <2> QED BY <1>1, <1>3, <1>4, Downwards
<1> QED BY <1>1, <1>5 DEF N

(* The tokens are pieces, without those that are skipped.                     *)
LEMMA TokensAre ==
  ASSUME LexInv
  PROVE  /\ Len(tokens) \in Nat /\ tokens \in Seq(PieceRecords)
         /\ \A n \in 1..Len(tokens) : Piecewise(text, tokens[n]) /\ tokens[n].kind \in Kinds
<1> DEFINE S == {p \in ToSet(pieces) : p.kind \notin Skipped}
<1>1. pieces \in Seq(PieceRecords) /\ \A n \in 1..Len(pieces) : Piecewise(text, pieces[n])
  BY DEF LexInv
<1>2. tokens = KeptTo(pieces, S)[Len(pieces)]
  BY KeptIs DEF tokens
<1> HIDE DEF S
<1>3. KeptSo(PieceRecords, pieces, S, KeptTo(pieces, S)) /\ Len(pieces) \in Nat
  BY <1>1, KeptToIs
<1>4. Len(pieces) \in 0..Len(pieces)
  BY <1>3
<1>5. tokens \in Seq(PieceRecords) /\ KeptFrom(pieces, S, Len(pieces), tokens)
  BY <1>1, <1>2, <1>3, <1>4, KeptFromIs
<1>6. Len(tokens) \in Nat
  BY <1>5
<1>7. \A n \in 1..Len(tokens) : \E i \in 1..Len(pieces) : tokens[n] = pieces[i]
  BY <1>5 DEF KeptFrom
<1> QED BY <1>1, <1>5, <1>6, <1>7 DEF Piecewise

(* What was made of each token taken is what its text gives.                  *)
LiteralOf(t, p) == literal(p.kind, Slice(t, p.from, p.to))
Made(t) == UNION {LiteralOf(t, p) : p \in PieceRecords}
LiteralInv ==
  /\ values \in Seq(Made(text)) /\ Len(values) <= Len(tokens)
  /\ \A n \in 1..Len(values) : values[n] \in LiteralOf(text, tokens[n])
  /\ panicked => /\ Len(values) < Len(tokens)
                 /\ LiteralOf(text, tokens[Len(values) + 1]) = {}
  /\ panicked \in BOOLEAN
  /\ values # <<>> \/ panicked => Lexed

LEMMA LiteralInvHolds ==
  Spec => [](LexInv /\ LiteralInv)
<1>1. Init => LiteralInv
  <2> SUFFICES ASSUME Init PROVE LiteralInv
    OBVIOUS
  <2>1. values = <<>> /\ panicked = FALSE /\ pieces = <<>>
    BY DEF Init, LexInit
  <2>2. Len(values) = 0 /\ values \in Seq(Made(text)) /\ \A n \in 1..Len(values) : FALSE
    BY <2>1
  <2>3. Len(tokens) = 0
    <3>1. \A S : KeptTo(pieces, S)[Len(pieces)] = <<>>
      <4> TAKE S
      <4>1. pieces \in Seq(PieceRecords) /\ Len(pieces) = 0
        BY <2>1
      <4>2. KeptSo(PieceRecords, pieces, S, KeptTo(pieces, S))
        BY <4>1, KeptToIs
      <4> QED BY <4>1, <4>2 DEF KeptSo
    <3>2. tokens = <<>>
      BY <3>1, KeptIs DEF tokens
    <3> QED BY <3>2
  <2>4. Len(values) <= Len(tokens)
    BY <2>2, <2>3
  <2>5. ~panicked /\ panicked \in BOOLEAN /\ ~(values # <<>>)
    BY <2>1, Zenon
  <2> QED BY <2>2, <2>4, <2>5, Zenon DEF LiteralInv
<1>2. LexInv /\ LexInv' /\ LiteralInv /\ [Next]_vars => LiteralInv'
  <2> SUFFICES ASSUME LexInv, LexInv', LiteralInv, [Next]_vars PROVE LiteralInv'
    OBVIOUS
  <2>1. CASE Match
    <3>1. LexNext /\ UNCHANGED <<values, panicked>>
      BY <2>1 DEF Match
    <3>2. ~Lexed
      BY <3>1 DEF LexNext
    <3>3. values = <<>> /\ panicked = FALSE
      BY <3>2 DEF LiteralInv
    <3>4. values' = <<>> /\ panicked' = FALSE
      BY <3>1, <3>3
    <3>5. Len(values') = 0 /\ values' \in Seq(Made(text)') /\ \A n \in 1..Len(values') : FALSE
      BY <3>4
    <3>6. Len(tokens') \in Nat
      <4>1. pieces' \in Seq(PieceRecords)
        BY DEF LexInv
      <4>2. tokens' \in Seq(PieceRecords)
        BY <4>1, KeptIsASequence DEF tokens
      <4> QED BY <4>2
    <3>7. Len(values') <= Len(tokens')
      BY <3>5, <3>6
    <3>8. ~panicked' /\ panicked' \in BOOLEAN /\ ~(values' # <<>>)
      BY <3>4, Zenon
    <3> QED BY <3>5, <3>7, <3>8, Zenon DEF LiteralInv
  <2>2. CASE Take
    <3> DEFINE k == Len(values)
               p == tokens[k + 1]
    <3>1. /\ Lexed /\ error = "none" /\ ~panicked /\ k < Len(tokens)
          /\ UNCHANGED <<text, place, pieces, error>>
      BY <2>2, Zenon DEF Take
    <3>2. \/ LiteralOf(text, p) = {} /\ panicked' = TRUE /\ UNCHANGED values
          \/ \E value \in LiteralOf(text, p) : values' = Append(values, value) /\ UNCHANGED panicked
      BY <2>2, Zenon DEF Take, LiteralOf, TextOf
    <3>3. text' = text /\ tokens' = tokens /\ Lexed' = Lexed
      BY <3>1 DEF tokens, Lexed
    <3>4. /\ k \in Nat /\ k + 1 \in 1..Len(tokens) /\ Len(tokens) \in Nat /\ k + 1 <= Len(tokens)
          /\ p \in PieceRecords
      <4>1. k \in Nat
        BY DEF LiteralInv
      <4>2. Len(tokens) \in Nat /\ tokens \in Seq(PieceRecords)
        BY TokensAre
      <4> HIDE DEF k
      <4>3. k + 1 \in 1..Len(tokens) /\ k + 1 <= Len(tokens)
        BY <3>1, <4>1, <4>2
      <4> QED BY <4>1, <4>2, <4>3
    <3>5. CASE LiteralOf(text, p) = {} /\ panicked' = TRUE /\ UNCHANGED values
      BY <3>1, <3>3, <3>5 DEF LiteralInv
    <3>6. CASE \E value \in LiteralOf(text, p) : values' = Append(values, value) /\ UNCHANGED panicked
      <4>1. PICK value \in LiteralOf(text, p) : values' = Append(values, value) /\ UNCHANGED panicked
        BY <3>6
      <4>2. value \in Made(text)
        BY <3>4, <4>1 DEF Made
      <4>3. values \in Seq(Made(text)) /\ \A n \in 1..k : values[n] \in LiteralOf(text, tokens[n])
        BY DEF LiteralInv
      <4>4. /\ values' \in Seq(Made(text)) /\ Len(values') = k + 1 /\ values'[k + 1] = value
            /\ \A n \in 1..k : values'[n] = values[n]
        BY <4>1, <4>2, <4>3
      <4> HIDE DEF k
      <4>5. \A n \in 1..(k + 1) : n = k + 1 \/ n \in 1..k
        BY <3>4
      <4>6. \A n \in 1..Len(values') : values'[n] \in LiteralOf(text, tokens[n])
        BY <4>1, <4>3, <4>4, <4>5
      <4>7. panicked' = FALSE
        BY <3>1, <4>1 DEF LiteralInv
      <4> QED BY <3>1, <3>3, <3>4, <4>4, <4>6, <4>7 DEF LiteralInv
    <3> QED BY <3>2, <3>5, <3>6
  <2>3. CASE UNCHANGED vars
    <3>1. text' = text /\ tokens' = tokens /\ Lexed' = Lexed /\ values' = values /\ panicked' = panicked
      BY <2>3 DEF vars, tokens, Lexed
    <3> QED BY <3>1 DEF LiteralInv
  <2> QED BY <2>1, <2>2, <2>3 DEF Next
<1> QED BY <1>1, <1>2, LexInvHolds, PTL DEF Spec
-----------------------------------------------------------------------------
(* A literal's text, as the lexer takes it when it stands alone.              *)
Alone(s, kind) ==
  /\ s \in Text /\ WellFormed(s) /\ Len(s) \in Nat /\ Len(s) >= 1
  /\ Lex(s, 1) = Done(kind, Len(s) + 1) /\ Candidates(s, 1) # {}

LEMMA TokensAreAlone ==
  ASSUME LexInv, NEW n \in 1..Len(tokens), NEW s, s = Slice(text, tokens[n].from, tokens[n].to)
  PROVE  Alone(s, tokens[n].kind)
<1> DEFINE p == tokens[n]
<1>1. Piecewise(text, p)
  BY TokensAre
<1>2. text \in Text /\ WellFormed(text)
  BY DEF LexInv
<1>3. s = Slice(text, p.from, p.to)
  OBVIOUS
<1> HIDE DEF p
<1>4. /\ Lex(s, 1) = Done(p.kind, Len(s) + 1) /\ WellFormed(s) /\ Candidates(s, 1) # {}
      /\ Piece(text, p.from - 1, p.to, s)
  BY <1>1, <1>2, <1>3, PiecesStandAlone
<1> QED BY <1>4 DEF Alone, Piece, p

LEMMA AloneIs ==
  ASSUME NEW s, NEW kind \in Kinds, Alone(s, kind), NEW m, m = Longest(s, 1)
  PROVE  /\ kind \in KindsFrom(m.kind) /\ m.end \in 2..(Len(s) + 1)
         /\ Shape(s, 1, m.kind, m.priority, m.end)
         /\ m.kind = "Decimal" => lex_decimal_number(s, m.end) = Done(kind, Len(s) + 1)
         /\ m.kind = "String" => lex_string(s, m.end) = Done(kind, Len(s) + 1)
         /\ m.kind = "RawString" => lex_raw_string(s, 1, m.end) = Done(kind, Len(s) + 1)
         /\ m.kind \notin ByHand => m.end = Len(s) + 1
<1>1. s \in Text /\ WellFormed(s) /\ 1 \in 1..Len(s) /\ Lex(s, 1) = Done(kind, Len(s) + 1) /\ Candidates(s, 1) # {}
  BY DEF Alone
<1>2. kind # "none"
  BY OutcomesDiffer
<1>3. kind \in KindsFrom(m.kind)
  BY <1>1, <1>2, LexDone
<1>4. /\ m.kind = "Decimal" => Lex(s, 1) = lex_decimal_number(s, m.end)
      /\ m.kind = "String" => Lex(s, 1) = lex_string(s, m.end)
      /\ m.kind = "RawString" => Lex(s, 1) = lex_raw_string(s, 1, m.end)
      /\ m.kind \notin ByHand => Lex(s, 1) = Done(m.kind, m.end)
      /\ Shape(s, 1, m.kind, m.priority, m.end)
      /\ m.end \in (1 + 1)..(Len(s) + 1)
  BY <1>1, LexCases
<1>5. m.kind \notin ByHand => m.end = Len(s) + 1
  BY <1>1, <1>4, OutcomesDiffer
<1>6. m.end \in 2..(Len(s) + 1)
  BY <1>4
<1> QED BY <1>1, <1>3, <1>4, <1>5, <1>6

(* A raw string's value, put back between its quotes, is its text.            *)
Hash(n) == [k \in 1..n |-> "#"]
Quoted(n, v) == <<"r">> \o Hash(n) \o <<Quote>> \o v \o <<Quote>> \o Hash(n)

QuotedWell(U, n, v, q) ==
  /\ q \in Seq(U) /\ Len(q) = Len(v) + 2 * n + 3
  /\ q[1] = "r" /\ q[n + 2] = Quote /\ q[n + 3 + Len(v)] = Quote
  /\ \A k \in 2..(n + 1) : q[k] = "#"
  /\ \A k \in 1..Len(v) : q[n + 2 + k] = v[k]
  /\ \A k \in (n + 4 + Len(v))..(Len(v) + 2 * n + 3) : q[k] = "#"

Joined(U, p, q, r) ==
  /\ r \in Seq(U) /\ Len(r) = Len(p) + Len(q)
  /\ \A k \in 1..Len(p) : r[k] = p[k]
  /\ \A k \in 1..Len(q) : r[Len(p) + k] = q[k]

LEMMA JoinIs ==
  ASSUME NEW U, NEW p \in Seq(U), NEW q \in Seq(U)
  PROVE  Joined(U, p, q, p \o q)
BY DEF Joined

LEMMA QuotedIs ==
  ASSUME NEW U, NEW v \in Seq(U), NEW n \in Nat, {"r", "#", Quote} \subseteq U
  PROVE  QuotedWell(U, n, v, Quoted(n, v))
<1>1. Hash(n) \in Seq(U) /\ Len(Hash(n)) = n /\ \A k \in 1..n : Hash(n)[k] = "#"
  BY DEF Hash
<1>2. <<"r">> \in Seq(U) /\ <<Quote>> \in Seq(U) /\ Len(v) \in Nat
  OBVIOUS
<1> DEFINE a == <<"r">> \o Hash(n)
           b == a \o <<Quote>>
           c == b \o v
           d == c \o <<Quote>>
           e == d \o Hash(n)
<1>3. a \in Seq(U) /\ Len(a) = n + 1 /\ a[1] = "r" /\ \A k \in 2..(n + 1) : a[k] = "#"
  <2>1. a \in Seq(U) /\ Len(a) = 1 + n /\ a[1] = "r" /\ \A k \in 1..n : a[1 + k] = Hash(n)[k]
    BY <1>1, <1>2
  <2>2. \A k \in 2..(n + 1) : k - 1 \in 1..n /\ 1 + (k - 1) = k
    OBVIOUS
  <2> HIDE DEF a
  <2>3. \A k \in 2..(n + 1) : a[k] = "#"
    <3> TAKE k \in 2..(n + 1)
    <3>1. a[k] = Hash(n)[k - 1]
      BY <2>1, <2>2
    <3> QED BY <1>1, <2>2, <3>1
  <2> QED BY <2>1, <2>3
<1> HIDE DEF a
<1>4. b \in Seq(U) /\ Len(b) = n + 2 /\ b[n + 2] = Quote /\ \A k \in 1..(n + 1) : b[k] = a[k]
  BY <1>2, <1>3
<1> HIDE DEF b
<1>5. /\ c \in Seq(U) /\ Len(c) = n + 2 + Len(v)
      /\ (\A k \in 1..(n + 2) : c[k] = b[k]) /\ \A k \in 1..Len(v) : c[n + 2 + k] = v[k]
  BY <1>2, <1>4
<1> HIDE DEF c
<1>6. /\ d \in Seq(U) /\ Len(d) = n + 3 + Len(v) /\ d[n + 3 + Len(v)] = Quote
      /\ \A k \in 1..(n + 2 + Len(v)) : d[k] = c[k]
  BY <1>2, <1>5
<1> HIDE DEF d
<1>7. /\ e \in Seq(U) /\ Len(e) = n + 3 + Len(v) + n
      /\ (\A k \in 1..(n + 3 + Len(v)) : e[k] = d[k]) /\ \A k \in 1..n : e[n + 3 + Len(v) + k] = Hash(n)[k]
  <2>1. Joined(U, d, Hash(n), e)
    BY <1>1, <1>6, JoinIs
  <2> HIDE DEF e
  <2>2. Len(d) = n + 3 + Len(v) /\ Len(Hash(n)) = n
    BY <1>1, <1>6
  <2> QED BY <2>1, <2>2 DEF Joined
<1>8. Quoted(n, v) = e
  BY DEF Quoted, a, b, c, d
<1> HIDE DEF e
<1>9. e[1] = "r" /\ e[n + 2] = Quote /\ e[n + 3 + Len(v)] = Quote
  BY <1>2, <1>3, <1>4, <1>5, <1>6, <1>7
<1>10. \A k \in 2..(n + 1) : e[k] = "#"
  BY <1>2, <1>3, <1>4, <1>5, <1>6, <1>7
<1>11. \A k \in 1..Len(v) : e[n + 2 + k] = v[k]
  BY <1>2, <1>5, <1>6, <1>7
<1>12. \A k \in (n + 4 + Len(v))..(Len(v) + 2 * n + 3) : e[k] = "#"
  <2> TAKE k \in (n + 4 + Len(v))..(Len(v) + 2 * n + 3)
  <2>1. k - (n + 3 + Len(v)) \in 1..n /\ n + 3 + Len(v) + (k - (n + 3 + Len(v))) = k
    BY <1>2
  <2> QED BY <1>1, <1>7, <2>1
<1>13. Len(e) = Len(v) + 2 * n + 3
  BY <1>2, <1>7
<1> QED BY <1>7, <1>8, <1>9, <1>10, <1>11, <1>12, <1>13 DEF QuotedWell

LEMMA SliceUpTo ==
  ASSUME NEW t \in Text, NEW i \in 1..Len(t), NEW j \in i..(Len(t) + 1)
  PROVE  /\ Slice(t, i, j) \in Text /\ Len(Slice(t, i, j)) = j - i
         /\ \A k \in 1..(j - i) : Slice(t, i, j)[k] = t[i + k - 1]
<1>1. CASE j = i
  <2>1. Len(t) \in Nat /\ i \in Nat /\ {j - 1, Len(t)} \in SUBSET Nat /\ {j - 1, Len(t)} # {}
    BY <1>1, LengthIs
  <2>2. Min({j - 1, Len(t)}) = j - 1
    <3>1. Min({j - 1, Len(t)}) \in {j - 1, Len(t)} /\ \A n \in {j - 1, Len(t)} : Min({j - 1, Len(t)}) <= n
      BY <2>1, LeastOf
    <3> QED BY <1>1, <2>1, <3>1
  <2>3. Slice(t, i, j) = SubSeq(t, i, i - 1)
    BY <1>1, <2>2 DEF Slice
  <2>4. SubSeq(t, i, i - 1) = <<>>
    BY <2>1 DEF Text
  <2>5. <<>> \in Text /\ Len(<<>>) = 0 /\ j - i = 0 /\ \A k \in 1..0 : FALSE
    BY <1>1, <2>1 DEF Text
  <2> QED BY <2>3, <2>4, <2>5
<1>2. CASE j # i
  <2>1. j \in (i + 1)..(Len(t) + 1)
    BY <1>2, LengthIs
  <2> QED BY <2>1, SliceIs
<1> QED BY <1>1, <1>2

LEMMA RawStringsAreRead ==
  ASSUME NEW s, Alone(s, "RawString"), NEW v \in process_raw_string(s)
  PROVE  \E n \in 0..Len(s) : s = Quoted(n, v)
<1> DEFINE m == Longest(s, 1)
           j == m.end
<1>1. s \in Text /\ Len(s) \in Nat /\ 1 \in 1..Len(s) /\ WellFormed(s)
  BY DEF Alone
<1>2. /\ "RawString" \in KindsFrom(m.kind) /\ j \in 2..(Len(s) + 1) /\ Shape(s, 1, m.kind, m.priority, j)
      /\ (m.kind = "RawString" => lex_raw_string(s, 1, j) = Done("RawString", Len(s) + 1))
  <2>1. "RawString" \in Kinds
    BY DEF Kinds
  <2> HIDE DEF m
  <2> QED BY <2>1, AloneIs DEF m
<1> HIDE DEF m
<1>3. m.kind = "RawString"
  BY <1>2 DEF KindsFrom
<1>4. IsRawString(s, 1, j)
  BY <1>2, <1>3 DEF Shape
<1> HIDE DEF j
<1>5. j \in (1 + 2)..(Len(s) + 1)
  <2>1. j \in (1 + 1)..(Len(s) + 1)
    BY <1>2
  <2> QED BY <1>1, <1>4, <2>1, RawStringEndsWell
<1> DEFINE h == j - 1 - 2
<1>6. /\ Hashes(s, 1 + 1) = h
      /\ \E k \in Closing(s, h, j) : Len(s) + 1 = k + 1 + h
  <2>1. lex_raw_string(s, 1, j) = Done("RawString", Len(s) + 1)
    BY <1>2, <1>3
  <2> QED BY <1>1, <1>4, <1>5, <2>1, RawStringEnds
<1>7. h \in Nat /\ j = h + 3 /\ Hashes(s, 2) = h
  BY <1>1, <1>5, <1>6
<1> HIDE DEF h
<1>8. PICK k \in j..Len(s) : Closes(s, h, k) /\ k = Len(s) - h
  <2>1. PICK k \in Closing(s, h, j) : Len(s) + 1 = k + 1 + h
    BY <1>6
  <2>2. k \in j..Len(s) /\ Closes(s, h, k)
    BY <2>1 DEF Closing
  <2>3. k = Len(s) - h
    BY <1>1, <1>2, <1>7, <2>1, <2>2
  <2> QED BY <2>2, <2>3
<1>9. v = Slice(s, h + 3, k)
  BY <1>7, <1>8 DEF process_raw_string
<1>10. h + 3 \in 1..Len(s) /\ k \in (h + 3)..(Len(s) + 1) /\ h + 2 \in 1..Len(s) /\ Len(s) = k + h
  BY <1>1, <1>7, <1>8
<1>11. v \in Text /\ Len(v) = k - (h + 3) /\ \A x \in 1..(k - (h + 3)) : v[x] = s[h + 3 + x - 1]
  BY <1>1, <1>9, <1>10, SliceUpTo
<1>12. s[1] = "r" /\ s[h + 2] = Quote /\ \A x \in 2..(h + 1) : s[x] = "#"
  <2>1. At(s, 1) = "r" /\ At(s, j - 1) = Quote /\ IsRun(s, 1 + 1, {"#"}, j - 1) /\ j - 1 = h + 2
    BY <1>4, <1>7 DEF IsRawString
  <2>2. \A x \in 2..(h + 1) : x \in (1 + 1)..(j - 1 - 1)
    BY <1>7
  <2> QED BY <1>1, <1>10, <2>1, <2>2, AtIs DEF IsRun
<1>13. s[k] = Quote /\ \A x \in (k + 1)..(k + h) : s[x] = "#"
  BY <1>8 DEF Closes
<1> DEFINE q == Quoted(h, v)
           U == Bytes \cup {"r", "#", Quote}
<1>14. /\ q \in Seq(U) /\ Len(q) = Len(v) + 2 * h + 3
       /\ q[1] = "r" /\ q[h + 2] = Quote /\ q[h + 3 + Len(v)] = Quote
       /\ (\A x \in 2..(h + 1) : q[x] = "#")
       /\ (\A x \in 1..Len(v) : q[h + 2 + x] = v[x])
       /\ \A x \in (h + 4 + Len(v))..(Len(v) + 2 * h + 3) : q[x] = "#"
  <2>1. v \in Seq(U)
    BY <1>11 DEF Text
  <2> HIDE DEF U
  <2>2. {"r", "#", Quote} \subseteq U
    BY DEF U
  <2>3. QuotedWell(U, h, v, q)
    BY <1>7, <2>1, <2>2, QuotedIs
  <2> QED BY <2>3 DEF QuotedWell
<1> HIDE DEF q
<1>15. Len(q) = Len(s) /\ s \in Seq(U)
  BY <1>1, <1>7, <1>10, <1>11, <1>14 DEF Text
<1>16. ASSUME NEW x \in 1..Len(s) PROVE s[x] = q[x]
  <2>1. CASE x \in 2..(h + 1)
    BY <1>12, <1>14, <2>1
  <2>2. CASE x = 1 \/ x = h + 2
    BY <1>12, <1>14, <2>2
  <2>3. CASE x \in (h + 3)..(k - 1)
    <3>1. x - (h + 2) \in 1..Len(v) /\ h + 2 + (x - (h + 2)) = x /\ h + 3 + (x - (h + 2)) - 1 = x
      BY <1>1, <1>7, <1>8, <1>11, <2>3
    <3>2. q[x] = v[x - (h + 2)]
      BY <1>14, <3>1
    <3>3. v[x - (h + 2)] = s[x]
      BY <1>11, <3>1
    <3> QED BY <3>2, <3>3
  <2>4. CASE x = k
    <3>1. h + 3 + Len(v) = k
      BY <1>1, <1>7, <1>8, <1>11
    <3> QED BY <1>13, <1>14, <2>4, <3>1
  <2>5. CASE x \in (k + 1)..(k + h)
    <3>1. x \in (h + 4 + Len(v))..(Len(v) + 2 * h + 3)
      BY <1>1, <1>7, <1>8, <1>11, <2>5
    <3> QED BY <1>13, <1>14, <2>5, <3>1
  <2>6. x \in 2..(h + 1) \/ x = 1 \/ x = h + 2 \/ x \in (h + 3)..(k - 1) \/ x = k \/ x \in (k + 1)..(k + h)
    BY <1>1, <1>7, <1>8, <1>10
  <2> QED BY <2>1, <2>2, <2>3, <2>4, <2>5, <2>6
<1>17. s = q
  <2> HIDE DEF U
  <2> QED BY <1>14, <1>15, <1>16
<1>18. h \in 0..Len(s)
  BY <1>1, <1>7, <1>10
<1> QED BY <1>17, <1>18 DEF q
-----------------------------------------------------------------------------
(* The value of a string, by its definition by recursion.                     *)
One(s, i) == IF s[i] = "\\" THEN process_escape(s, i) ELSE Read({s[i]}, i + 1)
Ahead(c, rest) == <<c>> \o rest
Before(chars, rests) == {Ahead(c, rest) : c \in chars, rest \in rests}
ReadStep(s, f, i) ==
  IF At(s, i) \in {Outside, Quote} THEN {<<>>} ELSE Before(One(s, i).chars, f[One(s, i).next])
ReadFrom(s) == CHOOSE f : f = [i \in Nat |-> ReadStep(s, f, i)]
Chars(s) == UNION {One(s, i).chars : i \in Nat}

LEMMA process_stringIs == ASSUME NEW s PROVE process_string(s) = ReadFrom(s)[2]
BY DEF process_string, ReadFrom, ReadStep, Before, Ahead, One

LEMMA WhatIsBefore ==
  ASSUME NEW chars, NEW rests
  PROVE  \A v : v \in Before(chars, rests) <=> \E c \in chars : \E rest \in rests : v = Ahead(c, rest)
<1> TAKE v
<1>1. v \in Before(chars, rests) => \E c \in chars : \E rest \in rests : v = Ahead(c, rest)
  BY DEF Before
<1>2. ASSUME NEW c \in chars, NEW rest \in rests, v = Ahead(c, rest) PROVE v \in Before(chars, rests)
  BY <1>2 DEF Before
<1> QED BY <1>1, <1>2

LEMMA BeforeIs ==
  ASSUME NEW C, NEW chars \in SUBSET C, NEW rests \in SUBSET Seq(C)
  PROVE  Before(chars, rests) \in SUBSET Seq(C)
<1>1. \A c \in C : \A rest \in Seq(C) : Ahead(c, rest) \in Seq(C)
  BY DEF Ahead
<1> SUFFICES ASSUME NEW v \in Before(chars, rests) PROVE v \in Seq(C)
  OBVIOUS
<1>2. PICK c \in chars, rest \in rests : v = Ahead(c, rest)
  BY WhatIsBefore
<1> QED BY <1>1, <1>2

LEMMA ReadStepCases ==
  ASSUME NEW s, NEW f, NEW i
  PROVE  /\ At(s, i) \in {Outside, Quote} => ReadStep(s, f, i) = {<<>>}
         /\ At(s, i) \notin {Outside, Quote} =>
              ReadStep(s, f, i) = Before(One(s, i).chars, f[One(s, i).next])
BY Zenon DEF ReadStep

LEMMA NoEscapeNames == "u" \notin DOMAIN Simple /\ "\\" \in DOMAIN Simple /\ Outside \notin DOMAIN Simple
<1>1. DOMAIN Simple = {"n", "r", "t", "\\", "0", Quote, "'"}
  BY DEF Simple
<1> QED BY <1>1 DEF Quote, Outside

(* What is read at a place of a string that is no quote: every escape ends    *)
(* after it began, since the string's last byte is a quote.                   *)
LEMMA OneIs ==
  ASSUME NEW s \in Text, Len(s) >= 1, s[Len(s)] = Quote, NEW i \in 1..Len(s), s[i] # Quote
  PROVE  /\ One(s, i).next \in Nat /\ One(s, i).next > i /\ i + 1 \in 1..Len(s)
         /\ s[i] # "\\" => One(s, i).chars = {s[i]} /\ One(s, i).next = i + 1
         /\ s[i] = "\\" /\ s[i + 1] \in DOMAIN Simple =>
              One(s, i).chars = {Simple[s[i + 1]]} /\ One(s, i).next = i + 2
         /\ s[i] = "\\" /\ s[i + 1] \notin DOMAIN Simple /\ s[i + 1] # "u" => One(s, i).chars = {}
<1>1. Len(s) \in Nat /\ i # Len(s) /\ i + 1 \in 1..Len(s) /\ At(s, i + 1) = s[i + 1] /\ i \in Nat
  <2>1. Len(s) \in Nat /\ i # Len(s)
    BY LengthIs
  <2>2. i + 1 \in 1..Len(s)
    BY <2>1
  <2> QED BY <2>1, <2>2, AtIs
<1>2. \A c, n : Read(c, n).chars = c /\ Read(c, n).next = n
  BY DEF Read
<1>3. CASE s[i] # "\\"
  <2>1. One(s, i) = Read({s[i]}, i + 1)
    BY <1>3 DEF One
  <2> QED BY <1>1, <1>2, <1>3, <2>1
<1>4. CASE s[i] = "\\" /\ s[i + 1] \in DOMAIN Simple
  <2>1. One(s, i) = Read({Simple[s[i + 1]]}, i + 2)
    BY <1>1, <1>4, NoEscapeNames DEF One, process_escape
  <2> QED BY <1>1, <1>2, <1>4, <2>1
<1>5. CASE s[i] = "\\" /\ s[i + 1] = "u"
  <2> DEFINE first == NextChar(s, i + 2)
             brace == Until(s, first, "}")
             code == FromStrRadix(Slice(s, first, brace), 16, MaxChar + 1) \ Surrogates
  <2>1. One(s, i) = Read({<<n>> : n \in code}, brace + 1)
    BY <1>1, <1>5, NoEscapeNames DEF One, process_escape
  <2>2. first \in 1..(Len(s) + 1) /\ first > i /\ first \in Nat
    <3>1. i + 2 \in 1..Len(s)
      <4>1. Quote # "u"
        BY DEF Quote
      <4> QED BY <1>1, <1>5, <4>1
    <3>2. At(s, i + 2) = Lead => i + 2 # Len(s)
      <4>1. Quote # Lead
        BY DEF Quote, Lead
      <4> QED BY <3>1, <4>1, AtIs
    <3> QED BY <1>1, <3>1, <3>2 DEF NextChar
  <2> HIDE DEF first
  <2>3. brace \in first..(Len(s) + 1)
    <3>1. brace = RunEnd(s, first, Bytes \ {"}"})
      BY <2>2, UntilIs
    <3>2. Outside \notin Bytes \ {"}"}
      BY NoByteIsOutside
    <3> HIDE DEF brace
    <3>3. IsRun(s, first, Bytes \ {"}"}, brace)
      BY <2>2, <3>1, <3>2, RunEndIs
    <3> QED BY <3>3 DEF IsRun
  <2> HIDE DEF code, brace
  <2>4. One(s, i).next = brace + 1
    BY <1>2, <2>1
  <2>5. brace + 1 \in Nat /\ brace + 1 > i
    BY <1>1, <2>2, <2>3
  <2> QED BY <1>1, <1>5, <2>4, <2>5, NoEscapeNames
<1>6. CASE s[i] = "\\" /\ s[i + 1] \notin DOMAIN Simple /\ s[i + 1] # "u"
  <2>1. One(s, i) = Read({}, i + 2)
    BY <1>1, <1>6 DEF One, process_escape
  <2> QED BY <1>1, <1>2, <1>6, <2>1
<1> QED BY <1>3, <1>4, <1>5, <1>6

LEMMA ReadFromIs ==
  ASSUME NEW s \in Text, Len(s) >= 1, s[Len(s)] = Quote
  PROVE  \A i \in Nat : /\ ReadFrom(s)[i] \in SUBSET Seq(Chars(s))
                        /\ ReadFrom(s)[i] = ReadStep(s, ReadFrom(s), i)
<1> DEFINE C == Chars(s)
           T == SUBSET Seq(C)
           G == [Nat -> T]
           step == [x \in Nat \X G |-> ReadStep(s, x[2], x[1])]
<1>1. \A i \in Nat : \A f \in G : step[<<i, f>>] = ReadStep(s, f, i)
  OBVIOUS
<1>2. \A i \in Nat : \A S \in SUBSET Seq(C) : Before(One(s, i).chars, S) \in SUBSET Seq(C)
  <2>1. \A i \in Nat : One(s, i).chars \in SUBSET C
    BY DEF Chars
  <2> HIDE DEF C
  <2> QED BY <2>1, BeforeIs
<1>3. \A i \in Nat : At(s, i) \notin {Outside, Quote} =>
        One(s, i).next \in Nat /\ One(s, i).next > i /\ i \in 1..Len(s)
  <2> SUFFICES ASSUME NEW i \in Nat, At(s, i) \notin {Outside, Quote}
               PROVE  One(s, i).next \in Nat /\ One(s, i).next > i /\ i \in 1..Len(s)
    OBVIOUS
  <2>1. i \in 1..Len(s) /\ s[i] # Quote
    BY AtIs
  <2> QED BY <2>1, OneIs
<1>4. \A i \in Nat : \A f \in G : ReadStep(s, f, i) \in T
  <2> SUFFICES ASSUME NEW i \in Nat, NEW f \in G PROVE ReadStep(s, f, i) \in T
    OBVIOUS
  <2>1. CASE At(s, i) \in {Outside, Quote}
    <3>1. {<<>>} \in T
      OBVIOUS
    <3> QED BY <2>1, <3>1, ReadStepCases
  <2>2. CASE At(s, i) \notin {Outside, Quote}
    <3>1. f[One(s, i).next] \in SUBSET Seq(C)
      BY <1>3, <2>2
    <3> HIDE DEF C
    <3> QED BY <1>2, <2>2, <3>1, ReadStepCases
  <2> QED BY <2>1, <2>2
<1>5. EndsAsIn(Len(s), G, step)
  <2> DEFINE f == [i \in Nat |-> {<<>>}]
  <2>1. f \in G
    OBVIOUS
  <2>2. \A i \in Nat : i > Len(s) => ReadStep(s, f, i) = {<<>>}
    <3> TAKE i \in Nat
    <3>1. i > Len(s) => At(s, i) = Outside
      BY AtIs, LengthIs
    <3> QED BY <3>1, ReadStepCases
  <2>3. \A i \in Nat : i > Len(s) => f[i] = step[<<i, f>>]
    <3>1. \A i \in Nat : f[i] = {<<>>} /\ step[<<i, f>>] = ReadStep(s, f, i)
      BY <1>1, <2>1
    <3> QED BY <2>2, <3>1
  <2> HIDE DEF f, G, step
  <2> QED BY <2>1, <2>3 DEF EndsAsIn
<1>6. StepsStayIn(Len(s), G, step)
  <2>1. \A i \in 0..Len(s) : i \in Nat
    BY LengthIs
  <2>2. \A i \in Nat : \A f \in G : step[<<i, f>>] \in T
    BY <1>1, <1>4
  <2> HIDE DEF step, T
  <2> QED BY <2>1, <2>2 DEF StepsStayIn
<1>7. LooksLater(G, step)
  <2> SUFFICES ASSUME NEW i \in Nat, NEW f \in G, NEW g \in G, \A k \in Nat : k > i => f[k] = g[k]
               PROVE  step[<<i, f>>] = step[<<i, g>>]
    BY DEF LooksLater
  <2>1. CASE At(s, i) \in {Outside, Quote}
    <3>1. ReadStep(s, f, i) = ReadStep(s, g, i)
      BY <2>1, ReadStepCases
    <3> HIDE DEF step, G
    <3> QED BY <1>1, <3>1
  <2>2. CASE At(s, i) \notin {Outside, Quote}
    <3>1. f[One(s, i).next] = g[One(s, i).next]
      BY <1>3, <2>2
    <3>2. ReadStep(s, f, i) = ReadStep(s, g, i)
      BY <2>2, <3>1, ReadStepCases
    <3> HIDE DEF step, G
    <3> QED BY <1>1, <3>2
  <2> QED BY <2>1, <2>2
<1>8. PICK f \in G : \A i \in Nat : f[i] = step[<<i, f>>]
  <2> HIDE DEF step
  <2>1. Len(s) \in Nat /\ G \in SUBSET [Nat -> T]
    BY LengthIs
  <2> HIDE DEF G, T
  <2>2. Fulfilments(G, step) # {}
    BY <2>1, <1>5, <1>6, <1>7, Later
  <2> QED BY <2>2 DEF Fulfilments
<1>9. f = [i \in Nat |-> ReadStep(s, f, i)]
  <2> HIDE DEF T
  <2>1. \A i \in Nat : f[i] = ReadStep(s, f, i)
    <3> HIDE DEF step, G
    <3> QED BY <1>1, <1>8
  <2> QED BY <1>8, <2>1
<1>10. ReadFrom(s) = [i \in Nat |-> ReadStep(s, ReadFrom(s), i)]
  BY <1>9 DEF ReadFrom
<1> DEFINE h == ReadFrom(s)
<1>11. \A i \in Nat : h[i] = ReadStep(s, h, i)
  <2>1. h = [i \in Nat |-> ReadStep(s, h, i)]
    BY <1>10
  <2> HIDE DEF h
  <2> QED BY <2>1
<1> HIDE DEF h
<1> DEFINE S == {i \in Nat : h[i] \in T}
<1>15. {<<>>} \in T
  OBVIOUS
<1>12. ASSUME NEW i \in Nat, i > Len(s) PROVE i \in S
  <2>1. At(s, i) = Outside
    BY <1>12, AtIs, LengthIs
  <2>2. h[i] = {<<>>}
    BY <1>11, <2>1, ReadStepCases
  <2> HIDE DEF T
  <2> QED BY <1>15, <2>2
<1>13. ASSUME NEW i \in 0..Len(s), \A k \in Nat : k > i => k \in S PROVE i \in S
  <2>1. i \in Nat
    BY LengthIs
  <2>2. CASE At(s, i) \in {Outside, Quote}
    <3>1. h[i] = {<<>>}
      BY <1>11, <2>1, <2>2, ReadStepCases
    <3> HIDE DEF T
    <3> QED BY <1>15, <2>1, <3>1
  <2>3. CASE At(s, i) \notin {Outside, Quote}
    <3>1. One(s, i).next \in Nat /\ One(s, i).next > i
      BY <1>3, <2>1, <2>3
    <3>2. h[One(s, i).next] \in SUBSET Seq(C)
      <4>1. One(s, i).next \in S
        BY <1>13, <3>1
      <4> QED BY <4>1
    <3>3. h[i] = Before(One(s, i).chars, h[One(s, i).next])
      BY <1>11, <2>1, <2>3, ReadStepCases
    <3> HIDE DEF C
    <3>4. h[i] \in SUBSET Seq(C)
      BY <1>2, <2>1, <3>2, <3>3
    <3> QED BY <2>1, <3>4
  <2> QED BY <2>2, <2>3
<1>14. \A i \in Nat : i \in S
  <2> HIDE DEF S
  <2> QED BY <1>12, <1>13, LengthIs, Downwards
<1> HIDE DEF C
<1> QED BY <1>11, <1>14 DEF h, C

-----------------------------------------------------------------------------
(* The numerals, and the digits of each radix.                                *)
LEMMA NumeralsAre ==
  /\ Numerals[1] = {"0"} /\ Numerals[2] = {"1"} /\ Numerals[3] = {"2"} /\ Numerals[4] = {"3"}
  /\ Numerals[5] = {"4"} /\ Numerals[6] = {"5"} /\ Numerals[7] = {"6"} /\ Numerals[8] = {"7"}
  /\ Numerals[9] = {"8"} /\ Numerals[10] = {"9"} /\ Numerals[11] = {"a", "A"} /\ Numerals[12] = {"b", "B"}
  /\ Numerals[13] = {"c", "C"} /\ Numerals[14] = {"d", "D"} /\ Numerals[15] = {"e", "E"}
  /\ Numerals[16] = {"f", "F"}
BY DEF Numerals

LEMMA DigitIsBelow ==
  ASSUME NEW c, NEW b \in 1..16, \E n \in 1..16 : c \in Numerals[n], \A n \in (b + 1)..16 : c \notin Numerals[n]
  PROVE  DigitOf(c) \in 0..(b - 1)
<1> DEFINE n == CHOOSE n \in 1..16 : c \in Numerals[n]
<1>1. n \in 1..16 /\ c \in Numerals[n]
  OBVIOUS
<1>2. DigitOf(c) = n - 1
  BY DEF DigitOf
<1> HIDE DEF n
<1>3. n \in 1..b
  BY <1>1
<1> QED BY <1>2, <1>3

IsBase(D, b) == \A c \in D \ {Underscore} : DigitOf(c) \in 0..(b - 1) /\ IsDigit(c, b)

LEMMA BasesAre ==
  IsBase(HexDigits, 16) /\ IsBase(OctalDigits, 8) /\ IsBase(BinaryDigits, 2) /\ IsBase(NumberBytes, 10)
<1> DEFINE All == Digits \cup LowerHex \cup UpperHex
<1>1. \A c \in All : \E n \in 1..16 : c \in Numerals[n]
  <2> TAKE c \in All
  <2>1. \/ c = "0" \/ c = "1" \/ c = "2" \/ c = "3" \/ c = "4" \/ c = "5" \/ c = "6" \/ c = "7"
        \/ c = "8" \/ c = "9" \/ c \in {"a", "A"} \/ c \in {"b", "B"} \/ c \in {"c", "C"}
        \/ c \in {"d", "D"} \/ c \in {"e", "E"} \/ c \in {"f", "F"}
    BY DEF Digits, LowerHex, UpperHex
  <2> QED BY <2>1, NumeralsAre
<1>2. ASSUME NEW b \in 1..16, NEW D, D \ {Underscore} \subseteq All,
             \A c \in D \ {Underscore} : \A n \in (b + 1)..16 : c \notin Numerals[n]
      PROVE  IsBase(D, b)
  <2> SUFFICES ASSUME NEW c \in D \ {Underscore} PROVE DigitOf(c) \in 0..(b - 1) /\ IsDigit(c, b)
    BY DEF IsBase
  <2>1. c \in All
    BY <1>2
  <2> HIDE DEF All
  <2>2. DigitOf(c) \in 0..(b - 1)
    BY <1>1, <1>2, <2>1, DigitIsBelow
  <2>3. DigitOf(c) < b
    BY <2>2
  <2> QED BY <2>1, <2>2, <2>3 DEF IsDigit, All
<1> HIDE DEF All
<1>3. /\ HexDigits \ {Underscore} \subseteq All /\ OctalDigits \ {Underscore} \subseteq All
      /\ BinaryDigits \ {Underscore} \subseteq All /\ NumberBytes \ {Underscore} \subseteq All
  BY DEF HexDigits, OctalDigits, BinaryDigits, NumberBytes, All, Digits, Underscore
<1>4. IsBase(HexDigits, 16)
  <2>1. \A n \in (16 + 1)..16 : FALSE
    OBVIOUS
  <2>2. 16 \in 1..16
    OBVIOUS
  <2> QED BY <1>2, <1>3, <2>1, <2>2
<1>5. \A n \in 11..16 : n = 11 \/ n = 12 \/ n = 13 \/ n = 14 \/ n = 15 \/ n = 16
  OBVIOUS
<1>6. \A c \in Digits : \A n \in 11..16 : c \notin Numerals[n]
  BY <1>5, NumeralsAre DEF Digits
<1>7. IsBase(NumberBytes, 10)
  <2>1. \A c \in NumberBytes \ {Underscore} : \A n \in (10 + 1)..16 : c \notin Numerals[n]
    BY <1>6 DEF NumberBytes
  <2>2. 10 \in 1..16
    OBVIOUS
  <2> QED BY <1>2, <1>3, <2>1, <2>2
<1>8. IsBase(OctalDigits, 8)
  <2>1. \A n \in (8 + 1)..16 : n = 9 \/ n = 10 \/ n \in 11..16
    OBVIOUS
  <2>2. \A c \in OctalDigits \ {Underscore} : c \in Digits /\ c # "8" /\ c # "9"
    BY DEF OctalDigits, Digits, Underscore
  <2>3. \A c \in OctalDigits \ {Underscore} : \A n \in (8 + 1)..16 : c \notin Numerals[n]
    BY <1>6, <2>1, <2>2, NumeralsAre
  <2>4. 8 \in 1..16
    OBVIOUS
  <2> QED BY <1>2, <1>3, <2>3, <2>4
<1>9. IsBase(BinaryDigits, 2)
  <2>1. \A n \in (2 + 1)..16 : \/ n = 3 \/ n = 4 \/ n = 5 \/ n = 6 \/ n = 7 \/ n = 8 \/ n = 9 \/ n = 10
                               \/ n \in 11..16
    OBVIOUS
  <2>2. \A c \in BinaryDigits \ {Underscore} : c \in Digits /\ (c = "0" \/ c = "1")
    BY DEF BinaryDigits, Digits, Underscore
  <2>3. \A c \in BinaryDigits \ {Underscore} : \A n \in (2 + 1)..16 : c \notin Numerals[n]
    BY <1>6, <2>1, <2>2, NumeralsAre
  <2>4. 2 \in 1..16
    OBVIOUS
  <2> QED BY <1>2, <1>3, <2>3, <2>4
<1> QED BY <1>4, <1>7, <1>8, <1>9

(* What from_str_radix adds up, digit after digit.                            *)
FirstDigit(d) == IF Len(d) > 1 /\ d[1] = "+" THEN 2 ELSE 1
ValueStep(d, radix, f, n) == IF n < FirstDigit(d) THEN 0 ELSE f[n - 1] * radix + DigitOf(d[n])
ValueTo(d, radix) == CHOOSE f : f = [n \in 0..Len(d) |-> ValueStep(d, radix, f, n)]

LEMMA FromStrRadixIs ==
  ASSUME NEW d, NEW radix, NEW limit
  PROVE  FromStrRadix(d, radix, limit) =
           IF (d # <<>> /\ \A n \in FirstDigit(d)..Len(d) : IsDigit(d[n], radix)) /\ ValueTo(d, radix)[Len(d)] < limit
             THEN {ValueTo(d, radix)[Len(d)]} ELSE {}
BY DEF FromStrRadix, FirstDigit, ValueTo, ValueStep

ValueSo(d, radix, f) ==
  /\ f \in [0..Len(d) -> Nat] /\ f[0] = 0
  /\ \A n \in 1..Len(d) : f[n] = f[n - 1] * radix + DigitOf(d[n])

LEMMA ValueToIs ==
  ASSUME NEW T, NEW d \in Seq(T), FirstDigit(d) = 1, NEW radix \in Nat, \A n \in 1..Len(d) : DigitOf(d[n]) \in Nat
  PROVE  ValueSo(d, radix, ValueTo(d, radix))
<1> DEFINE N == Len(d)
           step == [x \in (1..N) \X Nat |-> x[2] * radix + DigitOf(d[x[1]])]
<1>1. N \in Nat /\ 0 \in 0..N
  OBVIOUS
<1>2. \A n \in 1..N : DigitOf(d[n]) \in Nat
  OBVIOUS
<1> HIDE DEF N
<1>3. \A n \in 1..N : \A v \in Nat : step[<<n, v>>] = v * radix + DigitOf(d[n]) /\ step[<<n, v>>] \in Nat
  <2> TAKE n \in 1..N
  <2> TAKE v \in Nat
  <2>1. step[<<n, v>>] = v * radix + DigitOf(d[n])
    OBVIOUS
  <2>2. \A a, b \in Nat : v * a + b \in Nat
    OBVIOUS
  <2>3. v * radix + DigitOf(d[n]) \in Nat
    BY <1>2, <2>2
  <2> QED BY <2>1, <2>3
<1>4. PICK f : f \in ByRecursion(N, Nat, 0, step)
  <2> HIDE DEF step
  <2>1. \A n \in 1..N : \A v \in Nat : step[<<n, v>>] \in Nat
    BY <1>3
  <2>2. 0 \in Nat
    OBVIOUS
  <2>3. ByRecursion(N, Nat, 0, step) # {}
    BY <1>1, <2>1, <2>2, Recursion
  <2> QED BY <2>3
<1> HIDE DEF step
<1>5. f \in [0..N -> Nat] /\ f[0] = 0 /\ \A n \in 1..N : f[n] = step[<<n, f[n - 1]>>]
  BY <1>4 DEF ByRecursion
<1>6. \A n \in 1..N : n - 1 \in 0..N /\ ~(n < 1) /\ n \in 0..N
  BY <1>1
<1>7. \A n \in 1..N : f[n] = f[n - 1] * radix + DigitOf(d[n])
  <2> TAKE n \in 1..N
  <2>1. f[n - 1] \in Nat
    BY <1>5, <1>6
  <2> QED BY <1>3, <1>5, <2>1
<1>8. f = [n \in 0..N |-> ValueStep(d, radix, f, n)]
  <2>1. ASSUME NEW n \in 0..N PROVE f[n] = ValueStep(d, radix, f, n)
    <3>1. CASE n = 0
      <4>1. 0 < 1
        OBVIOUS
      <4> QED BY <1>5, <3>1, <4>1 DEF ValueStep
    <3>2. CASE n # 0
      <4>1. n \in 1..N
        BY <1>1, <3>2
      <4> QED BY <1>6, <1>7, <4>1 DEF ValueStep
    <3> QED BY <3>1, <3>2
  <2> QED BY <1>5, <2>1
<1> DEFINE h == ValueTo(d, radix)
<1>9. h = [n \in 0..N |-> ValueStep(d, radix, h, n)]
  BY <1>8 DEF ValueTo, N
<1> HIDE DEF h
<1>10. h[0] = 0
  <2>1. h[0] = ValueStep(d, radix, h, 0)
    BY <1>1, <1>9
  <2>2. 0 < 1
    OBVIOUS
  <2> QED BY <2>1, <2>2 DEF ValueStep
<1>11. \A n \in 1..N : h[n] = h[n - 1] * radix + DigitOf(d[n])
  <2> TAKE n \in 1..N
  <2>1. h[n] = ValueStep(d, radix, h, n)
    BY <1>6, <1>9
  <2> QED BY <1>6, <2>1 DEF ValueStep
<1>12. \A n \in 0..N : h[n] \in Nat
  <2> DEFINE P == {n \in Nat : h[n] \in Nat}
  <2>1. 0 \in P
    BY <1>10
  <2>2. ASSUME NEW n \in 0..(N - 1), n \in P PROVE n + 1 \in P
    <3>1. n + 1 \in 1..N /\ n + 1 - 1 = n /\ n + 1 \in Nat
      BY <1>1
    <3>2. h[n + 1] = h[n] * radix + DigitOf(d[n + 1]) /\ h[n] \in Nat /\ DigitOf(d[n + 1]) \in Nat
      BY <1>2, <1>11, <2>2, <3>1
    <3>3. \A a, b \in Nat : a * radix + b \in Nat
      OBVIOUS
    <3> QED BY <3>1, <3>2, <3>3
  <2> HIDE DEF P
  <2>3. \A n \in 0..N : n \in P
    BY <1>1, <2>1, <2>2, UpTo
  <2> QED BY <2>3 DEF P
<1>13. h \in [0..N -> Nat]
  <2> DEFINE st(n) == ValueStep(d, radix, h, n)
  <2>1. h = [n \in 0..N |-> st(n)]
    BY <1>9
  <2> HIDE DEF st
  <2> QED BY <1>12, <2>1
<1> QED BY <1>10, <1>11, <1>13 DEF ValueSo, N, h

(* What the digits of a text are worth, by its definition by recursion.       *)
WeighStep(s, P, radix, f, i) ==
  IF i > Len(s) THEN <<0, 1>>
  ELSE IF i \in P THEN <<DigitOf(s[i]) * f[i + 1][2] + f[i + 1][1], radix * f[i + 1][2]>>
  ELSE f[i + 1]
WeighFrom(s, P, radix) == CHOOSE f : f = [i \in Nat |-> WeighStep(s, P, radix, f, i)]

LEMMA WeighedIs == ASSUME NEW s, NEW P, NEW radix PROVE Weighed(s, P, radix) = WeighFrom(s, P, radix)[1][1]
BY DEF Weighed, WeighFrom, WeighStep

LEMMA WeighStepIsAPair ==
  ASSUME NEW s, NEW P, NEW radix \in Nat, NEW i \in Nat, NEW f \in [Nat -> Nat \X Nat],
         i \in P => DigitOf(s[i]) \in Nat
  PROVE  WeighStep(s, P, radix, f, i) \in Nat \X Nat
<1>1. f[i + 1] \in Nat \X Nat
  OBVIOUS
<1>2. f[i + 1][1] \in Nat /\ f[i + 1][2] \in Nat
  BY <1>1
<1>3. \A a, b, c \in Nat : a * b + c \in Nat /\ a * b \in Nat
  <2>1. \A a, b \in Nat : a * b \in Nat
    OBVIOUS
  <2>2. \A a, b \in Nat : a + b \in Nat
    OBVIOUS
  <2> QED BY <2>1, <2>2
<1>4. CASE i > Len(s)
  BY <1>4 DEF WeighStep
<1>5. CASE ~(i > Len(s)) /\ i \in P
  <2>1. /\ DigitOf(s[i]) * f[i + 1][2] + f[i + 1][1] \in Nat
        /\ radix * f[i + 1][2] \in Nat
    BY <1>2, <1>3, <1>5
  <2> QED BY <1>5, <2>1 DEF WeighStep
<1>6. CASE ~(i > Len(s)) /\ i \notin P
  BY <1>1, <1>6 DEF WeighStep
<1> QED BY <1>4, <1>5, <1>6

LEMMA WeighFromIs ==
  ASSUME NEW s \in Text, NEW P, NEW radix \in Nat, \A i \in P : DigitOf(s[i]) \in Nat
  PROVE  \A i \in Nat : WeighFrom(s, P, radix)[i] \in Nat \X Nat /\ WeighFrom(s, P, radix)[i] = WeighStep(s, P, radix, WeighFrom(s, P, radix), i)
<1> DEFINE T == Nat \X Nat
           G == [Nat -> T]
           step == [x \in Nat \X G |-> WeighStep(s, P, radix, x[2], x[1])]
<1>1. \A i \in Nat : \A f \in G : step[<<i, f>>] = WeighStep(s, P, radix, f, i)
  OBVIOUS
<1>2. \A i \in Nat : \A f \in G : WeighStep(s, P, radix, f, i) \in T
  BY WeighStepIsAPair
<1>3. EndsAsIn(Len(s), G, step)
  <2> DEFINE f == [i \in Nat |-> <<0, 1>>]
  <2>1. f \in G
    OBVIOUS
  <2>2. \A i \in Nat : i > Len(s) => WeighStep(s, P, radix, f, i) = <<0, 1>>
    BY DEF WeighStep
  <2>3. \A i \in Nat : i > Len(s) => f[i] = step[<<i, f>>]
    <3>1. \A i \in Nat : f[i] = <<0, 1>> /\ step[<<i, f>>] = WeighStep(s, P, radix, f, i)
      BY <1>1, <2>1
    <3> QED BY <2>2, <3>1
  <2> HIDE DEF f, G, step
  <2> QED BY <2>1, <2>3 DEF EndsAsIn
<1>4. StepsStayIn(Len(s), G, step)
  <2>1. \A i \in 0..Len(s) : i \in Nat
    BY LengthIs
  <2>2. \A i \in Nat : \A f \in G : step[<<i, f>>] \in T
    BY <1>1, <1>2
  <2> HIDE DEF step, T
  <2> QED BY <2>1, <2>2 DEF StepsStayIn
<1>5. LooksLater(G, step)
  <2> SUFFICES ASSUME NEW i \in Nat, NEW f \in G, NEW g \in G, \A k \in Nat : k > i => f[k] = g[k]
               PROVE  step[<<i, f>>] = step[<<i, g>>]
    BY DEF LooksLater
  <2>1. f[i + 1] = g[i + 1]
    OBVIOUS
  <2>2. WeighStep(s, P, radix, f, i) = WeighStep(s, P, radix, g, i)
    BY <2>1, Zenon DEF WeighStep
  <2> HIDE DEF step, G
  <2> QED BY <1>1, <2>2
<1>6. PICK f \in G : \A i \in Nat : f[i] = step[<<i, f>>]
  <2> HIDE DEF step
  <2>1. Len(s) \in Nat /\ G \in SUBSET [Nat -> T]
    BY LengthIs
  <2> HIDE DEF G, T
  <2>2. Fulfilments(G, step) # {}
    BY <2>1, <1>3, <1>4, <1>5, Later
  <2> QED BY <2>2 DEF Fulfilments
<1>7. f = [i \in Nat |-> WeighStep(s, P, radix, f, i)]
  <2> HIDE DEF T
  <2>1. \A i \in Nat : f[i] = WeighStep(s, P, radix, f, i)
    <3> HIDE DEF step, G
    <3> QED BY <1>1, <1>6
  <2> QED BY <1>6, <2>1
<1> DEFINE h == WeighFrom(s, P, radix)
<1>8. h = [i \in Nat |-> WeighStep(s, P, radix, h, i)]
  BY <1>7 DEF WeighFrom
<1> HIDE DEF h
<1>9. \A i \in Nat : h[i] = WeighStep(s, P, radix, h, i)
  BY <1>8
<1> DEFINE S == {i \in Nat : h[i] \in T}
<1>10. ASSUME NEW i \in Nat, i > Len(s) PROVE i \in S
  <2>1. h[i] = <<0, 1>>
    BY <1>9, <1>10 DEF WeighStep
  <2>2. <<0, 1>> \in T
    OBVIOUS
  <2> HIDE DEF T
  <2> QED BY <2>1, <2>2
<1>11. ASSUME NEW i \in 0..Len(s), \A k \in Nat : k > i => k \in S PROVE i \in S
  <2>1. i \in Nat /\ i + 1 \in S
    <3>1. i \in Nat /\ i + 1 \in Nat /\ i + 1 > i
      BY LengthIs
    <3> HIDE DEF S
    <3> QED BY <1>11, <3>1
  <2> DEFINE g == [k \in Nat |-> h[i + 1]]
  <2>2. g \in [Nat -> Nat \X Nat] /\ g[i + 1] = h[i + 1]
    BY <2>1
  <2> HIDE DEF g
  <2>3. WeighStep(s, P, radix, g, i) = WeighStep(s, P, radix, h, i)
    BY <2>2, Zenon DEF WeighStep
  <2>4. WeighStep(s, P, radix, g, i) \in Nat \X Nat
    BY <2>1, <2>2, WeighStepIsAPair
  <2> QED BY <1>9, <2>1, <2>3, <2>4
<1>12. \A i \in Nat : i \in S
  <2> HIDE DEF S
  <2> QED BY <1>10, <1>11, LengthIs, Downwards
<1> QED BY <1>9, <1>12 DEF h

(* Adding the digits up from the left comes to what they weigh: at each place *)
(* the sum so far weighs what is before the rest.                             *)
LEMMA Weigh ==
  ASSUME NEW v \in Nat, NEW radix \in Nat, NEW c \in Nat, NEW x \in Nat, NEW y \in Nat
  PROVE  (v * radix + c) * x + y = v * (radix * x) + (c * x + y)
OBVIOUS

IsWritten(s, a, w) ==
  /\ s \in Text /\ Len(s) \in Nat /\ a \in 1..(Len(s) + 1)
  /\ w \in Seq(Bytes) /\ Len(w) \in Nat /\ Len(w) = Len(s) + 1 - a
  /\ \A k \in 1..Len(w) : w[k] = s[a + k - 1]

AreDigits(s, a, w, S, P, radix) ==
  /\ IsWritten(s, a, w) /\ P = {i \in a..Len(s) : s[i] \in S}
  /\ radix \in Nat /\ \A i \in P : DigitOf(s[i]) \in Nat

LEMMA SumsAreEqual ==
  ASSUME NEW s, NEW a, NEW w, NEW S, NEW P, NEW radix, AreDigits(s, a, w, S, P, radix),
         NEW d, d = Kept(w, S), FirstDigit(d) = 1
  PROVE  /\ ValueTo(d, radix)[Len(d)] = Weighed(s, P, radix) /\ Weighed(s, P, radix) \in Nat
<1> SUFFICES ASSUME IsWritten(s, a, w), P = {i \in a..Len(s) : s[i] \in S},
                    radix \in Nat, \A i \in P : DigitOf(s[i]) \in Nat
             PROVE  ValueTo(d, radix)[Len(d)] = Weighed(s, P, radix) /\ Weighed(s, P, radix) \in Nat
  BY DEF AreDigits
<1> DEFINE N == Len(w)
           f == KeptTo(w, S)
           V == ValueTo(d, radix)
           W == WeighFrom(s, P, radix)
<1>1. /\ s \in Text /\ Len(s) \in Nat /\ a \in Nat /\ a >= 1 /\ N \in Nat /\ N = Len(s) + 1 - a /\ a + N = Len(s) + 1
      /\ w \in Seq(Bytes) /\ \A k \in 1..N : w[k] = s[a + k - 1]
  BY DEF IsWritten
<1>2. KeptSo(Bytes, w, S, f) /\ d = f[N]
  <2>1. d = f[N]
    BY KeptIs
  <2> QED BY <1>1, <2>1, KeptToIs
<1>3. \A k \in 1..N : w[k] \in S <=> a + k - 1 \in P
  <2>1. \A k \in 1..N : a + k - 1 \in a..Len(s)
    BY <1>1
  <2> QED BY <1>1, <2>1
<1> HIDE DEF f
<1>4. /\ \A n \in 0..N : f[n] \in Seq(Bytes) /\ KeptFrom(w, S, n, f[n])
      /\ \A n \in 0..N : StartOf(f[n], d)
  BY <1>1, <1>2, KeptFromIs, KeptStarts
<1>5. d \in Seq(Bytes) /\ KeptFrom(w, S, N, d) /\ Len(d) \in Nat
  <2>1. N \in 0..N
    BY <1>1
  <2>2. d \in Seq(Bytes) /\ KeptFrom(w, S, N, d)
    BY <1>2, <1>4, <2>1
  <2> QED BY <2>2
<1>6. \A n \in 1..Len(d) : DigitOf(d[n]) \in Nat
  <2> TAKE n \in 1..Len(d)
  <2>1. PICK k \in 1..N : d[n] = w[k] /\ d[n] \in S
    BY <1>5 DEF KeptFrom
  <2>2. DigitOf(s[a + k - 1]) \in Nat
    BY <1>3, <2>1
  <2> QED BY <1>1, <2>1, <2>2
<1>7. ValueSo(d, radix, V)
  BY <1>5, <1>6, ValueToIs
<1>8. \A i \in Nat : W[i] \in Nat \X Nat /\ W[i] = WeighStep(s, P, radix, W, i)
  <2>1. s \in Text /\ radix \in Nat /\ \A i \in P : DigitOf(s[i]) \in Nat
    BY <1>1
  <2> HIDE DEF V
  <2> QED BY <2>1, WeighFromIs DEF W
<1> HIDE DEF N, V, W
<1>9. /\ V \in [0..Len(d) -> Nat] /\ V[0] = 0
      /\ \A n \in 1..Len(d) : V[n] = V[n - 1] * radix + DigitOf(d[n])
  BY <1>7 DEF ValueSo
<1>10. \A i \in Nat : W[i][1] \in Nat /\ W[i][2] \in Nat
  BY <1>8
<1> DEFINE Summed == {n \in Nat : V[Len(f[n])] * W[a + n][2] + W[a + n][1] = W[a][1]}
<1>11. 0 \in Summed
  <2>1. f[0] = <<>> /\ Len(<<>>) = 0 /\ a + 0 = a
    BY <1>1, <1>2 DEF KeptSo
  <2>2. V[Len(f[0])] = 0
    BY <1>9, <2>1
  <2>3. \A x, y \in Nat : 0 * x + y = y
    OBVIOUS
  <2>4. 0 * W[a][2] + W[a][1] = W[a][1]
    BY <1>1, <1>10, <2>3
  <2> QED BY <2>1, <2>2, <2>4
<1>12. ASSUME NEW n \in 0..(N - 1), n \in Summed PROVE n + 1 \in Summed
  <2>1. /\ n \in Nat /\ n + 1 \in 1..N /\ n + 1 - 1 = n /\ n \in 0..N /\ n + 1 \in 0..N /\ n + 1 \in Nat
        /\ a + n \in Nat /\ a + (n + 1) = a + n + 1 /\ a + n + 1 \in Nat /\ a + (n + 1) - 1 = a + n
        /\ ~(a + n > Len(s))
    BY <1>1
  <2>2. f[n + 1] = IF w[n + 1] \in S THEN Append(f[n], w[n + 1]) ELSE f[n]
    BY <1>2, <2>1 DEF KeptSo, N
  <2>3. w[n + 1] = s[a + n] /\ (w[n + 1] \in S <=> a + n \in P)
    <3>1. w[n + 1] = s[a + (n + 1) - 1] /\ (w[n + 1] \in S <=> a + (n + 1) - 1 \in P)
      BY <1>1, <1>3, <2>1
    <3> QED BY <2>1, <3>1
  <2>4. V[Len(f[n])] * W[a + n][2] + W[a + n][1] = W[a][1]
    BY <1>12
  <2>5. f[n] \in Seq(Bytes) /\ Len(f[n]) \in Nat
    <3>1. f[n] \in Seq(Bytes)
      BY <1>4, <2>1
    <3> QED BY <3>1
  <2>6. W[a + n] = WeighStep(s, P, radix, W, a + n)
    BY <1>8, <2>1
  <2>7. CASE w[n + 1] \in S
    <3> DEFINE L == Len(f[n])
               c == DigitOf(s[a + n])
               x == W[a + n + 1][2]
               y == W[a + n + 1][1]
    <3>1. f[n + 1] = Append(f[n], s[a + n])
      BY <2>2, <2>3, <2>7
    <3>2. s[a + n] \in Bytes
      <4>1. a + n \in 1..Len(s)
        BY <1>1, <2>1
      <4> QED BY <1>1, <4>1, AtIs
    <3>3. Len(f[n + 1]) = L + 1 /\ f[n + 1][L + 1] = s[a + n]
      BY <2>5, <3>1, <3>2
    <3>4. StartOf(f[n + 1], d)
      BY <1>4, <2>1
    <3>5. L + 1 \in 1..Len(d) /\ d[L + 1] = s[a + n] /\ L + 1 - 1 = L /\ L \in 0..Len(d)
      <4>1. L \in Nat /\ L + 1 <= Len(d) /\ L + 1 \in 1..(L + 1)
        BY <2>5, <3>3, <3>4 DEF StartOf
      <4>2. d[L + 1] = s[a + n]
        BY <3>3, <3>4, <4>1 DEF StartOf
      <4> HIDE DEF L
      <4> QED BY <1>5, <4>1, <4>2
    <3>6. V[Len(f[n + 1])] = V[L] * radix + c /\ V[L] \in Nat
      <4>1. PICK k \in 1..Len(d) : k = Len(f[n + 1]) /\ k = L + 1 /\ k - 1 = L
        BY <3>3, <3>5
      <4>2. V[k] = V[k - 1] * radix + DigitOf(d[k])
        BY <1>9
      <4>3. d[k] = s[a + n] /\ V[L] \in Nat
        BY <1>9, <3>5, <4>1
      <4> HIDE DEF L
      <4> QED BY <4>1, <4>2, <4>3
    <3>7. W[a + n] = <<c * x + y, radix * x>>
      BY <2>1, <2>3, <2>6, <2>7 DEF WeighStep
    <3>8. c \in Nat /\ x \in Nat /\ y \in Nat
      BY <1>10, <2>1, <2>3, <2>7
    <3>9. W[a + n][1] = c * x + y /\ W[a + n][2] = radix * x
      BY <3>7
    <3>10. V[L] * (radix * x) + (c * x + y) = W[a][1]
      BY <2>4, <3>9
    <3> HIDE DEF L, c
    <3>11. (V[L] * radix + c) * x + y = W[a][1]
      <4> HIDE DEF x, y
      <4>1. (V[L] * radix + c) * x + y = V[L] * (radix * x) + (c * x + y)
        BY <3>6, <3>8, Weigh
      <4> QED BY <3>10, <4>1
    <3>12. V[Len(f[n + 1])] * W[a + (n + 1)][2] + W[a + (n + 1)][1] = W[a][1]
      BY <2>1, <3>6, <3>11
    <3> QED BY <2>1, <3>12
  <2>8. CASE w[n + 1] \notin S
    <3>1. f[n + 1] = f[n]
      BY <2>2, <2>8
    <3>2. W[a + n] = W[a + n + 1]
      BY <2>1, <2>3, <2>6, <2>8 DEF WeighStep
    <3>3. V[Len(f[n + 1])] * W[a + (n + 1)][2] + W[a + (n + 1)][1] = W[a][1]
      BY <2>1, <2>4, <3>1, <3>2
    <3> QED BY <2>1, <3>3
  <2> QED BY <2>7, <2>8
<1>13. V[Len(d)] = W[a][1] /\ V[Len(d)] \in Nat
  <2>1. N \in 0..N /\ N \in Nat
    BY <1>1
  <2>2. N \in Summed
    <3> HIDE DEF Summed
    <3>1. \A n \in 0..N : n \in Summed
      BY <1>1, <1>11, <1>12, UpTo
    <3> QED BY <2>1, <3>1
  <2>3. V[Len(d)] * W[a + N][2] + W[a + N][1] = W[a][1]
    BY <1>2, <2>2
  <2>4. a + N > Len(s) /\ a + N \in Nat
    BY <1>1
  <2>5. W[a + N] = <<0, 1>>
    BY <1>8, <2>4 DEF WeighStep
  <2>6. V[Len(d)] \in Nat
    <3>1. Len(d) \in 0..Len(d)
      BY <1>5
    <3> QED BY <1>9, <3>1
  <2>7. W[a + N][1] = 0 /\ W[a + N][2] = 1
    BY <2>5
  <2>8. \A v \in Nat : v * 1 + 0 = v
    OBVIOUS
  <2> QED BY <2>3, <2>6, <2>7, <2>8
<1>14. W[1] = W[a]
  <2> DEFINE Q == {i \in Nat : W[i] = W[1]}
  <2>1. 1 \in Q
    OBVIOUS
  <2>2. ASSUME NEW i \in 1..(a - 1), i \in Q PROVE i + 1 \in Q
    <3>1. i \in Nat /\ i + 1 \in Nat /\ ~(i > Len(s)) /\ i \notin a..Len(s)
      BY <1>1 DEF IsWritten
    <3>2. i \notin P
      BY <3>1
    <3>3. W[i] = W[i + 1]
      BY <1>8, <3>1, <3>2 DEF WeighStep
    <3> QED BY <2>2, <3>1, <3>3
  <2> HIDE DEF Q
  <2>3. \A i \in 1..a : i \in Q
    BY <1>1, <2>1, <2>2, UpTo
  <2>4. a \in 1..a
    BY <1>1
  <2> QED BY <2>3, <2>4 DEF Q
<1> QED BY <1>13, <1>14, WeighedIs DEF V, W

(* What the lexer takes for an integer: the bytes from a on are digits of its *)
(* radix, and these are what process_int reads.                               *)
IntText(s, D, b, a, w) ==
  /\ IsWritten(s, a, w) /\ b \in Nat /\ IsBase(D, b) /\ BaseOf(s) = b
  /\ Places(s) = {i \in a..Len(s) : s[i] # Underscore}
  /\ \A i \in a..Len(s) : s[i] \in D
  /\ process_int(s) = FromStrRadix(Kept(w, ToSet(w) \ {Underscore}), b, IntLimit)

LEMMA RadixLetters ==
  /\ \A c \in {"x", "X"} : c \in Letters /\ c \notin {"o", "O"} /\ c \notin {"b", "B"}
  /\ \A c \in {"o", "O"} : c \in Letters /\ c \notin {"x", "X"} /\ c \notin {"b", "B"}
  /\ \A c \in {"b", "B"} : c \in Letters /\ c \notin {"x", "X"} /\ c \notin {"o", "O"}
  /\ \A c \in NumberBytes : c \notin Letters
  /\ \A c \in {"x", "X", "o", "O", "b", "B"} : c # Outside /\ c \in Letters
<1>1. \A c \in {"x", "X", "o", "O", "b", "B"} : c # Outside /\ c \in Letters
  BY DEF Letters, LowerHex, UpperHex, Outside
<1>2. \A c \in NumberBytes : c \notin Letters
  BY DEF NumberBytes, Digits, Underscore, Letters, LowerHex, UpperHex
<1> QED BY <1>1, <1>2

LEMMA PrefixedIntIs ==
  ASSUME NEW s \in Text, NEW r \in Radixes, At(s, 1) = "0", At(s, 2) \in r[1], At(s, 3) \in r[2],
         IsRun(s, 3, r[2], Len(s) + 1)
  PROVE  \E D, b, a, w : IntText(s, D, b, a, w)
<1> DEFINE w == Slice(s, 3, Len(s) + 1)
           b == BaseOf(s)
<1>1. \/ r[1] = {"x", "X"} /\ r[2] = HexDigits
      \/ r[1] = {"o", "O"} /\ r[2] = OctalDigits
      \/ r[1] = {"b", "B"} /\ r[2] = BinaryDigits
  BY DEF Radixes
<1>2. Len(s) \in Nat /\ 3 \in 1..Len(s) /\ 2 \in 1..Len(s) /\ At(s, 2) \in Letters /\ At(s, 2) # Outside
  <2>1. Outside \notin r[2]
    BY OutsideIsNoByte
  <2>2. 3 \in 1..Len(s) /\ Len(s) \in Nat
    BY <2>1, AtIs, LengthIs
  <2>3. At(s, 2) \in Letters /\ At(s, 2) # Outside
    BY <1>1, RadixLetters
  <2> QED BY <2>2, <2>3
<1>3. Prefixed(s) /\ s[2] = At(s, 2)
  <2>1. s[2] = At(s, 2) /\ At(s, 2) \in {"x", "X", "o", "O", "b", "B"}
    BY <1>1, <1>2, AtIs
  <2> QED BY <2>1 DEF Prefixed
<1>4. \/ r[2] = HexDigits /\ b = 16 /\ RadixOf(s) = 16
      \/ r[2] = OctalDigits /\ b = 8 /\ RadixOf(s) = 8
      \/ r[2] = BinaryDigits /\ b = 2 /\ RadixOf(s) = 2
  <2>1. CASE r[1] = {"x", "X"} /\ r[2] = HexDigits
    <3>1. At(s, 2) \in {"x", "X"} /\ At(s, 2) \notin {"o", "O"} /\ At(s, 2) \notin {"b", "B"}
      BY <2>1, RadixLetters
    <3> QED BY <1>3, <2>1, <3>1 DEF BaseOf, RadixOf
  <2>2. CASE r[1] = {"o", "O"} /\ r[2] = OctalDigits
    <3>1. At(s, 2) \in {"o", "O"} /\ At(s, 2) \notin {"x", "X"} /\ At(s, 2) \notin {"b", "B"}
      BY <2>2, RadixLetters
    <3> QED BY <1>3, <2>2, <3>1 DEF BaseOf, RadixOf
  <2>3. CASE r[1] = {"b", "B"} /\ r[2] = BinaryDigits
    <3>1. At(s, 2) \in {"b", "B"} /\ At(s, 2) \notin {"x", "X"} /\ At(s, 2) \notin {"o", "O"}
      BY <2>3, RadixLetters
    <3> QED BY <1>3, <2>3, <3>1 DEF BaseOf, RadixOf
  <2> QED BY <1>1, <2>1, <2>2, <2>3
<1> HIDE DEF b
<1>5. IsBase(r[2], b) /\ b \in Nat /\ RadixOf(s) = b
  BY <1>4, BasesAre
<1>6. IsWritten(s, 3, w)
  <2>1. Len(s) + 1 \in 3..(Len(s) + 1) /\ 3 \in 1..(Len(s) + 1)
    BY <1>2
  <2>2. /\ w \in Text /\ Len(w) = (Len(s) + 1) - 3
        /\ \A k \in 1..((Len(s) + 1) - 3) : w[k] = s[3 + k - 1]
    BY <1>2, <2>1, SliceUpTo
  <2> HIDE DEF w
  <2>3. Len(w) \in Nat /\ Len(w) = Len(s) + 1 - 3
    BY <2>2, LengthIs
  <2> QED BY <1>2, <2>1, <2>2, <2>3 DEF IsWritten, Text
<1>7. Places(s) = {i \in 3..Len(s) : s[i] # Underscore}
  BY <1>2 DEF Places
<1>8. \A i \in 3..Len(s) : s[i] \in r[2]
  <2>1. \A i \in 3..((Len(s) + 1) - 1) : s[i] \in r[2]
    BY DEF IsRun
  <2>2. (Len(s) + 1) - 1 = Len(s)
    BY <1>2
  <2> QED BY <2>1, <2>2
<1>9. process_int(s) = FromStrRadix(Kept(w, ToSet(w) \ {Underscore}), b, IntLimit)
  BY <1>3, <1>5 DEF process_int
<1> HIDE DEF w
<1> QED BY <1>5, <1>6, <1>7, <1>8, <1>9 DEF IntText, b

LEMMA PlainIntIs ==
  ASSUME NEW s \in Text, Len(s) >= 1, IsRun(s, 1, NumberBytes, Len(s) + 1)
  PROVE  \E D, b, a, w : IntText(s, D, b, a, w)
<1>1. Len(s) \in Nat /\ 1 \in 1..(Len(s) + 1) /\ \A i \in 1..Len(s) : s[i] \in NumberBytes
  <2>1. Len(s) \in Nat
    BY LengthIs
  <2>2. (Len(s) + 1) - 1 = Len(s) /\ 1 \in 1..(Len(s) + 1)
    BY <2>1
  <2>3. \A i \in 1..((Len(s) + 1) - 1) : s[i] \in NumberBytes
    BY DEF IsRun
  <2> QED BY <2>1, <2>2, <2>3
<1>2. At(s, 2) \notin Letters
  <2>1. CASE 2 \in 1..Len(s)
    BY <1>1, <2>1, AtIs, RadixLetters
  <2>2. CASE 2 \notin 1..Len(s)
    <3>1. At(s, 2) = Outside /\ Outside \notin Letters
      BY <2>2, AtIs, OutsideIsNoByte
    <3> QED BY <3>1
  <2> QED BY <2>1, <2>2
<1>3. At(s, 2) \notin {"x", "X"} /\ At(s, 2) \notin {"o", "O"} /\ At(s, 2) \notin {"b", "B"}
      /\ At(s, 2) \notin {"x", "X", "o", "O", "b", "B"}
  BY <1>2, RadixLetters
<1>4. ~Prefixed(s)
  BY <1>3 DEF Prefixed
<1>5. BaseOf(s) = 10 /\ RadixOf(s) = 10
  BY <1>3, <1>4 DEF BaseOf, RadixOf
<1>6. IsWritten(s, 1, s)
  <2>1. \A k \in 1..Len(s) : 1 + k - 1 = k
    OBVIOUS
  <2>2. Len(s) = Len(s) + 1 - 1
    BY <1>1
  <2> QED BY <1>1, <2>1, <2>2 DEF IsWritten, Text
<1>7. Places(s) = {i \in 1..Len(s) : s[i] # Underscore}
  BY <1>2 DEF Places
<1>8. process_int(s) = FromStrRadix(Kept(s, ToSet(s) \ {Underscore}), 10, IntLimit)
  BY <1>4, <1>5 DEF process_int
<1>9. IntText(s, NumberBytes, 10, 1, s)
  BY <1>1, <1>5, <1>6, <1>7, <1>8, BasesAre DEF IntText
<1> QED BY <1>9

LEMMA IntTextIs ==
  ASSUME NEW s, Alone(s, "Int")
  PROVE  \E D, b, a, w : IntText(s, D, b, a, w)
<1> DEFINE m == Longest(s, 1)
           j == m.end
<1>1. s \in Text /\ Len(s) \in Nat /\ Len(s) >= 1
  BY DEF Alone
<1>2. /\ "Int" \in KindsFrom(m.kind) /\ j \in 2..(Len(s) + 1) /\ Shape(s, 1, m.kind, m.priority, j)
      /\ (m.kind = "Decimal" => lex_decimal_number(s, j) = Done("Int", Len(s) + 1))
      /\ (m.kind \notin ByHand => j = Len(s) + 1)
  <2>1. "Int" \in Kinds
    BY DEF Kinds
  <2> HIDE DEF m
  <2> QED BY <2>1, AloneIs DEF m
<1> HIDE DEF m
<1>3. m.kind = "Decimal" \/ m.kind = "Int"
  BY <1>2 DEF KindsFrom
<1>4. CASE m.kind = "Int"
  <2>1. j = Len(s) + 1
    BY <1>2, <1>4 DEF ByHand
  <2>2. IsInt(s, 1, j)
    BY <1>2, <1>4 DEF Shape
  <2> HIDE DEF j
  <2>3. PICK r \in Radixes : At(s, 1) = "0" /\ At(s, 1 + 1) \in r[1] /\ At(s, 1 + 2) \in r[2]
                             /\ IsRun(s, 1 + 2, r[2], j)
    BY <2>2 DEF IsInt
  <2>4. 1 + 1 = 2 /\ 1 + 2 = 3
    OBVIOUS
  <2>5. At(s, 2) \in r[1] /\ At(s, 3) \in r[2] /\ IsRun(s, 3, r[2], Len(s) + 1)
    BY <2>1, <2>3, <2>4
  <2> QED BY <1>1, <2>3, <2>5, PrefixedIntIs
<1>5. CASE m.kind = "Decimal"
  <2>1. IsRun(s, 1, NumberBytes, j) /\ lex_decimal_number(s, j) = Done("Int", Len(s) + 1)
    BY <1>2, <1>5 DEF Shape
  <2> HIDE DEF j
  <2>2. j \in 1..(Len(s) + 1)
    BY <1>1, <1>2
  <2>3. PICK k, e \in Nat :
          /\ IsNumber(s, j, k, e)
          /\ lex_decimal_number(s, j) = Done(IF Dot(s, j) \/ Exponent(s, k) THEN "Float" ELSE "Int", e)
    BY <1>1, <2>2, lex_decimal_numberIs
  <2>4. e = Len(s) + 1 /\ (IF Dot(s, j) \/ Exponent(s, k) THEN "Float" ELSE "Int") = "Int"
    BY <2>1, <2>3, OutcomesDiffer
  <2>5. ~Dot(s, j) /\ ~Exponent(s, k)
    BY <2>4
  <2>6. j = Len(s) + 1
    BY <2>3, <2>4, <2>5 DEF IsNumber
  <2> QED BY <1>1, <2>1, <2>6, PlainIntIs
<1> QED BY <1>3, <1>4, <1>5

(* An integer is what its digits are worth, and has no value only when it has *)
(* none or too large a one.                                                   *)
LEMMA IntsAreRead ==
  ASSUME NEW s, Alone(s, "Int")
  PROVE  /\ \A v \in process_int(s) : v = Worth(s)
         /\ process_int(s) = {} => Places(s) = {} \/ Worth(s) >= IntLimit
<1>1. PICK D, b, a, w : IntText(s, D, b, a, w)
  BY IntTextIs
<1> DEFINE S == ToSet(w) \ {Underscore}
           d == Kept(w, S)
           f == KeptTo(w, S)
           N == Len(w)
<1>2. /\ IsWritten(s, a, w) /\ b \in Nat /\ IsBase(D, b) /\ BaseOf(s) = b
      /\ Places(s) = {i \in a..Len(s) : s[i] # Underscore} /\ \A i \in a..Len(s) : s[i] \in D
  BY <1>1 DEF IntText
<1>3. process_int(s) = FromStrRadix(d, b, IntLimit)
  BY <1>1 DEF IntText
<1>4. /\ s \in Text /\ Len(s) \in Nat /\ a \in Nat /\ a >= 1 /\ N \in Nat /\ N = Len(s) + 1 - a
      /\ w \in Seq(Bytes) /\ \A k \in 1..N : w[k] = s[a + k - 1]
  BY <1>2 DEF IsWritten
<1>5. \A i \in Places(s) : DigitOf(s[i]) \in Nat /\ IsDigit(s[i], b)
  <2> TAKE i \in Places(s)
  <2>1. s[i] \in D \ {Underscore}
    BY <1>2
  <2>2. DigitOf(s[i]) \in 0..(b - 1) /\ IsDigit(s[i], b)
    BY <1>2, <2>1 DEF IsBase
  <2> QED BY <1>2, <2>2
<1>6. KeptSo(Bytes, w, S, f) /\ d = f[N]
  <2>1. d = f[N]
    BY KeptIs
  <2> QED BY <1>4, <2>1, KeptToIs
<1>7. /\ \A k \in 1..N : w[k] \in S <=> a + k - 1 \in Places(s)
      /\ \A i \in a..Len(s) : \E k \in 1..N : i = a + k - 1
  <2>1. \A k \in 1..N : w[k] \in ToSet(w)
    BY <1>4 DEF ToSet
  <2>2. \A k \in 1..N : a + k - 1 \in a..Len(s)
    BY <1>4
  <2>3. \A i \in a..Len(s) : i - a + 1 \in 1..N /\ i = a + (i - a + 1) - 1
    BY <1>4
  <2>4. \A k \in 1..N : w[k] \in S <=> a + k - 1 \in Places(s)
    BY <1>2, <1>4, <2>1, <2>2
  <2> HIDE DEF N
  <2> QED BY <2>3, <2>4
<1> HIDE DEF S, f, d
<1>8. d \in Seq(Bytes) /\ KeptFrom(w, S, N, d) /\ Len(d) \in Nat
  <2>1. N \in 0..N
    BY <1>4
  <2>2. d \in Seq(Bytes) /\ KeptFrom(w, S, N, d)
    BY <1>4, <1>6, <2>1, KeptFromIs
  <2> QED BY <2>2
<1> HIDE DEF N
<1>9. \A n \in 1..Len(d) : IsDigit(d[n], b)
  <2> TAKE n \in 1..Len(d)
  <2>1. PICK k \in 1..N : d[n] = w[k] /\ d[n] \in S
    BY <1>8 DEF KeptFrom, N
  <2>2. a + k - 1 \in Places(s) /\ w[k] = s[a + k - 1]
    BY <1>4, <1>7, <2>1
  <2> QED BY <1>5, <2>1, <2>2
<1>10. d # <<>> <=> Places(s) # {}
  <2>1. d # <<>> <=> \E k \in 1..N : w[k] \in S
    BY <1>8 DEF KeptFrom
  <2>2. (\E k \in 1..N : w[k] \in S) => Places(s) # {}
    BY <1>7
  <2>3. ASSUME NEW i \in Places(s) PROVE \E k \in 1..N : w[k] \in S
    <3>1. PICK k \in 1..N : i = a + k - 1
      BY <1>2, <1>7
    <3> QED BY <1>7, <3>1
  <2> QED BY <2>1, <2>2, <2>3
<1>11. FirstDigit(d) = 1
  <2>1. CASE Len(d) > 1
    <3>1. 1 \in 1..Len(d)
      BY <1>8, <2>1
    <3>2. d[1] \in Digits \cup LowerHex \cup UpperHex
      BY <1>9, <3>1 DEF IsDigit
    <3>3. "+" \notin Digits \cup LowerHex \cup UpperHex
      BY DEF Digits, LowerHex, UpperHex
    <3> QED BY <3>2, <3>3 DEF FirstDigit
  <2>2. CASE ~(Len(d) > 1)
    BY <2>2 DEF FirstDigit
  <2> QED BY <2>1, <2>2
<1>12. ValueTo(d, b)[Len(d)] = Worth(s) /\ Worth(s) \in Nat
  <2>1. \A i \in Places(s) : DigitOf(s[i]) \in Nat
    BY <1>5
  <2>2. Places(s) = {i \in a..Len(s) : s[i] \in S}
    <3>1. ASSUME NEW i \in a..Len(s) PROVE i \in Places(s) <=> s[i] \in S
      <4>1. PICK k \in 1..N : i = a + k - 1
        BY <1>7
      <4>2. w[k] = s[i]
        BY <1>4, <4>1 DEF N
      <4> QED BY <1>7, <4>1, <4>2
    <3>2. \A i \in Places(s) : i \in a..Len(s)
      BY <1>2
    <3> QED BY <3>1, <3>2
  <2>3. d = Kept(w, S)
    BY DEF d
  <2>4. ValueTo(d, b)[Len(d)] = Weighed(s, Places(s), b) /\ Weighed(s, Places(s), b) \in Nat
    <3>1. AreDigits(s, a, w, S, Places(s), b)
      BY <1>2, <2>1, <2>2 DEF AreDigits
    <3> QED BY <1>11, <2>3, <3>1, SumsAreEqual
  <2> QED BY <1>2, <2>4 DEF Worth
<1>13. \A n \in FirstDigit(d)..Len(d) : IsDigit(d[n], b)
  BY <1>9, <1>11
<1>14. process_int(s) = IF d # <<>> /\ Worth(s) < IntLimit THEN {Worth(s)} ELSE {}
  BY <1>3, <1>12, <1>13, FromStrRadixIs
<1>15. CASE d # <<>> /\ Worth(s) < IntLimit
  BY <1>14, <1>15
<1>16. CASE d = <<>>
  BY <1>10, <1>14, <1>16
<1>17. CASE ~(Worth(s) < IntLimit)
  <2>1. Worth(s) >= IntLimit
    BY <1>12, <1>17, IntLimitAssumption
  <2> QED BY <1>14, <1>17, <2>1
<1> QED BY <1>15, <1>16, <1>17
-----------------------------------------------------------------------------
(* The code of a \u: the bytes up to the closing brace, and the number that   *)
(* from_str_radix makes of them.                                              *)
Hexadecimal == Digits \cup LowerHex \cup UpperHex

LEMMA KeptAll ==
  ASSUME NEW T, NEW c \in Seq(T), NEW S, \A k \in 1..Len(c) : c[k] \in S
  PROVE  Kept(c, S) = c
<1> DEFINE N == Len(c)
           f == KeptTo(c, S)
           P == {n \in Nat : n \in 0..N => Len(f[n]) = n}
<1>1. KeptSo(T, c, S, f) /\ N \in Nat
  BY KeptToIs
<1>2. Kept(c, S) = f[N]
  BY KeptIs
<1>3. \A n \in 0..N : StartOf(f[n], f[N])
  BY <1>1, KeptStarts
<1> HIDE DEF f
<1>4. /\ \A n \in 0..N : f[n] \in Seq(T)
      /\ f[0] = <<>> /\ \A n \in 1..N : f[n] = Append(f[n - 1], c[n])
  BY <1>1 DEF KeptSo
<1>5. \A n \in 1..N : c[n] \in T
  OBVIOUS
<1> HIDE DEF N
<1>6. 0 \in P
  BY <1>4
<1>7. ASSUME NEW n \in 0..(N - 1), n \in P PROVE n + 1 \in P
  <2>1. n \in Nat /\ n \in 0..N /\ n + 1 \in 1..N /\ n + 1 - 1 = n /\ n + 1 \in Nat
    BY <1>1
  <2>2. f[n] \in Seq(T) /\ c[n + 1] \in T /\ f[n + 1] = Append(f[n], c[n + 1]) /\ Len(f[n]) = n
    BY <1>4, <1>5, <1>7, <2>1
  <2> QED BY <2>1, <2>2
<1>8. \A n \in 0..N : n \in P
  <2> HIDE DEF P
  <2> QED BY <1>1, <1>6, <1>7, UpTo
<1>9. N \in 0..N /\ f[N] \in Seq(T) /\ Len(f[N]) = N
  BY <1>1, <1>4, <1>8
<1>10. ASSUME NEW n \in 1..N PROVE f[N][n] = c[n]
  <2>1. n \in 0..N /\ n - 1 \in 0..N /\ n - 1 \in Nat /\ n \in Nat
    BY <1>1
  <2>2. f[n - 1] \in Seq(T) /\ c[n] \in T /\ f[n] = Append(f[n - 1], c[n]) /\ Len(f[n - 1]) = n - 1
    BY <1>4, <1>5, <1>8, <2>1
  <2>3. Len(f[n]) = n /\ f[n][n] = c[n]
    BY <2>1, <2>2
  <2>4. n \in 1..Len(f[n])
    BY <2>1, <2>3
  <2> QED BY <1>3, <2>1, <2>3, <2>4 DEF StartOf
<1>11. f[N] = c
  BY <1>9, <1>10 DEF N
<1> QED BY <1>2, <1>11

LEMMA CodeIsRead ==
  ASSUME NEW c \in Text, At(c, 1) # "+",
         NEW number, number = Weighed(c, DOMAIN c, 16),
         NEW ok, ok = (c # <<>> /\ \A n \in DOMAIN c : c[n] \in Hexadecimal)
  PROVE  /\ ok /\ number <= MaxChar /\ number \notin Surrogates =>
              FromStrRadix(c, 16, MaxChar + 1) \ Surrogates = {number}
         /\ ~(ok /\ number <= MaxChar /\ number \notin Surrogates) =>
              FromStrRadix(c, 16, MaxChar + 1) \ Surrogates = {}
<1> DEFINE L == Len(c)
           read == FromStrRadix(c, 16, MaxChar + 1)
<1>1. L \in Nat /\ DOMAIN c = 1..L
  BY LengthIs
<1>2. FirstDigit(c) = 1
  <2>1. L > 1 => 1 \in 1..L
    BY <1>1
  <2>2. L > 1 => c[1] # "+"
    BY <2>1, AtIs
  <2> QED BY <2>2 DEF FirstDigit
<1>3. \A x : IsDigit(x, 16) <=> x \in Hexadecimal
  <2>1. \A x \in Hexadecimal : x \in HexDigits \ {Underscore}
    BY DEF Hexadecimal, HexDigits, Digits, LowerHex, UpperHex, Underscore
  <2>2. \A x \in Hexadecimal : IsDigit(x, 16)
    BY <2>1, BasesAre DEF IsBase
  <2> QED BY <2>2 DEF IsDigit, Hexadecimal
<1>4. (c # <<>> /\ \A n \in FirstDigit(c)..L : IsDigit(c[n], 16)) <=> ok
  BY <1>1, <1>2, <1>3
<1>5. read = IF ok /\ ValueTo(c, 16)[L] < MaxChar + 1 THEN {ValueTo(c, 16)[L]} ELSE {}
  BY <1>4, FromStrRadixIs
<1> HIDE DEF read
<1>6. CASE ok
  <2>1. ValueTo(c, 16)[L] = number /\ number \in Nat
    <3> DEFINE S == ToSet(c)
               P == DOMAIN c
               a == 1
               b == 16
    <3>1. \A k \in 1..L : c[k] \in S
      BY <1>1 DEF ToSet
    <3>2. P = {i \in a..Len(c) : c[i] \in S}
      BY <1>1, <3>1
    <3>3. c = Kept(c, S)
      BY <3>1, KeptAll DEF Text
    <3>4. IsWritten(c, a, c)
      <4>1. 1 \in 1..(L + 1) /\ L = L + 1 - 1 /\ \A k \in 1..L : 1 + k - 1 = k
        BY <1>1
      <4> QED BY <1>1, <4>1 DEF IsWritten, Text
    <3>5. \A i \in P : DigitOf(c[i]) \in Nat
      <4>1. \A x \in Hexadecimal : DigitOf(x) \in 0..(16 - 1)
        <5>1. \A x \in Hexadecimal : x \in HexDigits \ {Underscore}
          BY DEF Hexadecimal, HexDigits, Digits, LowerHex, UpperHex, Underscore
        <5> QED BY <5>1, BasesAre DEF IsBase
      <4>2. \A x \in Hexadecimal : DigitOf(x) \in Nat
        BY <4>1
      <4> QED BY <1>6, <4>2
    <3>6. b \in Nat
      OBVIOUS
    <3> HIDE DEF S, P, L, a, b
    <3>7. ValueTo(c, b)[Len(c)] = Weighed(c, P, b) /\ Weighed(c, P, b) \in Nat
      <4>1. AreDigits(c, a, c, S, P, b)
        BY <3>2, <3>4, <3>5, <3>6 DEF AreDigits
      <4> QED BY <1>2, <3>3, <4>1, SumsAreEqual
    <3> QED BY <3>7 DEF P, L, b
  <2>2. number < MaxChar + 1 <=> number <= MaxChar
    BY <2>1 DEF MaxChar
  <2>3. CASE number <= MaxChar
    <3>1. read = {number}
      BY <1>5, <1>6, <2>1, <2>2, <2>3, Zenon
    <3>2. number \notin Surrogates => {number} \ Surrogates = {number}
      OBVIOUS
    <3>3. number \in Surrogates => {number} \ Surrogates = {}
      OBVIOUS
    <3> QED BY <1>6, <2>3, <3>1, <3>2, <3>3, Zenon DEF read
  <2>4. CASE ~(number <= MaxChar)
    <3>1. read = {}
      BY <1>5, <1>6, <2>1, <2>2, <2>4, Zenon
    <3>2. {} \ Surrogates = {}
      OBVIOUS
    <3> QED BY <2>4, <3>1, <3>2, Zenon DEF read
  <2> QED BY <2>3, <2>4
<1>7. CASE ~ok
  <2>1. read = {}
    BY <1>5, <1>7, Zenon
  <2>2. {} \ Surrogates = {}
    OBVIOUS
  <2> QED BY <1>7, <2>1, <2>2, Zenon DEF read
<1> QED BY <1>6, <1>7 DEF read

(* Where the code of a \u ends, which is where process_escape looks for its   *)
(* end, and the bytes of it.                                                  *)
CodeOf(s, u, e, c) ==
  /\ u + 2 \in 1..(Len(s) + 1) /\ e \in (u + 2)..(Len(s) + 1) /\ At(s, e) \in {"}", Outside}
  /\ e = Until(s, u + 2, "}") /\ c = Slice(s, u + 2, e)
  /\ c \in Text /\ Len(c) = e - (u + 2) /\ At(c, 1) # "+"
  /\ \A k \in 1..Len(c) : c[k] = s[u + 2 + k - 1]

LEMMA SliceOrEmptyIs ==
  ASSUME NEW t \in Text, NEW i \in 1..(Len(t) + 1), NEW j \in i..(Len(t) + 1)
  PROVE  /\ Slice(t, i, j) \in Text /\ Len(Slice(t, i, j)) = j - i
         /\ \A k \in 1..(j - i) : Slice(t, i, j)[k] = t[i + k - 1]
<1>1. Len(t) \in Nat
  BY LengthIs
<1>2. CASE j = i
  <2>1. i - 1 \in Nat /\ i - 1 <= Len(t) /\ {i - 1, Len(t)} \in SUBSET Nat
    BY <1>1
  <2>2. /\ Min({i - 1, Len(t)}) \in {i - 1, Len(t)}
        /\ \A n \in {i - 1, Len(t)} : Min({i - 1, Len(t)}) <= n
    BY <2>1, LeastOf
  <2>3. Min({j - 1, Len(t)}) = i - 1
    BY <1>1, <1>2, <2>1, <2>2
  <2>4. Slice(t, i, j) = SubSeq(t, i, i - 1)
    BY <2>3 DEF Slice
  <2>5. SubSeq(t, i, i - 1) = <<>>
    BY <1>1 DEF Text
  <2>6. <<>> \in Text /\ Len(<<>>) = 0
    BY DEF Text
  <2>7. j - i = 0 /\ \A k \in 1..(j - i) : FALSE
    BY <1>2
  <2> DEFINE x == Slice(t, i, j)
  <2>8. x = <<>>
    BY <2>4, <2>5
  <2> HIDE DEF x
  <2>9. x \in Text /\ Len(x) = j - i /\ \A k \in 1..(j - i) : x[k] = t[i + k - 1]
    BY <2>6, <2>7, <2>8
  <2> QED BY <2>9 DEF x
<1>3. CASE j # i
  <2>1. i \in 1..Len(t) /\ j \in (i + 1)..(Len(t) + 1)
    BY <1>1, <1>3
  <2> QED BY <2>1, SliceIs
<1> QED BY <1>2, <1>3

LEMMA CodeEndIs ==
  ASSUME NEW s \in Text, NEW u \in 1..Len(s), s[u] = "u", Braced(s, u)
  PROVE  CodeOf(s, u, CodeEnd(s, u), Code(s, u))
<1> DEFINE L == Len(s)
           first == u + 2
           e == RunEnd(s, first, Bytes \ {"}"})
           Is(k) == k \in u..(L + 1) /\ At(s, k) \in {"}", Outside} /\ \A l \in u..(k - 1) : s[l] # "}"
           c == Slice(s, first, e)
<1>1. u + 1 \in 1..L /\ s[u + 1] = OpeningBrace
  <2>1. At(s, u + 1) = OpeningBrace /\ OpeningBrace # Outside
    BY DEF Braced, OpeningBrace, Outside
  <2>2. u + 1 \in 1..L
    BY <2>1, AtIs
  <2> QED BY <2>1, <2>2, AtIs
<1>2. L \in Nat /\ u \in Nat /\ u >= 1 /\ u + 1 <= L
  BY <1>1, LengthIs
<1>3. first \in 1..(L + 1) /\ first \in Nat /\ first >= 1 /\ first <= L + 1 /\ first = u + 2
  BY <1>2
<1>4. Until(s, first, "}") = e
  BY <1>3, UntilIs
<1>5. IsRun(s, first, Bytes \ {"}"}, e)
  <2>1. Outside \notin Bytes \ {"}"}
    BY NoByteIsOutside
  <2> QED BY <1>3, <2>1, RunEndIs
<1> HIDE DEF e
<1>6. e \in first..(L + 1)
  BY <1>5 DEF IsRun
<1>7. At(s, e) \in {"}", Outside}
  <2>1. At(s, e) \notin Bytes \ {"}"}
    BY <1>5 DEF IsRun
  <2>2. At(s, e) \in Bytes \cup {Outside}
    BY AtIs
  <2> QED BY <2>1, <2>2
<1>8. \A l \in first..(e - 1) : s[l] # "}"
  BY <1>5 DEF IsRun
<1> HIDE DEF L, first
<1>9. e \in Nat /\ first \in Nat /\ e >= first /\ e <= L + 1
  BY <1>2, <1>3, <1>6
<1>10. s[u] # "}" /\ s[u + 1] # "}"
  BY <1>1 DEF OpeningBrace
<1>11. \A l \in u..(e - 1) : s[l] # "}"
  <2>1. \A l \in u..(e - 1) : l = u \/ l = u + 1 \/ l \in first..(e - 1)
    BY <1>2, <1>3, <1>9
  <2> QED BY <1>8, <1>10, <2>1
<1>12. \A k \in u..L : At(s, k) = s[k] /\ s[k] # Outside
  <2>1. \A k \in u..L : k \in 1..L
    BY <1>2
  <2> QED BY <2>1, AtIs, NoByteIsOutside DEF L
<1>13. Is(e)
  <2>1. e \in u..(L + 1)
    BY <1>2, <1>3, <1>9
  <2> QED BY <1>7, <1>11, <2>1
<1>14. \A k \in u..(L + 1) : Is(k) => k = e
  <2> SUFFICES ASSUME NEW k \in u..(L + 1), Is(k), k # e PROVE FALSE
    OBVIOUS
  <2>1. At(s, k) \in {"}", Outside} /\ \A l \in u..(k - 1) : s[l] # "}"
    OBVIOUS
  <2> HIDE DEF Is
  <2>2. k \in Int /\ u <= k /\ k <= L + 1
    BY <1>2
  <2>3. CASE k < e
    <3>1. k \in u..(e - 1) /\ k \in u..L
      BY <1>2, <1>9, <2>2, <2>3
    <3>2. At(s, k) = s[k] /\ s[k] # Outside /\ s[k] # "}"
      BY <1>11, <1>12, <3>1
    <3> QED BY <2>1, <3>2
  <2>4. CASE e < k
    <3>1. e \in u..(k - 1) /\ e \in u..L
      BY <1>2, <1>3, <1>9, <2>2, <2>4
    <3>2. At(s, e) = s[e] /\ s[e] # Outside /\ s[e] # "}"
      BY <1>12, <2>1, <3>1
    <3> QED BY <1>7, <3>2
  <2> QED BY <1>9, <2>2, <2>3, <2>4
<1>15. CodeEnd(s, u) = e
  <2>1. CodeEnd(s, u) = CHOOSE k \in u..(L + 1) : Is(k)
    <3>1. \A k \in u..(L + 1) : Is(k) <=> (At(s, k) \in {"}", Outside} /\ \A l \in u..(k - 1) : s[l] # "}")
      OBVIOUS
    <3> QED BY DEF CodeEnd, L
  <2>2. \A k : Is(k) => k \in u..(L + 1)
    OBVIOUS
  <2> HIDE DEF Is
  <2> QED BY <1>13, <1>14, <2>1, <2>2
<1>16. c \in Text /\ Len(c) = e - first /\ \A k \in 1..(e - first) : c[k] = s[first + k - 1]
  BY <1>3, <1>6, SliceOrEmptyIs DEF L
<1>17. Code(s, u) = c
  BY <1>15 DEF Code, first
<1> HIDE DEF c
<1>18. At(c, 1) # "+"
  <2>1. CASE Len(c) >= 1
    <3>1. 1 \in 1..Len(c)
      BY <1>16, <2>1
    <3>2. first + 1 - 1 = first /\ first \in u..L
      BY <1>2, <1>3, <1>9, <1>16, <2>1
    <3>3. At(c, 1) = s[first] /\ At(s, first) = s[first]
      BY <1>12, <1>16, <3>1, <3>2, AtIs
    <3> QED BY <3>3 DEF Braced, first
  <2>2. CASE ~(Len(c) >= 1)
    <3>1. 1 \notin 1..Len(c)
      BY <1>16, <2>2
    <3>2. At(c, 1) = Outside
      BY <1>16, <3>1, AtIs
    <3> QED BY <3>2 DEF Outside
  <2> QED BY <2>1, <2>2
<1> QED BY <1>3, <1>4, <1>6, <1>7, <1>15, <1>16, <1>17, <1>18 DEF CodeOf, first, L, c

(* What process_escape makes of a \u with a brace, and that what is dropped   *)
(* then holds no other escape.                                                *)
LEMMA CodeIsOne ==
  ASSUME NEW s \in Text, s[Len(s)] = Quote, NEW i \in 1..Len(s), NEW u \in 1..Len(s), u = i + 1,
         s[i] = "\\", s[u] = "u", Braced(s, u)
  PROVE  /\ ~IsCode(s, u) => One(s, i).chars = {}
         /\ IsCode(s, u) =>
              /\ One(s, i).chars = {<<CharOf(s, u)>>} /\ One(s, i).next = CodeEnd(s, u) + 1
              /\ CodeEnd(s, u) \in (i + 3)..(Len(s) - 1) /\ s[CodeEnd(s, u)] = "}"
              /\ \A k \in (i + 2)..CodeEnd(s, u) : s[k] # "u"
<1> DEFINE e == CodeEnd(s, u)
           c == Code(s, u)
           read == FromStrRadix(c, 16, MaxChar + 1) \ Surrogates
<1>1. CodeOf(s, u, e, c) /\ Len(s) \in Nat /\ i \in Nat /\ u \in Nat /\ u + 1 = i + 2 /\ u + 2 = i + 3
  BY CodeEndIs, LengthIs
<1>2. At(s, i + 1) = "u" /\ At(s, i + 2) = OpeningBrace
  BY <1>1, AtIs DEF Braced
<1>3. NextChar(s, i + 2) = i + 3
  BY <1>1, <1>2 DEF NextChar, OpeningBrace, Lead
<1> HIDE DEF e, c
<1>4. e = Until(s, i + 3, "}") /\ c = Slice(s, i + 3, e)
  BY <1>1 DEF CodeOf
<1>5. One(s, i) = Read({<<n>> : n \in read}, e + 1)
  <2>1. process_escape(s, i) = Read({<<n>> : n \in read}, e + 1)
    BY <1>2, <1>3, <1>4, NoEscapeNames DEF process_escape
  <2> QED BY <2>1 DEF One
<1> HIDE DEF read
<1>6. One(s, i).chars = {<<n>> : n \in read} /\ One(s, i).next = e + 1
  BY <1>5 DEF Read
<1>7. IsCode(s, u) <=> /\ c # <<>> /\ \A n \in DOMAIN c : c[n] \in Hexadecimal
                       /\ CharOf(s, u) <= MaxChar /\ CharOf(s, u) \notin Surrogates
  BY DEF IsCode, c, Hexadecimal
<1>8. /\ IsCode(s, u) => read = {CharOf(s, u)}
      /\ ~IsCode(s, u) => read = {}
  <2> DEFINE number == Weighed(c, DOMAIN c, 16)
             ok == c # <<>> /\ \A n \in DOMAIN c : c[n] \in Hexadecimal
  <2>1. CharOf(s, u) = number
    BY DEF CharOf, c
  <2>2. c \in Text /\ At(c, 1) # "+"
    BY <1>1 DEF CodeOf
  <2>3. /\ ok /\ number <= MaxChar /\ number \notin Surrogates => read = {number}
        /\ ~(ok /\ number <= MaxChar /\ number \notin Surrogates) => read = {}
    BY <2>2, CodeIsRead DEF read
  <2>4. IsCode(s, u) <=> ok /\ number <= MaxChar /\ number \notin Surrogates
    BY <1>7, <2>1
  <2> HIDE DEF number, ok
  <2> QED BY <2>1, <2>3, <2>4
<1>9. ASSUME IsCode(s, u)
      PROVE  /\ One(s, i).chars = {<<CharOf(s, u)>>}
             /\ e \in (i + 3)..(Len(s) - 1) /\ s[e] = "}" /\ \A k \in (i + 2)..e : s[k] # "u"
  <2>1. One(s, i).chars = {<<CharOf(s, u)>>}
    BY <1>6, <1>8, <1>9
  <2>2. /\ e \in (i + 3)..(Len(s) + 1) /\ At(s, e) \in {"}", Outside} /\ Len(c) = e - (i + 3) /\ c \in Text
        /\ \A k \in 1..Len(c) : c[k] = s[i + 3 + k - 1]
    BY <1>1 DEF CodeOf
  <2>3. DOMAIN c = 1..Len(c)
    BY <2>2, LengthIs
  <2> DEFINE first == i + 3
             L == Len(s)
  <2> HIDE DEF first, L
  <2>4. /\ first \in Nat /\ first = i + 3 /\ L \in Nat /\ e \in first..(L + 1) /\ i \in 1..L /\ i + 2 \in Nat
         /\ i + 2 = first - 1
    <3>1. e \in (i + 3)..(Len(s) + 1) /\ i \in 1..Len(s) /\ Len(s) \in Nat
      BY <1>1, <2>2
    <3>2. i + 3 \in Nat /\ i + 2 \in Nat /\ i + 2 = (i + 3) - 1
      BY <1>1
    <3> QED BY <3>1, <3>2 DEF first, L
  <2>5. e \in Nat /\ first <= e /\ e <= L + 1
    BY <2>4
  <2>6. \A k \in first..(e - 1) : s[k] \in Hexadecimal
    <3> TAKE k \in first..(e - 1)
    <3>1. Len(c) = e - first
      BY <2>2 DEF first
    <3>2. k - first + 1 \in 1..(e - first) /\ first + (k - first + 1) - 1 = k
      BY <2>5, <2>4
    <3>3. c[k - first + 1] = s[k] /\ k - first + 1 \in 1..Len(c)
      BY <2>2, <3>1, <3>2 DEF first
    <3> QED BY <1>7, <1>9, <2>3, <3>2, <3>3
  <2>7. Quote \notin Hexadecimal /\ "u" \notin Hexadecimal /\ OpeningBrace # Quote /\ "}" # Quote /\ OpeningBrace # "u"
    BY DEF Hexadecimal, Digits, LowerHex, UpperHex, Quote, OpeningBrace
  <2>8. i + 2 \in 1..Len(s) /\ s[i + 2] = OpeningBrace
    <3>1. At(s, i + 2) # Outside
      BY <1>2 DEF OpeningBrace, Outside
    <3>2. i + 2 \in 1..Len(s)
      BY <3>1, AtIs
    <3> QED BY <1>2, <3>2, AtIs
  <2>9. i + 2 # L /\ L \notin first..(e - 1) /\ i + 2 <= L
    <3>1. i + 2 # L /\ L \notin first..(e - 1)
      BY <2>6, <2>7, <2>8 DEF L
    <3>2. i + 2 \in 1..L
      BY <2>8 DEF L
    <3> QED BY <2>4, <3>1, <3>2
  <2>10. e <= L
    BY <2>9, <2>4, <2>5
  <2>11. e \in 1..L
    BY <2>10, <2>4, <2>5
  <2>12. s[e] = "}"
    BY <2>2, <2>11, AtIs DEF L
  <2>13. e # L
    BY <2>7, <2>12 DEF L
  <2>14. e \in first..(L - 1)
    BY <2>10, <2>13, <2>4, <2>5
  <2>15. \A k \in (i + 2)..e : k = i + 2 \/ k = e \/ k \in first..(e - 1)
    BY <2>4, <2>5
  <2>16. \A k \in (i + 2)..e : s[k] # "u"
    BY <2>6, <2>7, <2>8, <2>12, <2>15
  <2> QED BY <2>1, <2>12, <2>14, <2>16 DEF first, L
<1>10. ASSUME ~IsCode(s, u) PROVE One(s, i).chars = {}
  BY <1>6, <1>8, <1>10
<1> QED BY <1>6, <1>9, <1>10 DEF e
-----------------------------------------------------------------------------
(* What the bytes of a string from a place on are read as.                    *)
MeantFrom(s, i, n) ==
  {k \in i..n : (s[k] # "\\" \/ Escaped(s, k)) /\ \A u \in Codes(s) : k \notin (u + 1)..CodeEnd(s, u)}
DecodesFrom(s, i, v) ==
  /\ Len(v) = Cardinality(MeantFrom(s, i, Len(s) - 1))
  /\ \A k \in MeantFrom(s, i, Len(s) - 1) :
       v[Cardinality(MeantFrom(s, i, k))] = Decoded(s, k) /\ (k \in Codes(s) => IsCode(s, k))

LEMMA MeantIsFinite ==
  ASSUME NEW s, NEW i \in Nat, NEW n \in Int
  PROVE  IsFiniteSet(MeantFrom(s, i, n)) /\ Cardinality(MeantFrom(s, i, n)) \in Nat
<1>1. IsFiniteSet(i..n) /\ MeantFrom(s, i, n) \subseteq i..n
  BY FS_Interval DEF MeantFrom
<1> QED BY <1>1, FS_Subset, FS_CardinalityType

LEMMA MeantSplits ==
  ASSUME NEW s, NEW i \in Nat, NEW e \in Nat, i <= e, NEW n \in Nat, e <= n
  PROVE  MeantFrom(s, i, n) = MeantFrom(s, i, e) \cup MeantFrom(s, e + 1, n)
<1>1. \A k : k \in i..n <=> k \in i..e \/ k \in (e + 1)..n
  OBVIOUS
<1> DEFINE Stays(k) == (s[k] # "\\" \/ Escaped(s, k)) /\ \A u \in Codes(s) : k \notin (u + 1)..CodeEnd(s, u)
<1>2. \A a, b : MeantFrom(s, a, b) = {k \in a..b : Stays(k)}
  BY DEF MeantFrom
<1> HIDE DEF Stays
<1> QED BY <1>1, <1>2

(* A character that stands for the bytes from i to e, of which m is meant.    *)
MeansOne(s, i, e, m) == i <= e /\ MeantFrom(s, i, e) = {m}

LEMMA OneMoreIsMeant ==
  ASSUME NEW s, NEW i \in Nat, NEW e \in Nat, NEW m, MeansOne(s, i, e, m), NEW n \in Nat, e <= n
  PROVE  /\ MeantFrom(s, i, n) = MeantFrom(s, e + 1, n) \cup {m}
         /\ Cardinality(MeantFrom(s, i, n)) = Cardinality(MeantFrom(s, e + 1, n)) + 1
<1> USE DEF MeansOne
<1>1. MeantFrom(s, i, n) = MeantFrom(s, e + 1, n) \cup {m}
  BY MeantSplits
<1>2. m \in i..e /\ MeantFrom(s, e + 1, n) \subseteq (e + 1)..n
  BY DEF MeantFrom
<1>3. m \notin MeantFrom(s, e + 1, n)
  BY <1>2
<1>4. IsFiniteSet(MeantFrom(s, e + 1, n)) /\ Cardinality(MeantFrom(s, e + 1, n)) \in Nat
  BY MeantIsFinite
<1> QED BY <1>1, <1>3, <1>4, FS_AddElement

LEMMA OneMoreDecodes ==
  ASSUME NEW s \in Text, NEW i \in Nat, NEW e \in Nat, i <= e, e < Len(s), NEW m, MeantFrom(s, i, e) = {m},
         NEW C, NEW c \in C, NEW rest \in Seq(C), c = Decoded(s, m), m \in Codes(s) => IsCode(s, m),
         DecodesFrom(s, e + 1, rest)
  PROVE  DecodesFrom(s, i, Ahead(c, rest))
<1> DEFINE v == Ahead(c, rest)
           Count(j, n) == Cardinality(MeantFrom(s, j, n))
           N == Len(s) - 1
<1>1. Len(s) \in Nat /\ N \in Nat /\ e <= N
  <2>1. Len(s) \in Nat
    BY LengthIs
  <2> QED BY <2>1
<1>2. v \in Seq(C) /\ Len(v) = Len(rest) + 1 /\ v[1] = c /\ Len(rest) \in Nat
      /\ \A k \in 1..Len(rest) : v[k + 1] = rest[k]
  <2>1. Len(rest) \in Nat /\ <<c>> \in Seq(C) /\ Len(<<c>>) = 1 /\ <<c>>[1] = c
    OBVIOUS
  <2>2. Joined(C, <<c>>, rest, v)
    BY <2>1, JoinIs DEF Ahead
  <2> HIDE DEF v
  <2>3. \A k \in 1..Len(rest) : 1 + k = k + 1
    BY <2>1
  <2> QED BY <2>1, <2>2, <2>3 DEF Joined
<1> HIDE DEF v
<1>3. ASSUME NEW n \in Nat, e <= n
      PROVE  /\ MeantFrom(s, i, n) = MeantFrom(s, e + 1, n) \cup {m}
             /\ Count(i, n) = Count(e + 1, n) + 1
  <2>1. MeansOne(s, i, e, m)
    BY DEF MeansOne
  <2> QED BY <1>3, <2>1, OneMoreIsMeant
<1>4. /\ Len(rest) = Count(e + 1, N)
      /\ \A k \in MeantFrom(s, e + 1, N) : rest[Count(e + 1, k)] = Decoded(s, k) /\ (k \in Codes(s) => IsCode(s, k))
  BY DEF DecodesFrom
<1>5. \A n \in Nat : Count(e + 1, n) \in Nat
  BY MeantIsFinite
<1>6. Len(v) = Count(i, N)
  BY <1>1, <1>2, <1>3, <1>4
<1>7. m \in i..e /\ m \in Nat
  <2>1. m \in i..e
    BY DEF MeantFrom
  <2> QED BY <2>1
<1>8. ASSUME NEW k \in MeantFrom(s, i, N) PROVE v[Count(i, k)] = Decoded(s, k) /\ (k \in Codes(s) => IsCode(s, k))
  <2>1. CASE k = m
    <3>1. MeantFrom(s, i, m) = {m}
      <4>1. \A x : x \in i..m <=> x \in i..e /\ x <= m
        BY <1>7
      <4>2. \A x : x \in MeantFrom(s, i, m) <=> x \in MeantFrom(s, i, e) /\ x <= m
        BY <4>1 DEF MeantFrom
      <4> QED BY <1>7, <4>2
    <3>2. Count(i, m) = 1
      BY <3>1, FS_Singleton
    <3> HIDE DEF Count
    <3> QED BY <1>2, <2>1, <3>2
  <2>2. CASE k # m
    <3>1. k \in MeantFrom(s, e + 1, N)
      BY <1>1, <1>3, <2>2
    <3>2. k \in Nat /\ k \in (e + 1)..N /\ e <= k /\ k <= N
      <4>1. k \in (e + 1)..N
        BY <3>1 DEF MeantFrom
      <4> QED BY <1>1, <4>1
    <3>3. k \in MeantFrom(s, e + 1, k) /\ MeantFrom(s, e + 1, k) \subseteq MeantFrom(s, e + 1, N)
      <4>1. \A x : x \in (e + 1)..k <=> x \in (e + 1)..N /\ x <= k
        BY <1>1, <3>2
      <4>2. \A x : x \in MeantFrom(s, e + 1, k) <=> x \in MeantFrom(s, e + 1, N) /\ x <= k
        BY <4>1 DEF MeantFrom
      <4> QED BY <3>1, <3>2, <4>2
    <3>4. Count(e + 1, k) <= Count(e + 1, N)
      BY <1>1, <3>3, MeantIsFinite, FS_Subset
    <3>5. Count(e + 1, k) # 0
      BY <3>2, <3>3, MeantIsFinite, FS_EmptySet
    <3>6. Count(e + 1, k) \in 1..Len(rest) /\ Count(i, k) = Count(e + 1, k) + 1
      <4>1. Count(i, k) = Count(e + 1, k) + 1
        BY <1>3, <3>2
      <4>2. Count(e + 1, k) \in Nat /\ Len(rest) = Count(e + 1, N)
        BY <1>4, <1>5, <3>2
      <4> HIDE DEF Count, N
      <4> QED BY <1>2, <3>4, <3>5, <4>1, <4>2
    <3> HIDE DEF Count
    <3>7. v[Count(i, k)] = rest[Count(e + 1, k)]
      BY <1>2, <3>6
    <3> QED BY <1>4, <3>1, <3>7
  <2> QED BY <2>1, <2>2
<1> QED BY <1>6, <1>8 DEF DecodesFrom, v

LEMMA CodeEndIsAPlace ==
  ASSUME NEW s \in Text, NEW u \in Codes(s)
  PROVE  u \in Nat /\ CodeEnd(s, u) \in Int
<1>1. u \in 3..Len(s) /\ Len(s) \in Nat
  BY LengthIs DEF Codes
<1>2. \E k \in u..(Len(s) + 1) : At(s, k) \in {"}", Outside} /\ \A l \in u..(k - 1) : s[l] # "}"
  <2>1. u \in Nat /\ u \in 1..(Len(s) + 1)
    BY <1>1
  <2>2. IsRun(s, u, Bytes \ {"}"}, RunEnd(s, u, Bytes \ {"}"}))
    <3>1. Outside \notin Bytes \ {"}"}
      BY NoByteIsOutside
    <3> QED BY <2>1, <3>1, RunEndIs
  <2>3. PICK e : IsRun(s, u, Bytes \ {"}"}, e)
    BY <2>2
  <2>4. e \in u..(Len(s) + 1) /\ At(s, e) \notin Bytes \ {"}"} /\ \A l \in u..(e - 1) : s[l] \in Bytes \ {"}"}
    BY <2>3 DEF IsRun
  <2>5. At(s, e) \in Bytes \cup {Outside}
    BY AtIs
  <2> QED BY <2>4, <2>5
<1>3. CodeEnd(s, u) \in u..(Len(s) + 1)
  BY <1>2 DEF CodeEnd
<1> QED BY <1>1, <1>3

(* Where no code reaches, a byte is meant unless it is a backslash that       *)
(* escapes.                                                                   *)
Free(s, i) == \A u \in Codes(s) : u < i => CodeEnd(s, u) < i

LEMMA MeantWhenFree ==
  ASSUME NEW s \in Text, NEW i \in Nat, Free(s, i), NEW m \in Nat, i <= m, m <= Len(s),
         \A u \in Codes(s) : u \in i..m => u = m, s[m] # "\\" \/ Escaped(s, m),
         \A k \in i..(m - 1) : s[k] = "\\" /\ ~Escaped(s, k)
  PROVE  /\ MeantFrom(s, i, m) = {m}
         /\ m \notin Codes(s) => Free(s, m + 1)
<1>1. \A u \in Codes(s) : u \in Nat /\ CodeEnd(s, u) \in Int
  BY CodeEndIsAPlace
<1>2. \A u \in Codes(s) : m \notin (u + 1)..CodeEnd(s, u)
  <2> TAKE u \in Codes(s)
  <2>1. CASE u < i
    <3>1. CodeEnd(s, u) < i
      BY <2>1 DEF Free
    <3> QED BY <1>1, <3>1
  <2>2. CASE ~(u < i)
    <3>1. u \in i..m => u = m
      OBVIOUS
    <3> QED BY <1>1, <2>2, <3>1
  <2> QED BY <2>1, <2>2
<1>3. MeantFrom(s, i, m) = {m}
  <2>1. \A k : k \in i..m <=> k \in i..(m - 1) \/ k = m
    OBVIOUS
  <2>2. \A k \in MeantFrom(s, i, m) : k \in i..m /\ ~(s[k] = "\\" /\ ~Escaped(s, k))
    BY DEF MeantFrom
  <2>3. m \in MeantFrom(s, i, m)
    <3>1. m \in i..m
      OBVIOUS
    <3> QED BY <1>2, <3>1 DEF MeantFrom
  <2>4. \A k \in MeantFrom(s, i, m) : k = m
    BY <2>1, <2>2
  <2> QED BY <2>3, <2>4
<1>4. ASSUME m \notin Codes(s), NEW u \in Codes(s), u < m + 1 PROVE CodeEnd(s, u) < m + 1
  <2>1. u < i
    <3>1. u # m /\ (u \in i..m => u = m)
      BY <1>4
    <3> QED BY <1>1, <1>4, <3>1
  <2>2. CodeEnd(s, u) < i
    BY <2>1 DEF Free
  <2> QED BY <1>1, <2>2
<1> QED BY <1>3, <1>4 DEF Free

LEMMA StringTextIs ==
  ASSUME NEW s, Alone(s, "String")
  PROVE  /\ s \in Text /\ Len(s) \in Nat /\ Len(s) >= 2 /\ s[1] = Quote /\ s[Len(s)] = Quote
         /\ {i \in 2..Len(s) : s[i] = Quote /\ ~Escaped(s, i)} = {Len(s)}
<1> DEFINE m == Longest(s, 1)
           j == m.end
<1>1. s \in Text /\ Len(s) \in Nat /\ Len(s) >= 1 /\ 1 \in 1..Len(s)
  BY DEF Alone
<1>2. /\ "String" \in KindsFrom(m.kind) /\ Shape(s, 1, m.kind, m.priority, j)
      /\ (m.kind = "String" => lex_string(s, j) = Done("String", Len(s) + 1))
  <2>1. "String" \in Kinds
    BY DEF Kinds
  <2> HIDE DEF m
  <2> QED BY <2>1, AloneIs DEF m
<1> HIDE DEF m
<1>3. m.kind = "String"
  BY <1>2 DEF KindsFrom
<1>4. At(s, 1) = Quote /\ j = 1 + 1
  BY <1>2, <1>3 DEF Shape
<1> HIDE DEF j
<1>5. s[1] = Quote
  BY <1>1, <1>4, AtIs
<1>6. StringScan(s)[2] = Done("String", Len(s) + 1)
  <2>1. j = 2
    BY <1>4
  <2> QED BY <1>2, <1>3, <2>1, lex_stringIs
<1>7. {i \in 2..Len(s) : s[i] = Quote /\ ~Escaped(s, i)} = {Len(s)}
  BY <1>1, <1>5, <1>6, FirstOpenQuote
<1>8. Len(s) \in 2..Len(s) /\ s[Len(s)] = Quote
  BY <1>7
<1> QED BY <1>1, <1>5, <1>7, <1>8

(* A string whose escapes are all of the list, a \u with the code of a        *)
(* character in braces included, has a value; and any value of a string whose *)
(* codes are in braces is its text with each escape replaced.                 *)
LEMMA StringsAreRead ==
  ASSUME NEW s, Alone(s, "String")
  PROVE  /\ (\A i \in Codes(s) : Braced(s, i)) => \A v \in process_string(s) : Decodes(s, v)
         /\ process_string(s) # {} \/ \E i \in 3..(Len(s) - 1) : BadEscape(s, i)
<1> DEFINE N == Len(s)
           h == ReadFrom(s)
           Codes_braced == \A i \in Codes(s) : Braced(s, i)
           Listed == \A i \in 3..(N - 1) : ~BadEscape(s, i)
           Right(i) == (Codes_braced => \A v \in h[i] : DecodesFrom(s, i, v)) /\ (Listed => h[i] # {})
           S == {i \in Nat : i \in 2..N /\ ~Escaped(s, i) /\ Free(s, i) => Right(i)}
<1>1. s \in Text /\ N \in Nat /\ N >= 2 /\ s[1] = Quote /\ s[N] = Quote
      /\ {i \in 2..N : s[i] = Quote /\ ~Escaped(s, i)} = {N}
  BY StringTextIs
<1>2. \A i \in Nat : h[i] \in SUBSET Seq(Chars(s)) /\ h[i] = ReadStep(s, h, i)
  BY <1>1, ReadFromIs
<1> HIDE DEF h
<1>3. \A i \in 2..N : s[i] = Quote /\ ~Escaped(s, i) <=> i = N
  BY <1>1
<1>4. \A i \in 1..N : Escaped(s, i + 1) <=> s[i] = "\\" /\ ~Escaped(s, i)
  BY <1>1, EscapedIs
<1>5. \A i : i \in Codes(s) <=> i \in 3..N /\ s[i] = "u" /\ Escaped(s, i)
  BY DEF Codes
<1>6. ASSUME NEW i \in Nat, i > N PROVE i \in S
  BY <1>1, <1>6
<1>7. ASSUME NEW i \in 0..N, \A k \in Nat : k > i => k \in S PROVE i \in S
  <2> SUFFICES ASSUME i \in 2..N, ~Escaped(s, i), Free(s, i) PROVE Right(i)
    BY <1>1
  <2>1. i \in Nat /\ i \in 1..N /\ At(s, i) = s[i] /\ At(s, i) # Outside /\ i \notin Codes(s)
    BY <1>1, <1>5, AtIs
  <2>2. CASE i = N
    <3>1. h[i] = {<<>>}
      BY <1>1, <1>2, <2>1, <2>2, ReadStepCases
    <3>2. MeantFrom(s, i, N - 1) = {}
      BY <1>1, <2>2 DEF MeantFrom
    <3>3. Cardinality(MeantFrom(s, i, N - 1)) = 0 /\ Len(<<>>) = 0
      BY <3>2, FS_EmptySet
    <3>4. DecodesFrom(s, i, <<>>)
      BY <3>2, <3>3 DEF DecodesFrom
    <3> QED BY <3>1, <3>4
  <2>3. CASE i # N
    <3>1. s[i] # Quote /\ i + 1 \in 1..N /\ i < N
      BY <1>1, <1>3, <2>3
    <3>2. h[i] = Before(One(s, i).chars, h[One(s, i).next])
      BY <1>2, <2>1, <3>1, ReadStepCases
    <3> DEFINE C == Chars(s)
    <3>3. One(s, i).chars \in SUBSET C
      BY <2>1 DEF Chars
    <3>4. \A k \in Nat : h[k] \in SUBSET Seq(C)
      BY <1>2
    <3> HIDE DEF C
    <3>5. /\ One(s, i).next \in Nat
          /\ s[i] # "\\" => One(s, i).chars = {s[i]} /\ One(s, i).next = i + 1
          /\ s[i] = "\\" /\ s[i + 1] \in DOMAIN Simple =>
               One(s, i).chars = {Simple[s[i + 1]]} /\ One(s, i).next = i + 2
          /\ s[i] = "\\" /\ s[i + 1] \notin DOMAIN Simple /\ s[i + 1] # "u" => One(s, i).chars = {}
      BY <1>1, <2>1, <3>1, OneIs
    <3>6. \A v : v \in h[i] <=> \E c \in One(s, i).chars : \E rest \in h[One(s, i).next] : v = Ahead(c, rest)
      BY <3>2, WhatIsBefore
    <3>7. ASSUME NEW m, NEW e \in Nat, i <= e, e < N, MeantFrom(s, i, e) = {m}, ~Escaped(s, e + 1), Free(s, e + 1),
                 One(s, i).chars = {Decoded(s, m)}, One(s, i).next = e + 1, m \in Codes(s) => IsCode(s, m)
          PROVE  Right(i)
      <4>1. e + 1 \in S /\ e + 1 \in 2..N /\ e + 1 \in Nat
        <5>1. e + 1 \in Nat /\ e + 1 > i /\ e + 1 \in 2..N
          BY <1>1, <3>7
        <5> HIDE DEF S
        <5> QED BY <1>7, <5>1
      <4>2. Right(e + 1)
        BY <3>7, <4>1
      <4>3. ASSUME Codes_braced, NEW v \in h[i] PROVE DecodesFrom(s, i, v)
        <5>1. PICK c \in One(s, i).chars, rest \in h[One(s, i).next] : v = Ahead(c, rest)
          BY <3>6
        <5>2. c = Decoded(s, m) /\ rest \in h[e + 1] /\ c \in C /\ rest \in Seq(C)
          BY <3>3, <3>4, <3>7, <4>1, <5>1
        <5>3. DecodesFrom(s, e + 1, rest)
          BY <4>2, <4>3, <5>2
        <5> QED BY <1>1, <3>7, <5>1, <5>2, <5>3, OneMoreDecodes
      <4>4. ASSUME Listed PROVE h[i] # {}
        <5>1. PICK rest : rest \in h[e + 1]
          BY <4>2, <4>4
        <5>2. Ahead(Decoded(s, m), rest) \in h[i]
          BY <3>6, <3>7, <5>1
        <5> QED BY <5>2
      <4> HIDE DEF Codes_braced, Listed
      <4> QED BY <4>3, <4>4
    <3>8. CASE s[i] # "\\"
      <4>1. MeantFrom(s, i, i) = {i} /\ Free(s, i + 1)
        <5>1. /\ i <= i /\ i <= Len(s) /\ \A u \in Codes(s) : u \in i..i => u = i
              /\ \A k \in i..(i - 1) : s[k] = "\\" /\ ~Escaped(s, k)
          BY <2>1, <3>1
        <5> QED BY <1>1, <2>1, <3>8, <5>1, MeantWhenFree
      <4>2. ~Escaped(s, i + 1)
        BY <1>4, <2>1, <3>8
      <4>3. One(s, i).chars = {Decoded(s, i)} /\ One(s, i).next = i + 1
        BY <2>1, <3>5, <3>8 DEF Decoded
      <4>4. i <= i
        BY <2>1
      <4> HIDE DEF Right
      <4> QED BY <2>1, <3>1, <3>7, <4>1, <4>2, <4>3, <4>4
    <3>9. CASE s[i] = "\\"
      <4>1. Escaped(s, i + 1) /\ i + 1 # N /\ i + 1 \in 3..N /\ i + 1 \in 3..(N - 1) /\ i + 1 < N /\ i + 1 \in Nat
        <5>1. Escaped(s, i + 1)
          BY <1>4, <2>1, <3>9
        <5>2. i + 1 # N
          BY <1>3, <3>1, <5>1
        <5> QED BY <1>1, <3>1, <5>1, <5>2
      <4>2. MeantFrom(s, i, i + 1) = {i + 1} /\ (i + 1 \notin Codes(s) => Free(s, i + 1 + 1))
        <5>1. \A k : k \in i..(i + 1) <=> k = i \/ k = i + 1
          BY <2>1
        <5>2. \A u \in Codes(s) : u \in i..(i + 1) => u = i + 1
          BY <2>1, <5>1
        <5>3. \A k \in i..(i + 1 - 1) : s[k] = "\\" /\ ~Escaped(s, k)
          BY <2>1, <3>9
        <5>4. i <= i + 1 /\ i + 1 <= Len(s)
          BY <2>1, <4>1
        <5> QED BY <1>1, <2>1, <4>1, <5>2, <5>3, <5>4, MeantWhenFree
      <4>3. CASE s[i + 1] \in DOMAIN Simple
        <5>1. i + 1 \notin Codes(s)
          BY <1>5, <4>3, NoEscapeNames
        <5>2. ~Escaped(s, i + 1 + 1)
          BY <1>4, <3>1, <4>1
        <5>3. One(s, i).chars = {Decoded(s, i + 1)} /\ One(s, i).next = i + 1 + 1
          BY <2>1, <3>5, <3>9, <4>1, <4>3, <5>1 DEF Decoded
        <5>4. i <= i + 1
          BY <2>1
        <5> HIDE DEF Right
        <5> QED BY <3>7, <4>1, <4>2, <5>1, <5>2, <5>3, <5>4
      <4>4. ASSUME s[i + 1] \notin DOMAIN Simple, ~(i + 1 \in Codes(s) /\ Braced(s, i + 1) /\ IsCode(s, i + 1))
            PROVE  ~Listed
        <5>1. BadEscape(s, i + 1)
          BY <4>1, <4>4 DEF BadEscape
        <5> QED BY <4>1, <5>1
      <4>5. CASE s[i + 1] \notin DOMAIN Simple /\ s[i + 1] # "u"
        <5>1. One(s, i).chars = {}
          BY <3>5, <3>9, <4>5
        <5>2. \A v : v \notin h[i]
          BY <3>6, <5>1
        <5>3. ~Listed
          BY <1>5, <4>4, <4>5
        <5> QED BY <5>2, <5>3
      <4>6. CASE s[i + 1] = "u"
        <5>1. i + 1 \in Codes(s) /\ s[i + 1] \notin DOMAIN Simple
          BY <1>5, <4>1, <4>6, NoEscapeNames
        <5> DEFINE u == i + 1
        <5> HIDE DEF u
        <5>2. s[N] = Quote /\ i \in 1..N /\ u \in 1..N /\ u = i + 1 /\ s[u] = "u" /\ s \in Text
          BY <1>1, <2>1, <3>1, <4>6 DEF u
        <5>3. CASE ~Braced(s, i + 1)
          <6>1. ~Codes_braced /\ ~Listed
            BY <4>4, <5>1, <5>3
          <6> QED BY <6>1
        <5>4. CASE Braced(s, i + 1) /\ ~IsCode(s, i + 1)
          <6>1. One(s, i).chars = {}
            <7>1. Braced(s, u) /\ ~IsCode(s, u)
              BY <5>4 DEF u
            <7> QED BY <3>9, <5>2, <7>1, CodeIsOne
          <6>2. \A v : v \notin h[i]
            BY <3>6, <6>1
          <6>3. ~Listed
            BY <4>4, <5>1, <5>4
          <6> QED BY <6>2, <6>3
        <5>5. CASE Braced(s, i + 1) /\ IsCode(s, i + 1)
          <6> DEFINE e == CodeEnd(s, i + 1)
          <6>1. /\ One(s, i).chars = {<<CharOf(s, i + 1)>>} /\ One(s, i).next = e + 1
                /\ e \in (i + 3)..(N - 1) /\ s[e] = "}" /\ \A k \in (i + 2)..e : s[k] # "u"
            <7>1. Braced(s, u) /\ IsCode(s, u)
              BY <5>5 DEF u
            <7>2. /\ One(s, i).chars = {<<CharOf(s, u)>>} /\ One(s, i).next = CodeEnd(s, u) + 1
                  /\ CodeEnd(s, u) \in (i + 3)..(N - 1) /\ s[CodeEnd(s, u)] = "}"
                  /\ \A k \in (i + 2)..CodeEnd(s, u) : s[k] # "u"
              BY <3>9, <5>2, <7>1, CodeIsOne
            <7> QED BY <7>2 DEF u
          <6> HIDE DEF e
          <6>2. e \in Nat /\ i <= e /\ i + 1 <= e /\ e < N /\ e \in 1..N /\ i + 1 + 1 = i + 2
            <7>1. e \in (i + 3)..(N - 1) /\ N \in Nat /\ i \in Nat
              BY <1>1, <2>1, <6>1
            <7> HIDE DEF N
            <7> QED BY <7>1
          <6>3. MeantFrom(s, i, e) = {i + 1}
            <7>1. MeantFrom(s, i, e) = MeantFrom(s, i, i + 1) \cup MeantFrom(s, i + 1 + 1, e)
              BY <2>1, <4>1, <6>2, MeantSplits
            <7>2. MeantFrom(s, i + 1 + 1, e) = {}
              BY <5>1 DEF MeantFrom, e
            <7> QED BY <4>2, <7>1, <7>2
          <6>4. ~Escaped(s, e + 1)
            <7>1. Escaped(s, e + 1) <=> s[e] = "\\" /\ ~Escaped(s, e)
              BY <1>4, <6>2
            <7> QED BY <6>1, <7>1
          <6>5. Free(s, e + 1)
            <7> SUFFICES ASSUME NEW w \in Codes(s), w < e + 1 PROVE CodeEnd(s, w) < e + 1
              BY DEF Free
            <7>1. w \in 3..N /\ s[w] = "u"
              BY <1>5
            <7>2. w < i \/ w = i \/ w = i + 1 \/ w \in (i + 2)..e
              BY <1>1, <2>1, <6>2, <7>1
            <7>3. CASE w < i
              <8>1. CodeEnd(s, w) < i
                BY <7>3 DEF Free
              <8>2. CodeEnd(s, w) \in Int
                BY <1>1, CodeEndIsAPlace
              <8> QED BY <2>1, <6>2, <8>1, <8>2
            <7>4. CASE w = i + 1
              BY <6>2, <7>4 DEF e
            <7> QED BY <2>1, <6>1, <7>1, <7>2, <7>3, <7>4
          <6>6. Decoded(s, i + 1) = <<CharOf(s, i + 1)>>
            BY <5>1 DEF Decoded
          <6> HIDE DEF Right
          <6> QED BY <3>7, <5>5, <6>1, <6>2, <6>3, <6>4, <6>5, <6>6
        <5> QED BY <5>3, <5>4, <5>5
      <4> QED BY <4>3, <4>5, <4>6
    <3> QED BY <3>8, <3>9
  <2> QED BY <2>2, <2>3
<1>8. \A i \in Nat : i \in S
  <2> HIDE DEF S
  <2> QED BY <1>1, <1>6, <1>7, Downwards
<1>9. Right(2)
  <2>1. 1 \in 1..N /\ 2 \in 2..N /\ 2 \in S /\ "\\" # Quote
    BY <1>1, <1>8 DEF Quote
  <2>2. ~Escaped(s, 1 + 1)
    BY <1>1, <1>4, <2>1
  <2>3. ~Escaped(s, 2)
    BY <2>2
  <2>4. Free(s, 2)
    BY <1>1, <1>5 DEF Free
  <2> QED BY <2>1, <2>3, <2>4
<1>10. process_string(s) = h[2]
  BY process_stringIs DEF h
<1>11. ASSUME NEW v, DecodesFrom(s, 2, v) PROVE Decodes(s, v)
  <2>1. \A n : Meant(s, n) = MeantFrom(s, 2, n)
    BY DEF Meant, MeantFrom
  <2> QED BY <1>11, <2>1 DEF Decodes, DecodesFrom
<1> QED BY <1>9, <1>10, <1>11
-----------------------------------------------------------------------------
LEMMA LiteralCases ==
  ASSUME NEW s, NEW kind
  PROVE  /\ kind = "String" => literal(kind, s) = process_string(s)
         /\ kind = "RawString" => literal(kind, s) = process_raw_string(s)
         /\ kind = "Int" => literal(kind, s) = process_int(s)
         /\ kind \notin {"String", "RawString", "Int"} => literal(kind, s) = {s}
BY DEF literal

LEMMA ValuesAreAsWritten == LexInv /\ LiteralInv => ValuesAreTheTexts
<1> SUFFICES ASSUME LexInv, LiteralInv, values # <<>> PROVE ValuesAreTheTexts
  BY DEF ValuesAreTheTexts
<1> DEFINE p == tokens[Len(values)]
           s == TextOf(p)
           value == values[Len(values)]
<1> SUFFICES /\ p.kind = "String" /\ (\A i \in Codes(s) : Braced(s, i)) => Decodes(s, value)
             /\ p.kind = "RawString" => \E n \in 0..Len(s) : s = Quoted(n, value)
  BY DEF ValuesAreTheTexts, Quoted, Hash
<1> HIDE DEF p, s, value
<1>1. Len(values) \in 1..Len(values) /\ Len(values) \in 1..Len(tokens)
  <2>1. values \in Seq(Made(text)) /\ Len(values) <= Len(tokens)
    BY DEF LiteralInv
  <2>2. Len(values) \in Nat /\ Len(values) # 0
    BY <2>1
  <2>3. Len(tokens) \in Nat
    BY TokensAre
  <2> QED BY <2>1, <2>2, <2>3
<1>2. value \in literal(p.kind, s)
  <2>1. value \in LiteralOf(text, p)
    BY <1>1 DEF LiteralInv, p, value
  <2> QED BY <2>1 DEF LiteralOf, TextOf, s
<1>3. Alone(s, p.kind)
  BY <1>1, TokensAreAlone DEF TextOf, s, p
<1>4. ASSUME p.kind = "String", \A i \in Codes(s) : Braced(s, i) PROVE Decodes(s, value)
  <2>1. value \in process_string(s) /\ Alone(s, "String")
    BY <1>2, <1>3, <1>4, LiteralCases
  <2> QED BY <1>4, <2>1, StringsAreRead
<1>5. ASSUME p.kind = "RawString" PROVE \E n \in 0..Len(s) : s = Quoted(n, value)
  <2>1. value \in process_raw_string(s) /\ Alone(s, "RawString")
    BY <1>2, <1>3, <1>5, LiteralCases
  <2> QED BY <2>1, RawStringsAreRead
<1> QED BY <1>4, <1>5

LEMMA IntsAreAsWritten == LexInv /\ LiteralInv => IntsAreTheirDigits
<1> SUFFICES ASSUME LexInv, LiteralInv, NEW n \in DOMAIN values, tokens[n].kind = "Int"
             PROVE  values[n] = Worth(TextOf(tokens[n]))
  BY DEF IntsAreTheirDigits
<1>1. n \in 1..Len(values) /\ n \in 1..Len(tokens)
  <2>1. values \in Seq(Made(text)) /\ Len(values) <= Len(tokens)
    BY DEF LiteralInv
  <2>2. Len(values) \in Nat /\ n \in 1..Len(values)
    BY <2>1
  <2>3. Len(tokens) \in Nat
    BY TokensAre
  <2> QED BY <2>1, <2>2, <2>3
<1> DEFINE s == TextOf(tokens[n])
<1>2. values[n] \in literal("Int", s)
  <2>1. values[n] \in LiteralOf(text, tokens[n])
    BY <1>1 DEF LiteralInv
  <2> QED BY <2>1 DEF LiteralOf, TextOf
<1>3. Alone(s, "Int")
  BY <1>1, TokensAreAlone DEF TextOf
<1> HIDE DEF s
<1>4. values[n] \in process_int(s)
  BY <1>2, LiteralCases
<1>5. values[n] = Worth(s)
  BY <1>3, <1>4, IntsAreRead
<1> QED BY <1>5 DEF s

LEMMA PanicsAreOfMalformed == LexInv /\ LiteralInv => OnlyMalformedPanics
<1> SUFFICES ASSUME LexInv, LiteralInv, panicked,
                    NEW p, p = tokens[Len(values) + 1], NEW s, s = TextOf(p)
             PROVE  \/ p.kind = "String" /\ \E i \in 3..(Len(s) - 1) : BadEscape(s, i)
                    \/ p.kind = "Int" /\ (Places(s) = {} \/ Worth(s) >= IntLimit)
  BY Zenon DEF OnlyMalformedPanics
<1>1. Len(values) + 1 \in 1..Len(tokens)
  <2>1. values \in Seq(Made(text)) /\ Len(values) < Len(tokens)
    BY DEF LiteralInv
  <2>2. Len(values) \in Nat
    BY <2>1
  <2>3. Len(tokens) \in Nat
    BY TokensAre
  <2> QED BY <2>1, <2>2, <2>3
<1>2. literal(p.kind, s) = {}
  <2>1. LiteralOf(text, p) = {}
    BY DEF LiteralInv
  <2> QED BY <2>1 DEF LiteralOf, TextOf
<1>3. Alone(s, p.kind)
  BY <1>1, TokensAreAlone DEF TextOf
<1>4. p.kind = "String" \/ p.kind = "Int"
  <2>1. process_raw_string(s) # {}
    BY DEF process_raw_string
  <2> QED BY <1>2, <2>1, LiteralCases
<1>5. CASE p.kind = "String"
  <2>1. process_string(s) = {} /\ Alone(s, "String")
    BY <1>2, <1>3, <1>5, LiteralCases
  <2>2. \E i \in 3..(Len(s) - 1) : BadEscape(s, i)
    BY <2>1, StringsAreRead
  <2> QED BY <1>5, <2>2
<1>6. CASE p.kind = "Int"
  <2>1. process_int(s) = {} /\ Alone(s, "Int")
    BY <1>2, <1>3, <1>6, LiteralCases
  <2>2. Places(s) = {} \/ Worth(s) >= IntLimit
    BY <2>1, IntsAreRead
  <2> QED BY <1>6, <2>2
<1> QED BY <1>4, <1>5, <1>6

(* Whatever the literal: a string's value is its text with each escape        *)
(* replaced, a \u by the character of its code (in braces, without a sign), a *)
(* raw string's is what is between its quotes, an integer's is what its       *)
(* digits are worth in its radix; and the parser panics on one the lexer took *)
(* only for an escape that is none, a code that is no character's, or an      *)
(* integer with no digit or too large.                                        *)
THEOREM LiteralsAreRight == Spec => []LiteralsRight
<1>1. LexInv /\ LiteralInv => LiteralsRight
  BY ValuesAreAsWritten, IntsAreAsWritten, PanicsAreOfMalformed DEF LiteralsRight
<1> QED BY <1>1, LiteralInvHolds, PTL
=============================================================================
