-------------------------------- MODULE Lexer --------------------------------
(***************************************************************************)
(* The lexer: at each place the longest match of the token table wins, and *)
(* a few tokens go on by hand from there.  A text is a sequence of bytes,  *)
(* each its character or, as "<22>", its code; a character of two bytes is *)
(* Lead followed by Continuation.  Places are byte indices, counted from 1, and *)
(* the end of a span is the place after it.  What logos does by its table  *)
(* is written as the choice of the longest candidate.                      *)
(***************************************************************************)
EXTENDS Integers, Sequences, SequencesExt, FiniteSetsExt

CONSTANTS Bytes,  \* what texts are made of
          Texts   \* the texts that are lexed, in sets

(* Bytes by their codes, and what is read outside a text.                    *)
Lead == "<C3>"
Continuation == "<A9>"
Quote == "<22>"
Underscore == "<5F>"
Space == "<20>"
OpeningBrace == "<7B>"
Semicolon == "<3B>"
Outside == "<>"
At(t, i) == IF i \in 1..Len(t) THEN t[i] ELSE Outside
Follows(t, i, word) == \A n \in DOMAIN word : At(t, i + n - 1) = word[n]
Slice(t, i, j) == SubSeq(t, i, Min({j - 1, Len(t)}))
Boundary(t, i) == i \in 1..(Len(t) + 1) /\ At(t, i) # Continuation

(* A &str is well-formed UTF-8.                                              *)
WellFormed(t) ==
  /\ t \in Seq(Bytes) /\ At(t, 1) # Continuation
  /\ \A i \in DOMAIN t : t[i] = Lead <=> At(t, i + 1) = Continuation
ASSUME TextsAssumption == Outside \notin Bytes /\ \A some \in Texts : \A t \in some : WellFormed(t)

Digits == {"0", "1", "2", "3", "4", "5", "6", "7", "8", "9"}
LowerHex == {"a", "b", "c", "d", "e", "f"}
UpperHex == {"A", "B", "C", "D", "E", "F"}
Letters ==
  LowerHex \cup UpperHex \cup
  {"g", "h", "i", "j", "k", "l", "m", "n", "o", "p", "q", "r", "s", "t", "u", "v", "w", "x", "y",
   "z", "G", "H", "I", "J", "K", "L", "M", "N", "O", "P", "Q", "R", "S", "T", "U", "V", "W", "X",
   "Y", "Z"}
Blank == {Space, "\t", "\r", "\n", "\f"}

Keywords ==
  {<<"a", "s">>, <<"b", "r", "e", "a", "k">>, <<"c", "o", "n", "t", "i", "n", "u", "e">>,
   <<"e", "l", "s", "e">>, <<"e", "n", "u", "m">>, <<"f", "a", "l", "s", "e">>, <<"f", "n">>,
   <<"f", "o", "r">>, <<"i", "f">>, <<"i", "m", "p", "l">>, <<"i", "n">>, <<"l", "e", "t">>,
   <<"l", "o", "o", "p">>, <<"m", "a", "t", "c", "h">>, <<"m", "o", "d">>, <<"p", "u", "b">>,
   <<"r", "e", "t", "u", "r", "n">>, <<"s", "e", "l", "f">>, <<"S", "e", "l", "f">>,
   <<"s", "t", "r", "u", "c", "t">>, <<"s", "u", "p", "e", "r">>, <<"t", "r", "a", "i", "t">>,
   <<"t", "r", "u", "e">>, <<"t", "y", "p", "e">>, <<"u", "s", "e">>,
   <<"w", "h", "e", "r", "e">>, <<"w", "h", "i", "l", "e">>, <<"d", "y", "n">>,
   <<"c", "o", "n", "s", "t">>}
Symbols ==
  {<<c>> : c \in {"+", "-", "*", "/", "%", "<", ">", "!", "&", "|", "^", "=", ".", "?", ":", Semicolon, ",",
                  "@", "#", "(", ")", OpeningBrace, "}", "[", "]"}}
    \cup {<<c, "=">> : c \in {"=", "!", "<", ">", "+", "-", "*", "/", "%", "&", "|", "^"}}
    \cup {<<c, c>> : c \in {"&", "|", "<", ">", ".", ":"}}
    \cup {<<c, c, "=">> : c \in {"<", ">", "."}}
    \cup {<<"-", ">">>, <<"=", ">">>}

(* The elements of s that are in S, in their order.                          *)
Kept(s, S) ==
  LET kept[n \in 0..Len(s)] ==
        IF n = 0 THEN <<>> ELSE IF s[n] \in S THEN Append(kept[n - 1], s[n]) ELSE kept[n - 1]
  IN  kept[Len(s)]

(* The end of the run of bytes of S, or of bytes other than c, from i on.    *)
RunEnd(t, i, S) == CHOOSE j \in i..(Len(t) + 1) : At(t, j) \notin S /\ \A k \in i..(j - 1) : t[k] \in S
Until(t, i, c) == CHOOSE j \in i..(Len(t) + 1) : At(t, j) \in {c, Outside} /\ \A k \in i..(j - 1) : t[k] # c
-----------------------------------------------------------------------------
(* What the table matches at i: a kind, a priority among equals, an end.     *)
Found(kind, priority, end) == [kind |-> kind, priority |-> priority, end |-> end]

Fixed(t, i) == {Found("Fixed", 2, i + Len(w)) : w \in {w \in Keywords \cup Symbols : Follows(t, i, w)}}

Hashes(t, i) == RunEnd(t, i, {"#"}) - i
RawQuote(t, i) == i + 1 + Hashes(t, i + 1)
IdentifierEnd(t, i) == IF At(t, i) \in Digits THEN i ELSE RunEnd(t, i, Letters \cup Digits \cup {Underscore})
RadixEnd(t, i, letters, digits) ==
  IF At(t, i) = "0" /\ At(t, i + 1) \in letters /\ At(t, i + 2) \in digits THEN RunEnd(t, i + 2, digits) ELSE i
DecimalEnd(t, i) == IF At(t, i) \in Digits THEN RunEnd(t, i, Digits \cup {Underscore}) ELSE i
Starting(t, i, word, end) == IF Follows(t, i, word) THEN end ELSE i
HexDigits == Digits \cup LowerHex \cup UpperHex \cup {Underscore}
OctalDigits == {"0", "1", "2", "3", "4", "5", "6", "7", Underscore}
BinaryDigits == {"0", "1", Underscore}

Patterns(t, i) ==
  {m \in {Found("Blank", 1, RunEnd(t, i, Blank)),
          Found("Identifier", 1, IdentifierEnd(t, i)),
          Found("Int", 2, RadixEnd(t, i, {"x", "X"}, HexDigits)),
          Found("Int", 2, RadixEnd(t, i, {"o", "O"}, OctalDigits)),
          Found("Int", 2, RadixEnd(t, i, {"b", "B"}, BinaryDigits)),
          Found("Decimal", 2, DecimalEnd(t, i)),
          Found("String", 2, Starting(t, i, <<Quote>>, i + 1)),
          Found("RawString", 2, IF At(t, i) = "r" /\ At(t, RawQuote(t, i)) = Quote THEN RawQuote(t, i) + 1 ELSE i),
          Found("InnerDocComment", 10, Starting(t, i, <<"/", "/", "!">>, Until(t, i, "\n"))),
          Found("OuterDocComment", 10, Starting(t, i, <<"/", "/", "/">>, Until(t, i, "\n"))),
          Found("LineComment", 2, Starting(t, i, <<"/", "/">>, Until(t, i, "\n"))),
          Found("BlockComment", 2, Starting(t, i, <<"/", "*">>, i + 2))} : m.end > i}

Candidates(t, i) == Fixed(t, i) \cup Patterns(t, i)
Longest(t, i) ==
  CHOOSE m \in Candidates(t, i) :
    \A o \in Candidates(t, i) : o.end < m.end \/ (o.end = m.end /\ o.priority <= m.priority)
-----------------------------------------------------------------------------
(* What goes on by hand after the match, which ended at j.                   *)
Done(kind, end) == [kind |-> kind, end |-> end, error |-> "none"]
Failed(error) == [kind |-> "none", end |-> 0, error |-> error]

AnyDotIsFloat(t, j) ==   \* mutant: a float before the dot is known to belong
  LET dot == At(t, j) = "." /\ At(t, j + 1) \notin Letters \cup {".", Underscore}
  IN  Done(IF At(t, j) = "." THEN "Float" ELSE "Int", IF dot THEN RunEnd(t, j + 1, Digits \cup {Underscore}) ELSE j)
lex_decimal_number(t, j) ==
  LET dot == At(t, j) = "." /\ At(t, j + 1) \notin Letters \cup {".", Underscore}
      mantissa == IF dot THEN RunEnd(t, j + 1, Digits \cup {Underscore}) ELSE j
      peek == IF At(t, mantissa + 1) \in {"+", "-"} THEN mantissa + 2 ELSE mantissa + 1
      exponent == At(t, mantissa) \in {"e", "E"} /\ At(t, peek) \in Digits
  IN  Done(IF dot \/ exponent THEN "Float" ELSE "Int",
           IF exponent THEN RunEnd(t, peek, Digits \cup {Underscore}) ELSE mantissa)

EscapeForgotten(t, j) ==   \* mutant: the first quote ends the string
  LET closing == {k \in j..Len(t) : t[k] = Quote}
  IN  IF closing = {} THEN Failed("UnterminatedString") ELSE Done("String", Min(closing) + 1)
lex_string(t, j) ==
  LET scan[i \in Nat] ==
        CASE At(t, i) = Outside -> Failed("UnterminatedString")
          [] At(t, i) = Quote -> Done("String", i + 1)
          [] At(t, i) = "\\" -> scan[i + 2]
          [] OTHER -> scan[i + 1]
  IN  scan[j]

lex_raw_string(t, i, j) ==
  LET hashes == Hashes(t, i + 1)
      closing == {k \in j..Len(t) : t[k] = Quote /\ Hashes(t, k + 1) >= hashes}
  IN  IF closing = {} THEN Failed("UnterminatedRawString") ELSE Done("RawString", Min(closing) + 1 + hashes)

lex_block_comment(t, j) ==
  LET scan[p \in Nat \X Nat] ==   \* a place and a depth
        CASE p[2] = 0 -> Done("BlockComment", p[1])
          [] p[2] > 0 /\ Follows(t, p[1], <<"/", "*">>) -> scan[<<p[1] + 2, p[2] + 1>>]
          [] p[2] > 0 /\ Follows(t, p[1], <<"*", "/">>) -> scan[<<p[1] + 2, p[2] - 1>>]
          [] p[2] > 0 /\ p[1] > Len(t) -> Failed("UnterminatedBlockComment")
          [] OTHER -> scan[<<p[1] + 1, p[2]>>]
  IN  scan[<<j, 1>>]

Lex(t, i) ==
  IF Candidates(t, i) = {} THEN Failed("InvalidToken")
  ELSE LET m == Longest(t, i)
       IN  CASE m.kind = "Decimal" -> lex_decimal_number(t, m.end)
             [] m.kind = "String" -> lex_string(t, m.end)
             [] m.kind = "RawString" -> lex_raw_string(t, i, m.end)
             [] m.kind = "BlockComment" -> lex_block_comment(t, m.end)
             [] OTHER -> Done(m.kind, m.end)
-----------------------------------------------------------------------------
VARIABLES
  text,     \* the text
  place,    \* where the lexer is
  pieces,   \* what it has matched, in order: kind, from, to
  error     \* the error that ended it, "none" before

Skipped == {"Blank", "LineComment", "BlockComment"}
tokens == Kept(pieces, {p \in ToSet(pieces) : p.kind \notin Skipped})
Lexed == error # "none" \/ place > Len(text)

LexInit == (\E some \in Texts : text \in some) /\ place = 1 /\ pieces = <<>> /\ error = "none"

(* One match.  tokenize_all keeps the first error and asks for no more; bump *)
(* panics when it is taken to the middle of a character.                     *)
LexNext ==
  /\ ~Lexed
  /\ \E found \in {Lex(text, place)} :
       IF found.error # "none"
         THEN error' = found.error /\ UNCHANGED <<place, pieces>>
       ELSE IF ~Boundary(text, found.end)
         THEN error' = "panicked" /\ UNCHANGED <<place, pieces>>
         ELSE /\ pieces' = Append(pieces, [kind |-> found.kind, from |-> place, to |-> found.end])
              /\ place' = found.end
              /\ UNCHANGED error
  /\ UNCHANGED text
=============================================================================
