------------------------------ MODULE Literals ------------------------------
(***************************************************************************)
(* From the text of a literal to its value.  The parser takes the tokens   *)
(* one after the other and converts each literal; where the code has a     *)
(* todo!() the program panics.  The lexer and this part read the same text *)
(* twice, and must agree on where things are in it.  A conversion gives    *)
(* the set of its value, or the empty set where the code panics.           *)
(***************************************************************************)
EXTENDS Lexer

CONSTANT IntLimit  \* stands for 2^128, the first integer a literal cannot have

ASSUME IntLimitAssumption == IntLimit \in Nat

MaxChar == 1114111 \* char::MAX
Surrogates == 55296..57343

Numerals ==
  <<{"0"}, {"1"}, {"2"}, {"3"}, {"4"}, {"5"}, {"6"}, {"7"}, {"8"}, {"9"},
    {"a", "A"}, {"b", "B"}, {"c", "C"}, {"d", "D"}, {"e", "E"}, {"f", "F"}>>
DigitOf(c) == (CHOOSE n \in 1..16 : c \in Numerals[n]) - 1
IsDigit(c, radix) == c \in Digits \cup LowerHex \cup UpperHex /\ DigitOf(c) < radix

(* from_str_radix: at least one digit, a plus allowed before it; limit is    *)
(* the first number that does not fit.                                       *)
FromStrRadix(s, radix, limit) ==
  LET first == IF Len(s) > 1 /\ s[1] = "+" THEN 2 ELSE 1
      value[n \in 0..Len(s)] == IF n < first THEN 0 ELSE value[n - 1] * radix + DigitOf(s[n])
      valid == s # <<>> /\ \A n \in first..Len(s) : IsDigit(s[n], radix)
  IN  IF valid /\ value[Len(s)] < limit THEN {value[Len(s)]} ELSE {}

Simple == [c \in {"n", "r", "t", "\\", "0", Quote, "'"} |->
             CASE c = "n" -> "\n" [] c = "r" -> "\r" [] c = "t" -> "\t" [] c = "0" -> "NUL" [] OTHER -> c]

(* process_escape, from the place of the backslash: the character and the    *)
(* place after it.  The character after u is dropped, whatever it is.        *)
Read(chars, next) == [chars |-> chars, next |-> next]
NextChar(s, i) == IF At(s, i) = Lead THEN i + 2 ELSE i + 1
process_escape(s, i) ==
  LET first == NextChar(s, i + 2)
      brace == Until(s, first, "}")
      code == FromStrRadix(Slice(s, first, brace), 16, MaxChar + 1) \ Surrogates
  IN  CASE At(s, i + 1) \in DOMAIN Simple -> Read({Simple[s[i + 1]]}, i + 2)
        [] At(s, i + 1) = "u" -> Read({<<n>> : n \in code}, brace + 1)
        [] OTHER -> Read({}, i + 2)

process_string(s) ==
  LET from[i \in Nat] ==   \* what the text from i on is
        IF At(s, i) \in {Outside, Quote} THEN {<<>>}
        ELSE LET one == IF s[i] = "\\" THEN process_escape(s, i) ELSE Read({s[i]}, i + 1)
             IN  {<<c>> \o rest : c \in one.chars, rest \in from[one.next]}
  IN  from[2]

process_raw_string(s) == {Slice(s, 3 + Hashes(s, 2), Len(s) - Hashes(s, 2))}

Prefixed(s) == At(s, 1) = "0" /\ At(s, 2) \in {"x", "X", "o", "O", "b", "B"}
RadixOf(s) ==
  CASE Prefixed(s) /\ s[2] \in {"x", "X"} -> 16
    [] Prefixed(s) /\ s[2] \in {"o", "O"} -> 8
    [] Prefixed(s) /\ s[2] \in {"b", "B"} -> 2
    [] OTHER -> 10
process_int(s) ==
  LET written == IF Prefixed(s) THEN Slice(s, 3, Len(s) + 1) ELSE s
  IN  FromStrRadix(Kept(written, ToSet(written) \ {Underscore}), RadixOf(s), IntLimit)

literal(kind, s) ==
  CASE kind = "String" -> process_string(s)
    [] kind = "RawString" -> process_raw_string(s)
    [] kind = "Int" -> process_int(s)
    [] OTHER -> {s}
-----------------------------------------------------------------------------
VARIABLES values,   \* what the parser made of the tokens it has taken
          panicked

vars == <<text, place, pieces, error, values, panicked>>
TextOf(p) == Slice(text, p.from, p.to)

Init == LexInit /\ values = <<>> /\ panicked = FALSE

Match == LexNext /\ UNCHANGED <<values, panicked>>

(* The parser is given tokens only when the whole text was lexed.            *)
Take ==
  /\ Lexed /\ error = "none" /\ ~panicked
  /\ Len(values) < Len(tokens)
  /\ \E p \in {tokens[Len(values) + 1]} : \E made \in {literal(p.kind, TextOf(p))} :
       \/ made = {} /\ panicked' = TRUE /\ UNCHANGED values
       \/ \E value \in made : values' = Append(values, value) /\ UNCHANGED panicked
  /\ UNCHANGED <<text, place, pieces, error>>

Next == Match \/ Take
Spec == Init /\ [][Next]_vars
-----------------------------------------------------------------------------
(* Properties *)

Latest == pieces[Len(pieces)]   \* earlier pieces were the last one once
Just(kind) == pieces # <<>> /\ Latest.kind = kind

(* Every byte of the text up to the lexer's place is in exactly one piece,   *)
(* no piece is empty or cuts a character, and no scan by hand leaves the     *)
(* text, though one of them steps over two bytes after a backslash.          *)
NothingLost ==
  /\ error # "panicked"
  /\ \A n \in DOMAIN pieces :
       /\ pieces[n].from = (IF n = 1 THEN 1 ELSE pieces[n - 1].to)
       /\ pieces[n].from < pieces[n].to /\ Boundary(text, pieces[n].to)
  /\ place = (IF pieces = <<>> THEN 1 ELSE Latest.to)

(* A string ends at the first quote that an even number of backslashes       *)
(* stand before: the scan of the lexer (lex_string) skips by pairs.          *)
Backslashes(s, i) == Cardinality({k \in 1..(i - 1) : \A l \in k..(i - 1) : s[l] = "\\"})
Escaped(s, i) == Backslashes(s, i) % 2 = 1
StringsClose ==
  Just("String") =>
    LET s == TextOf(Latest)
    IN  {i \in 2..Len(s) : s[i] = Quote /\ ~Escaped(s, i)} = {Len(s)}

(* A block comment is its opening, comments and other bytes, and the first   *)
(* closing that is not one of those comments': lex_block_comment only counts.*)
CommentEnd(t, i) ==
  LET body[k \in Nat] ==
        CASE k > Len(t) -> 0
          [] Follows(t, k, <<"*", "/">>) -> k + 2
          [] Follows(t, k, <<"/", "*">>) -> IF body[k + 2] = 0 THEN 0 ELSE body[body[k + 2]]
          [] OTHER -> body[k + 1]
  IN  body[i + 2]
CommentsNest ==
  /\ Just("BlockComment") => CommentEnd(text, Latest.from) = Latest.to
  /\ error = "UnterminatedBlockComment" => CommentEnd(text, place) = 0

(* A token's text gives that token when it stands alone: what follows a      *)
(* number, a dot or the letter r decides where the token ends, never what it *)
(* is (lex_decimal_number looks two bytes ahead before it takes a dot).      *)
StandAlone ==
  pieces # <<>> =>
    LET s == TextOf(Latest) IN Lex(s, 1) = Done(Latest.kind, Len(s) + 1)

(* Two pieces that touch are not one name, keyword or operator cut in two:   *)
(* a keyword is no prefix of a longer name, and the longest operator wins    *)
(* (the order of the token table does not matter).                           *)
LongestWins ==
  \A n \in 1..(Len(pieces) - 1) :
    LET whole == Slice(text, pieces[n].from, pieces[n + 1].to)
    IN  /\ whole \notin Keywords \cup Symbols
        /\ ~(whole[1] \in Letters /\ \A i \in DOMAIN whole : whole[i] \in Letters \cup Digits \cup {Underscore})

(* The bounds of a range and a method of a number stay apart from it: before *)
(* two dots, or a dot and a name, a decimal is an integer without the dot.   *)
RangesStayWhole ==
  Just("Float") =>
    LET s == TextOf(Latest)
    IN  /\ s[Len(s)] = "." => At(text, Latest.to) \notin Letters \cup {".", Underscore}
        /\ \A i \in 1..(Len(s) - 1) : s[i] = "." => s[i + 1] \in Digits \cup {Underscore, "e", "E"}

(* The sum of the digits at some places of a text, each weighing radix times  *)
(* what the next of them weighs.                                              *)
Weighed(s, places, radix) ==
  LET sum[i \in Nat] ==   \* what the digits from i on are worth, and a one before them
        IF i > Len(s) THEN <<0, 1>>
        ELSE IF i \in places THEN <<DigitOf(s[i]) * sum[i + 1][2] + sum[i + 1][1], radix * sum[i + 1][2]>>
        ELSE sum[i + 1]
  IN  sum[1][1]

(* \u{...}: from the u to the next closing brace, the code in between, and    *)
(* the number it is in hexadecimal, which must be that of a character.        *)
Codes(s) == {i \in 3..Len(s) : s[i] = "u" /\ Escaped(s, i)}
CodeEnd(s, i) == CHOOSE k \in i..(Len(s) + 1) : At(s, k) \in {"}", Outside} /\ \A l \in i..(k - 1) : s[l] # "}"
Code(s, i) == Slice(s, i + 2, CodeEnd(s, i))
CharOf(s, i) == Weighed(Code(s, i), DOMAIN Code(s, i), 16)
IsCode(s, i) ==
  /\ Code(s, i) # <<>> /\ \A n \in DOMAIN Code(s, i) : Code(s, i)[n] \in Digits \cup LowerHex \cup UpperHex
  /\ CharOf(s, i) <= MaxChar /\ CharOf(s, i) \notin Surrogates
Braced(s, i) == At(s, i + 1) = OpeningBrace /\ At(s, i + 2) # "+"

(* The value of a string is its text with each escape replaced: a character   *)
(* is dropped exactly when it is a backslash that escapes, or belongs to the  *)
(* code of a u; and a raw string's is what is between its quotes.  (Nothing   *)
(* is said of a u without a brace, for which the code drops the character     *)
(* that stands there, or of a code with a sign.)                              *)
Meant(s, n) ==
  {i \in 2..n : /\ s[i] # "\\" \/ Escaped(s, i)
                /\ \A u \in Codes(s) : i \notin (u + 1)..CodeEnd(s, u)}
Decoded(s, i) ==
  CASE i \in Codes(s) -> <<CharOf(s, i)>>
    [] i \notin Codes(s) /\ Escaped(s, i) -> Simple[s[i]]
    [] OTHER -> s[i]
Decodes(s, value) ==
  /\ Len(value) = Cardinality(Meant(s, Len(s) - 1))
  /\ \A i \in Meant(s, Len(s) - 1) :
       /\ value[Cardinality(Meant(s, i))] = Decoded(s, i)
       /\ i \in Codes(s) => IsCode(s, i)
ValuesAreTheTexts ==
  values # <<>> =>
    LET p == tokens[Len(values)]
        s == TextOf(p)
        value == values[Len(values)]
    IN  /\ p.kind = "String" /\ (\A i \in Codes(s) : Braced(s, i)) => Decodes(s, value)
        /\ p.kind = "RawString" =>
             \E n \in 0..Len(s) :
               s = <<"r">> \o [k \in 1..n |-> "#"] \o <<Quote>> \o value \o <<Quote>> \o [k \in 1..n |-> "#"]

(* The value of an integer is the sum of its digits, each weighing radix     *)
(* times what the one after it weighs.                                       *)
Places(s) == {i \in (IF At(s, 2) \in Letters THEN 3 ELSE 1)..Len(s) : s[i] # Underscore}
BaseOf(s) ==
  CASE At(s, 2) \in {"x", "X"} -> 16 [] At(s, 2) \in {"o", "O"} -> 8
    [] At(s, 2) \in {"b", "B"} -> 2 [] OTHER -> 10
Worth(s) == Weighed(s, Places(s), BaseOf(s))
IntsAreTheirDigits ==
  \A n \in DOMAIN values : tokens[n].kind = "Int" => values[n] = Worth(TextOf(tokens[n]))

(* A literal the lexer accepts panics the parser only when it is malformed   *)
(* in one of the ways the code leaves to a todo!(): an escape that is not    *)
(* one of the list, a code that is none of a character, digits that are      *)
(* missing or too many.                                                      *)
BadEscape(s, i) ==
  /\ Escaped(s, i) /\ s[i] \notin DOMAIN Simple
  /\ ~(i \in Codes(s) /\ Braced(s, i) /\ IsCode(s, i))
OnlyMalformedPanics ==
  panicked =>
    LET p == tokens[Len(values) + 1]
        s == TextOf(p)
    IN  \/ p.kind = "String" /\ \E i \in 3..(Len(s) - 1) : BadEscape(s, i)
        \/ p.kind = "Int" /\ (Places(s) = {} \/ Worth(s) >= IntLimit)

(* Each token is what its own text says, however the text goes on, and what  *)
(* goes on by hand ends where it should.                                     *)
TokensRight == NothingLost /\ StandAlone /\ LongestWins /\ RangesStayWhole /\ StringsClose /\ CommentsNest

(* The parser makes of a literal the value that is written.                  *)
LiteralsRight == ValuesAreTheTexts /\ IntsAreTheirDigits /\ OnlyMalformedPanics
=============================================================================
