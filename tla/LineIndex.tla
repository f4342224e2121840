------------------------------ MODULE LineIndex ------------------------------
(***************************************************************************)
(* Byte offsets against the editor's positions.  The compiler counts bytes *)
(* of UTF-8 from the start of the text; the protocol counts lines, and in  *)
(* a line units of UTF-16.  A text is a sequence of characters, of which   *)
(* only these two widths and being a line feed matter.                     *)
(***************************************************************************)
EXTENDS Integers, Sequences, FiniteSets

CONSTANTS
  Utf8,     \* bytes of each character
  Utf16,    \* units of each character
  Newline   \* the character "\n"

ASSUME CharsAssumption ==
  /\ DOMAIN Utf8 = DOMAIN Utf16
  /\ \A c \in DOMAIN Utf8 : Utf8[c] \in 1..4 /\ Utf16[c] \in 1..2
  /\ Newline \in DOMAIN Utf8 /\ Utf8[Newline] = 1 /\ Utf16[Newline] = 1

Count(width, text, from, to) ==
  LET upTo[n \in 0..Len(text)] == IF n < from THEN 0 ELSE upTo[n - 1] + width[text[n]]
  IN  upTo[to]
Bytes(text, n) == Count(Utf8, text, 1, n)      \* of the first n characters
Size(text) == Bytes(text, Len(text))
Boundaries(text) == {Bytes(text, n) : n \in 0..Len(text)}

(* A gap is a number of characters; CharsBefore is the gap at a byte offset. *)
CharsBefore(text, offset) == Cardinality({n \in 1..Len(text) : Bytes(text, n) <= offset})
Slice(text, from, to) == SubSeq(text, CharsBefore(text, from) + 1, CharsBefore(text, to))

(* line_starts, as gaps: 0, and the one after each line feed.                *)
LineStarts(text) == {0} \cup {n \in 1..Len(text) : text[n] = Newline}
LastLine(text) == Cardinality(LineStarts(text)) - 1
LineOf(text, gap) == Cardinality({s \in LineStarts(text) : s <= gap}) - 1
StartOfLine(text, line) == CHOOSE s \in LineStarts(text) : LineOf(text, s) = line

(* The compiler's offsets lie between characters: cutting the text inside    *)
(* one would be a panic.                                                     *)
PositionInBytes(text, offset) ==
  LET line == LineOf(text, CharsBefore(text, offset))
  IN  [line |-> line, character |-> offset - Bytes(text, StartOfLine(text, line))]
Position(text, offset) ==
  LET gap  == CharsBefore(text, offset)
      line == LineOf(text, gap)
  IN  [line |-> line, character |-> Count(Utf16, text, StartOfLine(text, line) + 1, gap)]

RangeOf(text, span) ==
  [start |-> Position(text, span.start), end |-> Position(text, span.end)]

(* A line beyond the last is the last; in the line, its line feed included,  *)
(* characters are taken while they fit in what remains of the column.        *)
Offset(text, position) ==
  LET line  == IF position.line < LastLine(text) THEN position.line ELSE LastLine(text)
      first == StartOfLine(text, line)
      last  == IF line < LastLine(text) THEN StartOfLine(text, line + 1) ELSE Len(text)
      fits  == {n \in first..last : Count(Utf16, text, first + 1, n) <= position.character}
  IN  Bytes(text, CHOOSE n \in fits : \A m \in fits : m <= n)

(* What an editor means by the position of the gap after n characters.       *)
EditorPosition(text, n) ==
  LET feeds == {k \in 1..n : text[k] = Newline}
      first == IF feeds = {} THEN 1 ELSE 1 + CHOOSE k \in feeds : \A j \in feeds : j <= k
  IN  [line |-> Cardinality(feeds), character |-> Count(Utf16, text, first, n)]
-----------------------------------------------------------------------------
(* LineIndex takes each place an editor can name to a byte and back, for      *)
(* characters of every width.                                                 *)
RoundTrips(t) ==
  \A n \in 0..Len(t) : /\ Offset(t, EditorPosition(t, n)) = Bytes(t, n)
                       /\ Position(t, Bytes(t, n)) = EditorPosition(t, n)
=============================================================================
