------------------------------- MODULE MCLexer -------------------------------
(* Instances of Literals: texts over a few characters that meet each other.  *)
EXTENDS Literals

AllBytes ==
  {Lead, Continuation} \cup Letters \cup Digits \cup Blank \cup
  {Underscore, ".", "+", Quote, "\\", "#", "/", "*", "!", OpeningBrace, "}", "=", "<"}
Over(chars, longest) == {FlattenSeq(s) : s \in SeqOf({<<c>> : c \in chars}, longest)}
Wide == <<Lead, Continuation>>
NumberTexts == Over({"0", "1", ".", "e", Underscore, "x", "+", "b"}, 5)
QuoteTexts ==
  {FlattenSeq(s) : s \in SeqOf({<<Quote>>, <<"\\">>, <<"r">>, <<"#">>, <<"n">>, Wide}, 5)}
CommentTexts == Over({"/", "*", "\n", "!"}, 7)
EscapeTexts == {<<Quote>> \o s \o <<Quote>> : s \in Over({"\\", "u", OpeningBrace, "1", "}"}, 6)}
(* Codes at the bounds of the characters, and some that are none.             *)
Coded(code) == <<Quote, "\\", "u", OpeningBrace>> \o code \o <<"}", "\\", "n", Quote>>
CodeTexts ==
  {Coded(code) : code \in
     {<<"D", "7", "F", "F">>, <<"d", "8", "0", "0">>, <<"d", "F", "f", "F">>, <<"E", "0", "0", "0">>,
      <<"1", "0", "F", "F", "F", "F">>, <<"1", "1", "0", "0", "0", "0">>, <<"0", "0", "0", "0", "0", "4", "1">>,
      <<"+", "4", "1">>, <<"4", Underscore, "1">>, <<"4", "g">>, <<>>}}
WordTexts == Over({"i", "f", "n", "s", Space, "=", "<", ".", "2"}, 4)
FieldTexts == {<<"t">> \o FlattenSeq(s) : s \in SeqOf({<<".", "0">>, <<".", "1">>}, 4)}

AllTexts == {NumberTexts, QuoteTexts, CommentTexts, EscapeTexts, CodeTexts, WordTexts, FieldTexts}
=============================================================================
