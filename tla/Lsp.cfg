SPECIFICATION FairSpec
CONSTANTS
  Utf8 <- MCUtf8
  Utf16 <- MCUtf16
  Newline = "lf"
  Uri = {"main", "other"}
  Openings <- MCOpenings
  Insertions <- MCInsertions
  Outcome <- MCOutcome
  Spans <- MCSpans
  MaxSent = 3
  MaxLen = 3
  Garbled = TRUE
  None = None
CHECK_DEADLOCK FALSE
INVARIANTS TextsAgree ShownAreCurrent PlacesKept AnswersMeetQuestions AnsweredInTurn
PROPERTIES ServerKeepsUp
