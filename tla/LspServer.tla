------------------------------ MODULE LspServer ------------------------------
(***************************************************************************)
(* The language server and an editor that keeps to the protocol.           *)
(*                                                                         *)
(* The editor has the text of each document in a buffer and goes on        *)
(* editing while its messages wait in the server's channel.  The server    *)
(* takes one message at a time, keeps its own text of every open document, *)
(* checks the whole text at each change and publishes what it finds.       *)
(* What the server sends reaches the editor in order, so it is applied to  *)
(* the editor's state at once: the delay of one channel stands for both.   *)
(*                                                                         *)
(* The front end is a function of the text: Outcome says which of its      *)
(* stages ends the check, Spans what that stage reports.                   *)
(***************************************************************************)
EXTENDS LineIndex, SequencesExt

CONSTANTS
  Uri,          \* the documents
  Openings,     \* texts a document is opened with
  Insertions,   \* texts an edit puts in
  Outcome(_),   \* "Unlexable", "Unparsable", "Valueless", "Panics" or "Checked"
  Spans(_),     \* byte spans of the errors a stage reports
  MaxSent,      \* bound: messages an editor sends, one with changes counting
                \* as many as it has changes
  MaxLen,       \* bound: characters of a text
  Garbled,      \* BOOLEAN: may a message fail to deserialise?
  None          \* no text of a document, no range of a change, no answer

(* The texts there are, and the ranges an editor can name in one.             *)
Texts == UNION {[1..n -> DOMAIN Utf8] : n \in 0..MaxLen}
Ranges(text) ==
  {[start |-> EditorPosition(text, i), end |-> EditorPosition(text, j)] : i, j \in 0..Len(text)}

ASSUME BoundsAssumption == MaxSent \in Nat /\ MaxLen \in Nat
ASSUME TextsAssumption == Openings \cup Insertions \subseteq Texts
ASSUME NoneAssumption == None \notin Texts \cup UNION {Ranges(text) : text \in Texts}

(* A stage of the front end reports whole characters.                         *)
ASSUME FrontEndAssumption ==
  \A text \in Texts : \A s \in Spans(text) : {s.start, s.end} \subseteq Boundaries(text)

VARIABLES
  phase,        \* where main is
  inbox,        \* connection.receiver: messages the server has not taken
  documents,    \* the server's text of each document, None where the map has none
  connected,    \* the editor's end of the channel is there
  buffer,       \* the editor's text of each document
  hadValueless, \* history: has the editor had a text with a literal that has no value?
  shown,        \* the diagnostics the editor shows
  asked,        \* history: what each request was about, as the editor saw it
  answers,      \* history: the responses, in the order they are sent
  sent          \* messages sent, counted as for MaxSent

vars == <<phase, inbox, documents, connected, buffer, hadValueless, shown, asked, answers, sent>>
server == <<phase, documents, shown, answers>>
editor == <<connected, buffer, hadValueless, asked, sent>>

(* "Panicked" in replace_range, "Crashed" in the parser.                      *)
Ended == {"Stopped", "Failed", "Panicked", "Crashed"}
-----------------------------------------------------------------------------
Init ==
  /\ phase = "Starting"
  /\ inbox = << [method |-> "initialize"] >>
  /\ documents = [u \in Uri |-> None]
  /\ connected = TRUE
  /\ buffer = [u \in Uri |-> None]
  /\ hadValueless = FALSE
  /\ shown = [u \in Uri |-> {}]
  /\ asked = << >>
  /\ answers = << >>
  /\ sent = 0

(* The parser has no value for a literal of the text and is todo!() there,    *)
(* outside the catch_unwind of check_items: whoever parses the text ends the  *)
(* process.                                                                   *)
Valueless(text) == text # None /\ Outcome(text) = "Valueless"

(* check: no diagnostics when the text does not lex or the checker panics.    *)
Diagnostics(text) ==
  IF Outcome(text) \in {"Unlexable", "Panics"} THEN {}
  ELSE {RangeOf(text, span) : span \in Spans(text)}

(* hover_at: what is at the offset of the position, if the text checks.       *)
HoverAt(text, position) ==
  IF text = None \/ Outcome(text) # "Checked" THEN None
  ELSE [text |-> text, offset |-> Offset(text, position)]
InlayHints(text) ==
  IF text = None \/ Outcome(text) # "Checked" THEN None ELSE << >>
-----------------------------------------------------------------------------
(* The editor. *)

Weight(message) == IF message.method = "didChange" THEN Len(message.changes) ELSE 1
Send(message) ==
  /\ connected
  /\ phase # "Starting"     \* it waits for the answer to initialize
  /\ sent + Weight(message) <= MaxSent
  /\ ~ \E i \in DOMAIN inbox : inbox[i].method \in {"shutdown", "exit"}
  /\ phase \notin {"Stopping"} \cup Ended
  /\ sent' = sent + Weight(message)
  /\ inbox' = Append(inbox, message)
  /\ UNCHANGED <<server, connected>>

EditorHas(u, text) ==
  /\ buffer' = [buffer EXCEPT ![u] = text]
  /\ hadValueless' = (hadValueless \/ Valueless(text))
  /\ UNCHANGED asked

EditorOpens(u, text) ==
  /\ buffer[u] = None
  /\ Send([method |-> "didOpen", uri |-> u, text |-> text])
  /\ EditorHas(u, text)

Replaced(text, from, to, new) == SubSeq(text, 1, from) \o new \o SubSeq(text, to + 1, Len(text))

(* One edit of the editor: a text, and the change that makes it of the last.  *)
Edits(text) ==
  {e \in UNION {{[text   |-> Replaced(text, i, j, new),
                  change |-> [range |-> [start |-> EditorPosition(text, i), end |-> EditorPosition(text, j)],
                              text  |-> new]]
                  : i \in {k \in 0..Len(text) : k <= j}} : j \in 0..Len(text), new \in Insertions}
       : Len(e.text) <= MaxLen}
  \cup {[text |-> new, change |-> [range |-> None, text |-> new]] : new \in Insertions}

(* What up to `most` edits, each of what the last one left, make of a text.   *)
Rewritings(text, most) ==
  LET after[n \in 0..most] ==
        IF n = 0 THEN {[text |-> text, changes |-> << >>]}
        ELSE UNION {{[text |-> e.text, changes |-> Append(r.changes, e.change)] : e \in Edits(r.text)}
                      : r \in after[n - 1]}
  IN  UNION {after[n] : n \in 1..most}

EditorEdits(u) ==
  /\ buffer[u] # None
  /\ \E r \in Rewritings(buffer[u], MaxSent - sent) :
       /\ EditorHas(u, r.text)
       /\ Send([method |-> "didChange", uri |-> u, changes |-> r.changes])

EditorCloses(u) ==
  /\ buffer[u] # None
  /\ Send([method |-> "didClose", uri |-> u])
  /\ EditorHas(u, None)

(* A request with the next id; `about` is what the editor wants to know.      *)
Ask(method, u, position, about) ==
  /\ Send([method |-> method, uri |-> u, position |-> position, id |-> Len(asked) + 1])
  /\ asked' = Append(asked, about)
  /\ UNCHANGED <<buffer, hadValueless>>

EditorHovers(u) ==
  \E n \in 0..(IF buffer[u] = None THEN 0 ELSE Len(buffer[u])) :
    Ask("hover", u, IF buffer[u] = None THEN [line |-> 0, character |-> 0] ELSE EditorPosition(buffer[u], n),
        [method |-> "hover", text |-> buffer[u], gap |-> n])
EditorAsksHints(u) ==
  Ask("inlayHint", u, None, [method |-> "inlayHint", text |-> buffer[u], gap |-> 0])
EditorAsksUnknown(u) ==
  Ask("unknown", u, None, [method |-> "unknown", text |-> buffer[u], gap |-> 0])

(* A notification the server has no handler for, and one it cannot read.      *)
EditorNotifies ==
  /\ \E m \in {"initialized"} \cup IF Garbled THEN {"garbled"} ELSE {} : Send([method |-> m])
  /\ UNCHANGED <<buffer, hadValueless, asked>>

(* After shutdown the editor sends exit and nothing else.                     *)
EditorShutsDown ==
  Ask("shutdown", CHOOSE u \in Uri : TRUE, None, [method |-> "shutdown", text |-> None, gap |-> 0])
EditorExits ==
  /\ connected
  /\ phase = "Stopping" \/ (inbox # << >> /\ Last(inbox).method = "shutdown")
  /\ ~ \E i \in DOMAIN inbox : inbox[i].method = "exit"
  /\ inbox' = Append(inbox, [method |-> "exit"])
  /\ UNCHANGED <<server, editor>>

HangUp ==
  /\ connected
  /\ phase # "Starting"
  /\ connected' = FALSE
  /\ UNCHANGED <<server, inbox, buffer, hadValueless, asked, sent>>
-----------------------------------------------------------------------------
(* The server. *)

Takes(method) ==
  /\ phase = "Running"
  /\ inbox # << >>
  /\ Head(inbox).method = method
  /\ inbox' = Tail(inbox)
  /\ UNCHANGED editor

Respond(id, result) == answers' = Append(answers, [id |-> id, result |-> result])
Publish(u, found) == shown' = [shown EXCEPT ![u] = found]

(* Connection::initialize answers the request with the capabilities.          *)
Initialize ==
  /\ phase = "Starting"
  /\ phase' = "Running"
  /\ inbox' = Tail(inbox)
  /\ UNCHANGED <<documents, shown, answers, editor>>

(* publish checks the text and sends what it finds, and the text joins the    *)
(* documents there are `before`.                                              *)
PublishAndInsert(u, text, before) ==
  IF Valueless(text)
  THEN phase' = "Crashed" /\ documents' = before /\ UNCHANGED shown
  ELSE /\ Publish(u, Diagnostics(text))
       /\ documents' = [before EXCEPT ![u] = text]
       /\ UNCHANGED phase

DidOpen ==
  /\ Takes("didOpen")
  /\ PublishAndInsert(Head(inbox).uri, Head(inbox).text, documents)
  /\ UNCHANGED answers

(* One change of a message; replace_range panics on a start beyond the end:   *)
(* None.                                                                      *)
Changed(text, change) ==
  IF text = None THEN None
  ELSE IF change.range = None THEN change.text
  ELSE LET start == Offset(text, change.range.start)
           end   == Offset(text, change.range.end)
       IN  IF start > end THEN None
           ELSE Slice(text, 0, start) \o change.text \o Slice(text, end, Size(text))

(* The text that the changes of a message leave, in a set of its own: each    *)
(* applies to what the one before it left.                                    *)
AppliedFirstOnly(text, changes) == {Changed(text, changes[1])}
Applied(text, changes) ==
  LET after[n \in 0..Len(changes)] ==
        IF n = 0 THEN {text} ELSE {Changed(t, changes[n]) : t \in after[n - 1]}
  IN  after[Len(changes)]

DidChangePublishesOld ==
  /\ Takes("didChange")
  /\ \E m \in {Head(inbox)} : \E text \in Applied(documents[m.uri], m.changes) :
       /\ Publish(m.uri, Diagnostics(documents[m.uri]))
       /\ documents' = [documents EXCEPT ![m.uri] = text]
  /\ UNCHANGED <<phase, answers>>
DidChange ==
  /\ Takes("didChange")
  /\ \E m \in {Head(inbox)} :
     \E text \in Applied(IF documents[m.uri] = None THEN << >> ELSE documents[m.uri], m.changes) :
       LET removed == [documents EXCEPT ![m.uri] = None]
       IN  IF text = None
           THEN phase' = "Panicked" /\ documents' = removed /\ UNCHANGED shown
           ELSE PublishAndInsert(m.uri, text, removed)
  /\ UNCHANGED answers

DidCloseKeepsText ==
  /\ Takes("didClose")
  /\ Publish(Head(inbox).uri, {})
  /\ UNCHANGED <<phase, answers, documents>>
DidClose ==
  /\ Takes("didClose")
  /\ documents' = [documents EXCEPT ![Head(inbox).uri] = None]
  /\ Publish(Head(inbox).uri, {})
  /\ UNCHANGED <<phase, answers>>

(* What parsing and checking the text gives is the answer.                    *)
RespondFrom(text, result) ==
  IF Valueless(text)
  THEN phase' = "Crashed" /\ UNCHANGED answers
  ELSE Respond(Head(inbox).id, result) /\ UNCHANGED phase

Hover ==
  /\ Takes("hover")
  /\ LET text == documents[Head(inbox).uri] IN RespondFrom(text, HoverAt(text, Head(inbox).position))
  /\ UNCHANGED <<documents, shown>>
InlayHint ==
  /\ Takes("inlayHint")
  /\ LET text == documents[Head(inbox).uri] IN RespondFrom(text, InlayHints(text))
  /\ UNCHANGED <<documents, shown>>
UnknownUnanswered ==
  /\ Takes("unknown")
  /\ UNCHANGED <<phase, documents, shown, answers>>
UnknownRequest ==
  /\ Takes("unknown")
  /\ Respond(Head(inbox).id, "MethodNotFound")
  /\ UNCHANGED <<phase, documents, shown>>
UnknownNotification ==
  /\ Takes("initialized")
  /\ UNCHANGED <<phase, documents, shown, answers>>
MalformedParams ==
  /\ Takes("garbled")
  /\ phase' = "Failed"
  /\ UNCHANGED <<documents, shown, answers>>

(* handle_shutdown answers, then waits thirty seconds for exit and nothing    *)
(* else.                                                                      *)
Shutdown ==
  /\ Takes("shutdown")
  /\ Respond(Head(inbox).id, None)
  /\ phase' = "Stopping"
  /\ UNCHANGED <<documents, shown>>
AwaitExitForever ==
  /\ phase = "Stopping"
  /\ inbox # << >>
  /\ phase' = "Stopped"
  /\ inbox' = Tail(inbox)
  /\ UNCHANGED <<documents, shown, answers, editor>>
AwaitExit ==
  /\ phase = "Stopping"
  /\ IF inbox = << >> THEN phase' = "Failed" /\ UNCHANGED inbox
     ELSE phase' = "Stopped" /\ inbox' = Tail(inbox)
  /\ UNCHANGED <<documents, shown, answers, editor>>

(* The channel is empty and nobody will send: the loop ends.                  *)
ChannelClosed ==
  /\ phase = "Running"
  /\ inbox = << >>
  /\ ~connected
  /\ phase' = "Stopped"
  /\ UNCHANGED <<inbox, documents, shown, answers, editor>>
-----------------------------------------------------------------------------
Serve ==
  \/ Initialize \/ DidOpen \/ DidChange \/ DidClose
  \/ Hover \/ InlayHint \/ UnknownRequest \/ UnknownNotification \/ MalformedParams
  \/ Shutdown \/ AwaitExit \/ ChannelClosed

Editor ==
  \/ \E u \in Uri :
       \/ \E text \in Openings : EditorOpens(u, text)
       \/ EditorEdits(u) \/ EditorCloses(u)
       \/ EditorHovers(u) \/ EditorAsksHints(u) \/ EditorAsksUnknown(u)
  \/ EditorNotifies \/ EditorShutsDown \/ EditorExits \/ HangUp

Next == Serve \/ Editor
Spec == Init /\ [][Next]_vars

(* The loop takes a message whenever there is one; an editor that is there    *)
(* sends nothing it does not want to.                                         *)
FairSpec == Spec /\ WF_vars(Serve)
-----------------------------------------------------------------------------
Waiting(u) == \E i \in DOMAIN inbox : inbox[i].method \in {"didOpen", "didChange", "didClose"} /\ inbox[i].uri = u

(* However edits are cut into changes and messages, the server's text of a    *)
(* document is the editor's once no message about the document waits:         *)
(* handle_notification applies the changes of a message one after another,    *)
(* and ranges in the editor's order never make replace_range panic.  Only a   *)
(* literal without a value that the editor has really had stops the server.   *)
TextsAgree ==
  /\ phase # "Panicked"
  /\ IF phase = "Crashed" THEN hadValueless
     ELSE \A u \in Uri : Waiting(u) \/ documents[u] = buffer[u]

(* The ranges an editor shows are where the front end found the errors in the *)
(* text the editor has: published with each change, emptied by a close, until *)
(* a literal without a value ends the server.                                 *)
EditorRanges(text) ==
  LET gap(offset) == CHOOSE n \in 0..Len(text) : Bytes(text, n) = offset
  IN  {[start |-> EditorPosition(text, gap(s.start)), end |-> EditorPosition(text, gap(s.end))] : s \in Spans(text)}
RightlyShown(u) ==
  shown[u] = IF buffer[u] = None \/ Outcome(buffer[u]) \in {"Unlexable", "Panics"} THEN {} ELSE EditorRanges(buffer[u])
ShownAreCurrent == phase # "Crashed" => \A u \in Uri : Waiting(u) \/ RightlyShown(u)

(* A hover is answered about the text and the place the editor had when it    *)
(* asked, though both sides have moved on since: handle_request reads the     *)
(* documents when the messages sent before the request have been handled.     *)
Expected(about) ==
  LET checks == about.text # None /\ Outcome(about.text) = "Checked"
  IN  CASE about.method = "unknown" -> "MethodNotFound"
        [] about.method = "shutdown" -> None
        [] about.method = "hover" ->
             IF checks THEN [text |-> about.text, offset |-> Bytes(about.text, about.gap)] ELSE None
        [] about.method = "inlayHint" -> IF checks THEN << >> ELSE None
AnswersMeetQuestions == \A i \in DOMAIN answers : answers[i].result = Expected(asked[answers[i].id])

(* Requests are answered in order and once each, the unknown ones included.   *)
AnsweredInTurn == \A i \in DOMAIN answers : answers[i].id = i

(* A position no editor would send (inside a surrogate pair, past the end of  *)
(* a line or of the text) still stands for a whole number of characters, and  *)
(* on the lines there are, a later one does not come out before an earlier.   *)
NoOffsetSplits(t) ==
  LET at(l, c) == Offset(t, [line |-> l, character |-> c])
  IN  \A l \in 0..LastLine(t) + 1, c \in 0..2 * MaxLen :
        /\ at(l, c) \in Boundaries(t)
        /\ at(l, c) <= at(l, c + 1)
        /\ l < LastLine(t) => at(l, c) <= at(l + 1, 0)

(* The line index of every text the server comes to is right for the places   *)
(* an editor names, and for those it should not name.                         *)
PlacesKept ==
  \A u \in Uri : documents[u] # None => RoundTrips(documents[u]) /\ NoOffsetSplits(documents[u])

(* Every request is answered, unless a message could not be read, the editor  *)
(* left the server to time out or the parser ended it over a literal (which   *)
(* TextsAgree ties to a text the editor has had).                             *)
EveryRequestAnswered ==
  \A id \in 1..MaxSent :
    id \in DOMAIN asked ~> \/ phase \in {"Failed", "Crashed"}
                           \/ \E i \in DOMAIN answers : answers[i].id = id

(* When the editor stops typing it is shown what is wrong with its text, and  *)
(* goes on being shown that, with the same exceptions.                        *)
DiagnosticsSettle == \A u \in Uri : <>[](phase \in {"Failed", "Crashed"} \/ RightlyShown(u))

(* A server whose editor has gone ends.                                       *)
ServerEnds == ~connected ~> phase \in Ended

(* What the loop of main.rs owes an editor in the end.                        *)
ServerKeepsUp == EveryRequestAnswered /\ DiagnosticsSettle /\ ServerEnds
=============================================================================
