------------------------------ MODULE Diagnostics ------------------------------
(***************************************************************************)
(* The message of a type mismatch: the two types are put into one text,    *)
(* the conflicting part of each is searched for in that text, and the      *)
(* command line colours what was found.  A text is a sequence of           *)
(* characters, where "e" stands for the word before the first type, "f"    *)
(* for the one before the second and "|" for the quotes; positions are     *)
(* those between characters.                                               *)
(***************************************************************************)
EXTENDS Integers, Sequences, FiniteSets, SequencesExt, FiniteSetsExt

CONSTANTS Characters,  \* what texts are made of
          TypesUpTo,   \* sets of types, each with arguments from the ones before it:
                       \* [k |-> "Name", name, args |-> <<>>], or k "Tuple" or "Fn" with args
          None

Types == UNION {TypesUpTo[h] : h \in DOMAIN TypesUpTo}

(* Types are finite trees, names have a character, a fn has a result.        *)
ASSUME TypesAssumption ==
  /\ TypesUpTo \in Seq(SUBSET Types)
  /\ \A h \in DOMAIN TypesUpTo : \A t \in TypesUpTo[h] :
       /\ t \in [k : {"Name", "Tuple", "Fn"}, name : Seq(Characters), args : Seq(Types)]
       /\ IF t.k = "Name" THEN t.name # <<>> /\ t.args = <<>> ELSE t.name = <<>>
       /\ t.k = "Fn" => t.args # <<>>
       /\ \A n \in DOMAIN t.args : \E lower \in 1..(h - 1) : t.args[n] \in TypesUpTo[lower]
ASSUME CharactersAssumption == {"e", "f", "|", ",", "(", ")", "F", ">"} \subseteq Characters
ASSUME NoneAssumption == None \notin [start : Nat, end : Nat]

VARIABLES expected, found,   \* the two types
          todo,              \* pairs of a type and its conflicting part to be emphasised
          emphasis,          \* the ranges that were found, [start, end]
          printed            \* what the command line shows: characters, coloured or not

vars == <<expected, found, todo, emphasis, printed>>
-----------------------------------------------------------------------------
Listed(ps) == FlattenSeq([n \in DOMAIN ps |-> IF n = 1 THEN ps[n] ELSE <<",">> \o ps[n]])
render[t \in Types] ==
  LET parts == [n \in DOMAIN t.args |-> render[t.args[n]]]
  IN  CASE t.k = "Name" -> t.name
        [] t.k = "Tuple" -> <<"(">> \o Listed(parts) \o <<")">>
        [] t.k = "Fn" -> <<"F", "(">> \o Listed(Front(parts)) \o <<")", ">">> \o Last(parts)
message == <<"e", "|">> \o render[expected] \o <<"|", "f", "|">> \o render[found] \o <<"|">>

(* The first parts of two types that conflict.                               *)
Different == {p \in Types \X Types : p[1] # p[2]}
Conflict[p \in Different] ==
  LET s == p[1].args
      t == p[2].args
      n == Min({m \in DOMAIN s : s[m] # t[m]})
  IN  IF p[1].k # p[2].k \/ s = <<>> \/ Len(s) # Len(t) THEN p ELSE Conflict[<<s[n], t[n]>>]
conflict == Conflict[<<expected, found>>]

Occurrences(text, part) == {n \in 0..(Len(text) - Len(part)) : SubSeq(text, n + 1, n + Len(part)) = part}
overlaps(claimed, range) == \E c \in claimed : c.start < range.end /\ range.start < c.end
Range0(start, part) == [start |-> start, end |-> start + Len(part)]

OnlyTheFirst(container, fragment, claimed) ==   \* mutant of locate: a container that is taken ends the search
  LET start == Min(Occurrences(message, container))
      range == Range0(start + Min(Occurrences(container, fragment)), fragment)
  IN  IF overlaps(claimed, Range0(start, container)) THEN None ELSE range
locate(container, fragment, claimed) ==
  LET In(start) == Range0(start + Min(Occurrences(container, fragment)), fragment)
      open == {s \in Occurrences(message, container) :
                 ~overlaps(claimed, Range0(s, container)) /\ ~overlaps(claimed, In(s))}
  IN  IF Occurrences(container, fragment) = {} \/ open = {} THEN None ELSE In(Min(open))

(* A range that begins before the cursor or ends after the text is left out. *)
InOrder(ranges) ==
  CHOOSE q \in [1..Cardinality(ranges) -> ranges] :
    \A m, n \in DOMAIN q : m < n => q[m] # q[n] /\ q[m].start <= q[n].start
emphasize(text, ranges) ==
  LET Part(from, to, coloured) == [n \in 1..(to - from) |-> <<text[from + n], coloured>>]
      sorted == InOrder(ranges)
      shown[n \in 0..Cardinality(ranges)] ==
        IF n = 0 THEN [out |-> <<>>, cursor |-> 0]
        ELSE IF sorted[n].start < shown[n - 1].cursor \/ sorted[n].end > Len(text) THEN shown[n - 1]
        ELSE [out |-> shown[n - 1].out \o Part(shown[n - 1].cursor, sorted[n].start, FALSE)
                                       \o Part(sorted[n].start, sorted[n].end, TRUE),
              cursor |-> sorted[n].end]
      last == shown[Cardinality(ranges)]
  IN  last.out \o Part(last.cursor, Len(text), FALSE)
-----------------------------------------------------------------------------
Init ==
  /\ expected \in Types /\ found \in Types /\ expected # found
  /\ todo = <<<<expected, conflict[1]>>, <<found, conflict[2]>>>>
  /\ emphasis = {} /\ printed = None

Emphasize ==
  /\ todo # <<>>
  /\ todo' = Tail(todo)
  /\ LET range == locate(render[Head(todo)[1]], render[Head(todo)[2]], emphasis)
     IN  emphasis' = IF range = None THEN emphasis ELSE emphasis \cup {range}
  /\ UNCHANGED <<expected, found, printed>>

Report ==
  /\ todo = <<>> /\ printed = None
  /\ printed' = emphasize(message, emphasis)
  /\ UNCHANGED <<expected, found, todo, emphasis>>

Next == Emphasize \/ Report
Spec == Init /\ [][Next]_vars
-----------------------------------------------------------------------------
(* Both conflicting parts are found, in places that share no character,      *)
(* although the parts may occur in each other and in the words around them   *)
(* (locate, claimed).                                                        *)
EachHasItsPlace ==
  /\ Cardinality(emphasis) + Len(todo) = 2
  /\ \A a, b \in emphasis : a = b \/ a.end <= b.start \/ b.end <= a.start

(* What is emphasised reads like the parts that conflict.                    *)
EmphasisReadsRight ==
  todo = <<>> =>
    {SubSeq(message, r.start + 1, r.end) : r \in emphasis} = {render[conflict[1]], render[conflict[2]]}

(* The command line shows the message, nothing left out or twice, with the   *)
(* ranges and nothing else in colour (emphasize).                            *)
PrintsTheMessage ==
  printed # None =>
    /\ [n \in DOMAIN printed |-> printed[n][1]] = message
    /\ {n \in DOMAIN printed : printed[n][2]} = UNION {(r.start + 1)..r.end : r \in emphasis}

(* The two conflicting parts of a mismatch reach the reader, each in a place *)
(* of its own, and the rest of the message around them.                      *)
EmphasisShown == EachHasItsPlace /\ EmphasisReadsRight /\ PrintsTheMessage
=============================================================================
