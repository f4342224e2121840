--------------------------------- MODULE Peg ---------------------------------
(***************************************************************************)
(* The parser combinators the grammar is written with, by what they do.    *)
(* A parser is a record; Run applies it to a sequence of tokens from a     *)
(* place on and says whether it succeeds, where it stops and what it       *)
(* yields: a sequence of trees.  A tree is a tuple: a name, then subtrees. *)
(* Choices are ordered and final: what comes after a choice never makes it *)
(* try another alternative.                                                *)
(***************************************************************************)
EXTENDS Integers, Sequences

CONSTANT Rule(_)    \* the parser a recursive name stands for

Token(t)        == [op |-> "token", tokens |-> {t}, yields |-> FALSE]
Select(ts)      == [op |-> "token", tokens |-> ts, yields |-> TRUE]
Ref(name)       == [op |-> "ref", name |-> name]
Then(ps)        == [op |-> "then", parts |-> ps]
Choice(ps)      == [op |-> "choice", alternatives |-> ps]
OrNot(p)        == [op |-> "or_not", of |-> p]
Repeated(p)     == [op |-> "repeated", of |-> p, separator |-> Then(<< >>), trailing |-> FALSE, least |-> 0]
Separated(p, t, least) ==
  [op |-> "repeated", of |-> p, separator |-> Token(t), trailing |-> FALSE, least |-> least]
Trailing(p, t)  == [Separated(p, t, 0) EXCEPT !.trailing = TRUE]
Node(tag, p)    == [op |-> "node", tag |-> tag, of |-> p]
Unwrap(tag, p)  == [op |-> "unwrap", tag |-> tag, of |-> p]    \* a node unless it has one part
Pratt(atom, ops) == [op |-> "pratt", atom |-> atom, ops |-> ops]
Nothing         == Then(<< >>)
Between(l, p, r) == Then(<<Token(l), p, Token(r)>>)

Prefix(tag, level, p)         == [fix |-> "prefix", tag |-> tag, level |-> level, side |-> "none", of |-> p]
Postfix(tag, level, p)        == [fix |-> "postfix", tag |-> tag, level |-> level, side |-> "none", of |-> p]
Infix(tag, side, level, p)    == [fix |-> "infix", tag |-> tag, level |-> level, side |-> side, of |-> p]

LeftPower(o)  == IF o.side = "right" THEN 2 * o.level + 1 ELSE 2 * o.level
RightPower(o) == IF o.side \in {"left", "non"} THEN 2 * o.level + 1 ELSE 2 * o.level

Fail == [ok |-> FALSE, at |-> 0, out |-> << >>]
Done(at, out) == [ok |-> TRUE, at |-> at, out |-> out]

RECURSIVE Run(_, _, _), RunAll(_, _, _, _), RunFirst(_, _, _), RunMany(_, _, _, _, _),
          Climb(_, _, _, _), Extend(_, _, _, _, _), PrefixAt(_, _, _, _), AfterAt(_, _, _, _, _, _, _)

(* Parts one after another from the k-th on. *)
RunAll(ps, k, toks, i) ==
  IF k > Len(ps) THEN Done(i, << >>)
  ELSE LET r == Run(ps[k], toks, i) IN
       IF ~r.ok THEN Fail
       ELSE LET rest == RunAll(ps, k + 1, toks, r.at) IN
            IF rest.ok THEN Done(rest.at, r.out \o rest.out) ELSE Fail

RunFirst(ps, toks, i) ==
  IF ps = << >> THEN Fail
  ELSE LET r == Run(Head(ps), toks, i) IN IF r.ok THEN r ELSE RunFirst(Tail(ps), toks, i)

(* An item that fails gives back the separator before it, unless a trailing   *)
(* one is allowed; an item that takes nothing ends the repetition.            *)
RunMany(p, n, toks, i, out) ==
  LET sep  == IF n = 0 THEN Done(i, << >>) ELSE Run(p.separator, toks, i)
      item == IF sep.ok THEN Run(p.of, toks, sep.at) ELSE Fail
  IN  IF item.ok /\ item.at > i THEN RunMany(p, n + 1, toks, item.at, out \o item.out)
      ELSE IF n < p.least THEN Fail
      ELSE Done(IF sep.ok /\ p.trailing THEN sep.at ELSE i, <<<<"*">> \o out>>)

Run(p, toks, i) ==
  CASE p.op = "token" ->
         IF i <= Len(toks) /\ toks[i] \in p.tokens
         THEN Done(i + 1, IF p.yields THEN <<<<toks[i]>>>> ELSE << >>) ELSE Fail
    [] p.op = "ref" -> Run(Rule(p.name), toks, i)
    [] p.op = "then" -> RunAll(p.parts, 1, toks, i)
    [] p.op = "choice" -> RunFirst(p.alternatives, toks, i)
    [] p.op = "or_not" ->
         LET r == Run(p.of, toks, i) IN
         IF r.ok THEN Done(r.at, <<<<"?">> \o r.out>>) ELSE Done(i, <<<<"-">>>>)
    [] p.op = "repeated" -> RunMany(p, 0, toks, i, << >>)
    [] p.op = "node" ->
         LET r == Run(p.of, toks, i) IN IF r.ok THEN Done(r.at, <<<<p.tag>> \o r.out>>) ELSE Fail
    [] p.op = "unwrap" ->
         LET r == Run(p.of, toks, i) IN
         IF ~r.ok THEN Fail
         ELSE IF Len(r.out[1]) = 2 THEN Done(r.at, <<r.out[1][2]>>) ELSE Done(r.at, <<<<p.tag>> \o r.out>>)
    [] p.op = "pratt" -> Climb(p, 0, toks, i)

(* Operator precedence: a prefix operator or an atom, then operators that     *)
(* bind at least as tightly as `power`.                                       *)
PrefixAt(p, k, toks, i) ==
  IF k > Len(p.ops) THEN Run(p.atom, toks, i)
  ELSE LET o  == p.ops[k]
           op == IF o.fix = "prefix" THEN Run(o.of, toks, i) ELSE Fail
           r  == IF op.ok THEN Climb(p, 2 * o.level, toks, op.at) ELSE Fail
       IN  IF r.ok THEN Done(r.at, <<<<o.tag>> \o op.out \o r.out>>) ELSE PrefixAt(p, k + 1, toks, i)

Climb(p, power, toks, i) ==
  LET first == PrefixAt(p, 1, toks, i)
  IN  IF first.ok THEN Extend(p, power, toks, first, -1) ELSE Fail

(* Postfix operators first, then infix ones, each in their order; `closed` is *)
(* the power at which no further operator may follow, after one that does not *)
(* associate.                                                                 *)
AfterAt(p, fix, k, power, toks, lhs, closed) ==
  IF k > Len(p.ops) THEN IF fix = "postfix" THEN AfterAt(p, "infix", 1, power, toks, lhs, closed) ELSE Fail
  ELSE LET o   == p.ops[k]
           op  == IF o.fix = fix /\ LeftPower(o) >= power /\ LeftPower(o) # closed
                  THEN Run(o.of, toks, lhs.at) ELSE Fail
           rhs == IF fix = "infix" /\ op.ok THEN Climb(p, RightPower(o), toks, op.at) ELSE op
       IN  IF ~rhs.ok THEN AfterAt(p, fix, k + 1, power, toks, lhs, closed)
           ELSE [ok |-> TRUE, at |-> rhs.at,
                 out |-> <<IF fix = "infix" THEN <<o.tag>> \o op.out \o lhs.out \o rhs.out
                                            ELSE <<o.tag>> \o lhs.out \o op.out>>,
                 closed |-> IF o.side = "non" THEN LeftPower(o) ELSE closed]

Extend(p, power, toks, lhs, closed) ==
  LET next == AfterAt(p, "postfix", 1, power, toks, lhs, closed)
  IN  IF next.ok THEN Extend(p, power, toks, Done(next.at, next.out), next.closed) ELSE lhs

(* into_result: all of the input, and one tree.                               *)
Parse(name, toks) ==
  LET r == Run(Rule(name), toks, 1)
  IN  IF r.ok /\ r.at = Len(toks) + 1 THEN <<"Ok">> \o r.out ELSE <<"Err">>
=============================================================================
