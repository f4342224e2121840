------------------------------ MODULE CheckOrder ------------------------------
(***************************************************************************)
(* The order in which the type checker checks function bodies, and the     *)
(* strongly connected components it generalises together.                  *)
(*                                                                         *)
(* A body is checked the first time something refers to the function, in   *)
(* the middle of the body that refers to it: check_fn_body recurses.  An   *)
(* online Tarjan search (SCCCollector) runs along with that recursion, and *)
(* RecursionTracker keeps the chain of functions in progress.  A completed *)
(* component is generalised at once, while its callers are half checked.   *)
(*                                                                         *)
(* What a body refers to is chosen step by step, so a behaviour is one     *)
(* program with one source order, and the model covers all of them.  The   *)
(* checker is sequential: one action is one call that returns to or leaves *)
(* the body on top of the Rust call stack (frames).                        *)
(***************************************************************************)
EXTENDS Integers, Sequences

CONSTANTS
  Fn,         \* the function definitions of the program
  NoFn,       \* None, where the code holds an Option<DefId>
  Bodied,     \* those with a body (a trait method may have none)
  Methods,    \* those declared in an impl or a trait
  Enclosing   \* the chain of functions each is nested in, outermost first

Owner(f) ==
  IF Enclosing[f] = << >> THEN NoFn ELSE Enclosing[f][Len(Enclosing[f])]

ASSUME NoFnAssumption == NoFn \notin Fn
ASSUME ProgramAssumption == Bodied \subseteq Fn /\ Methods \subseteq Fn
ASSUME EnclosingAssumption ==
  /\ Enclosing \in [Fn -> Seq(Bodied)]
  /\ \A f \in Fn : Enclosing[f] # << >> =>
       /\ f \notin Methods
       /\ Enclosing[f] = Append(Enclosing[Owner(f)], Owner(f))

VARIABLES
  agenda,     \* items check_items has still to reach
  frames,     \* the Rust call stack: bodies being checked, innermost last
  current,    \* RecursionTracker.current
  ancestors,  \* RecursionTracker.stack
  index,      \* SCCCollector.index, Unvisited where the map has no entry
  lowlink,    \* SCCCollector.lowlink, likewise
  onStack,    \* SCCCollector.on_stack
  stack,      \* SCCCollector.stack
  nextIndex,  \* SCCCollector.next_index
  sccs,       \* SCCCollector.sccs, in the order they are generalised
  links,      \* history: the edges record_edge walked (CallGraph.edges holds
              \* those that are references)
  untracked   \* history: the references check_referenced_fn turned away

vars == <<agenda, frames, current, ancestors, index, lowlink, onStack, stack,
          nextIndex, sccs, links, untracked>>

Unvisited == -1
SetOf(s) == {s[i] : i \in DOMAIN s}
TopLevel == {f \in Fn : Enclosing[f] = << >>}
NestedInDropped(f) == {}
NestedIn(f) == {g \in Fn : Owner(g) = f}

(* collect_fn_mod_items: functions reached through modules and bodies of      *)
(* functions; impl and trait items, and what is nested in them, are not.      *)
ItemsByDef == {f \in Fn : ({f} \cup SetOf(Enclosing[f])) \cap Methods = {}}

(* What a path in f's body can name: paths look up the scope chain and step   *)
(* into modules, enums and impls, never into another function's scope.        *)
VisibleEverywhere(f) == Fn
Visible(f) == {g \in Fn : SetOf(Enclosing[g]) \subseteq SetOf(Enclosing[f]) \cup {f}}

Visited(f) == index[f] # Unvisited
Generalized == UNION SetOf(sccs)
Promise == INSTANCE ComponentOrder WITH generalized <- Generalized
Top == frames[Len(frames)]
Front(s) == SubSeq(s, 1, Len(s) - 1)
-----------------------------------------------------------------------------
Init ==
  /\ agenda = TopLevel
  /\ frames = << >>
  /\ current = NoFn
  /\ ancestors = << >>
  /\ index = [f \in Fn |-> Unvisited]
  /\ lowlink = [f \in Fn |-> Unvisited]
  /\ onStack = {}
  /\ stack = << >>
  /\ nextIndex = 0
  /\ sccs = << >>
  /\ links = {}
  /\ untracked = {}

Lowered(from, bound) == [lowlink EXCEPT ![from] = IF bound < @ THEN bound ELSE @]

(* A back edge counts only while its target is on the stack.                  *)
NoteBackEdgeUnguarded(from, to) == Lowered(from, index[to])
NoteBackEdgeDropped(from, to) == lowlink
NoteBackEdge(from, to) == IF to \in onStack THEN Lowered(from, index[to]) ELSE lowlink

(* The caller of record_edge reaches what its callee reaches.                 *)
PullLowlinkDropped(from, to) == lowlink
PullLowlink(from, to) == IF from = NoFn THEN lowlink ELSE Lowered(from, lowlink[to])

(* Start of RecursionTracker.checking: f's frame goes on top of the frames fs. *)
Frame(f, from) ==
  [fn |-> f, from |-> from, parent |-> current, nested |-> NestedIn(f), inBody |-> TRUE]

Enter(f, from, fs) ==
  /\ frames' = Append(fs, Frame(f, from))
  /\ current' = f
  /\ ancestors' = Append(ancestors, f)
  /\ index' = [index EXCEPT ![f] = nextIndex]
  /\ lowlink' = [lowlink EXCEPT ![f] = nextIndex]
  /\ nextIndex' = nextIndex + 1
  /\ stack' = Append(stack, f)
  /\ onStack' = onStack \cup {f}
  /\ UNCHANGED <<sccs, untracked>>

(* The next item of check_items, or of an impl or a trait in it.              *)
StartItem(f) ==
  /\ frames = << >>
  /\ f \in agenda
  /\ f \in Bodied
  /\ ~Visited(f)
  /\ agenda' = agenda \ {f}
  /\ Enter(f, NoFn, frames)
  /\ UNCHANGED links

(* An item that was checked when something referred to it, or has no body.    *)
SkipItem(f) ==
  /\ frames = << >>
  /\ f \in agenda
  /\ Visited(f) \/ f \notin Bodied
  /\ agenda' = agenda \ {f}
  /\ UNCHANGED <<frames, current, ancestors, index, lowlink, onStack, stack,
                 nextIndex, sccs, links, untracked>>

(* The body on top contains a path to g.                                      *)
Mentions(g) ==
  /\ frames # << >>
  /\ Top.inBody
  /\ g \in Visible(Top.fn) \cap Bodied

(* check_referenced_fn finds no item for g: the reference leaves no trace.    *)
ReferenceUntracked(g) ==
  /\ Mentions(g)
  /\ g \notin ItemsByDef
  /\ untracked' = untracked \cup {<<Top.fn, g>>}
  /\ UNCHANGED <<agenda, frames, current, ancestors, index, lowlink, onStack, stack,
                 nextIndex, sccs, links>>

(* g is new: its body is checked before the rest of the body on top.          *)
ReferenceUnvisited(g) ==
  /\ Mentions(g)
  /\ g \in ItemsByDef
  /\ ~Visited(g)
  /\ links' = links \cup {<<current, g>>}
  /\ Enter(g, current, frames)
  /\ UNCHANGED agenda

ReferenceVisited(g) ==
  /\ Mentions(g)
  /\ g \in ItemsByDef
  /\ Visited(g)
  /\ links' = links \cup {<<current, g>>}
  /\ lowlink' = NoteBackEdge(current, g)
  /\ UNCHANGED <<agenda, frames, current, ancestors, index, onStack, stack,
                 nextIndex, sccs, untracked>>

(* check_nested_functions takes the next function declared in the body.       *)
TakeNested(h) == [frames EXCEPT ![Len(frames)] =
  [fn |-> Top.fn, from |-> Top.from, parent |-> Top.parent,
   nested |-> Top.nested \ {h}, inBody |-> FALSE]]

CheckNested(h) ==
  /\ frames # << >>
  /\ h \in Top.nested \cap Bodied
  /\ ~Visited(h)
  /\ links' = links \cup {<<Top.fn, h>>}
  /\ Enter(h, Top.fn, TakeNested(h))
  /\ UNCHANGED agenda

(* The nested function was checked when the body referred to it.              *)
RevisitNested(h) ==
  /\ frames # << >>
  /\ h \in Top.nested
  /\ Visited(h) \/ h \notin Bodied
  /\ frames' = TakeNested(h)
  /\ links' = IF Visited(h) THEN links \cup {<<Top.fn, h>>} ELSE links
  /\ lowlink' = IF Visited(h) THEN NoteBackEdge(Top.fn, h) ELSE lowlink
  /\ UNCHANGED <<agenda, current, ancestors, index, onStack, stack,
                 nextIndex, sccs, untracked>>

(* SCCCollector.exit: is f the root of a component, and which one.            *)
IsRoot(f) == lowlink[f] = index[f]
DepthOf(f) == CHOOSE i \in 1..Len(stack) : stack[i] = f
ComponentOfOne(f) == {f}
Component(f) == {stack[i] : i \in DepthOf(f)..Len(stack)}

(* The body on top and its nested functions are done: RecursionTracker.exit,  *)
(* then pull_lowlink in the caller's record_edge, then finish_scc.  The       *)
(* expect() in the pop loop panics if f is not on the stack: no step.         *)
Exit ==
  LET f == Top.fn IN
  /\ frames # << >>
  /\ Top.nested = {}
  /\ f \in SetOf(stack)
  /\ frames' = Front(frames)
  /\ ancestors' = Front(ancestors)
  /\ current' = Top.parent
  /\ IF IsRoot(f)
     THEN /\ stack' = SubSeq(stack, 1, DepthOf(f) - 1)
          /\ onStack' = onStack \ Component(f)
          /\ sccs' = Append(sccs, Component(f))
     ELSE UNCHANGED <<stack, onStack, sccs>>
  /\ lowlink' = PullLowlink(Top.from, f)
  /\ UNCHANGED <<agenda, index, nextIndex, links, untracked>>

Finished == agenda = {} /\ frames = << >>

(* The check is over; any other state without a successor is a panic.         *)
Done == Finished /\ UNCHANGED vars

Next ==
  \/ \E f \in Fn : StartItem(f) \/ SkipItem(f)
  \/ \E g \in Fn : ReferenceUntracked(g) \/ ReferenceUnvisited(g) \/ ReferenceVisited(g)
  \/ \E h \in Fn : CheckNested(h) \/ RevisitNested(h)
  \/ Exit
  \/ Done

Spec == Init /\ [][Next]_vars

(* The checker is one thread that runs until check() returns.                 *)
FairSpec == Spec /\ WF_vars(Next)
-----------------------------------------------------------------------------
Link == Fn \X Fn
Index == {Unvisited} \cup Nat
FrameType == [fn : Fn, from : Fn \cup {NoFn}, parent : Fn \cup {NoFn},
              nested : SUBSET Fn, inBody : BOOLEAN]

(* The shape of the checker's state.                                          *)
TypeOK ==
  /\ agenda \subseteq TopLevel
  /\ frames \in Seq(FrameType)
  /\ current \in Fn \cup {NoFn}
  /\ ancestors \in Seq(Fn)
  /\ index \in [Fn -> Index]
  /\ lowlink \in [Fn -> Index]
  /\ onStack \subseteq Fn
  /\ stack \in Seq(Fn)
  /\ nextIndex \in Nat
  /\ sccs \in Seq(SUBSET Fn)
  /\ links \subseteq Link
  /\ untracked \subseteq Link

(* Five records of who is being checked agree: the Rust call stack, the       *)
(* tracker's current and stack, and the collector's stack and on_stack.  Each *)
(* frame's `from' and saved parent are the frame below it, and every function *)
(* in progress is on the collector's stack, so that neither the pop loop's    *)
(* expect() nor an index lookup can panic (recursion.rs, checking).           *)
BookkeepingAgrees ==
  /\ ancestors = [i \in DOMAIN frames |-> frames[i].fn]
  /\ current = IF frames = << >> THEN NoFn ELSE Top.fn
  /\ \A i \in DOMAIN frames :
       /\ frames[i].parent = (IF i = 1 THEN NoFn ELSE frames[i - 1].fn)
       /\ frames[i].from = frames[i].parent
       /\ frames[i].fn \in SetOf(stack)
  /\ onStack = SetOf(stack)
  /\ \A i, j \in DOMAIN frames : i < j => index[frames[i].fn] < index[frames[j].fn]
  /\ \A i, j \in DOMAIN stack : i < j => index[stack[i]] < index[stack[j]]

(* Nothing is generalised before a function it refers to.                     *)
CalleesFirst == Promise!Closed(Generalized, links)

(* generalize_group leaves alone the variables of the functions on            *)
(* recursion.stack().  That protects the enclosing functions only if each is  *)
(* on it at that moment, or generalised in the same group.                    *)
EnclosingInContext ==
  [][\A f \in Generalized' \ Generalized :
       SetOf(Enclosing[f]) \subseteq SetOf(ancestors') \cup (Generalized' \ Generalized)]_vars

(* A function is generalised in one group only: once a caller has             *)
(* instantiated its type, its generics never change.                          *)
GeneralizedOnce == \A i, j \in DOMAIN sccs : i # j => sccs[i] \cap sccs[j] = {}

(* A body is checked inside the bodies of the functions that enclose it, so   *)
(* the locals it captures have been declared in their scopes.                 *)
CheckedInsideOwner ==
  \A i \in DOMAIN frames :
    /\ \A e \in SetOf(Enclosing[frames[i].fn]) : \E j \in 1..(i - 1) : frames[j].fn = e
    /\ frames[i].nested \subseteq NestedIn(frames[i].fn)

(* Why the search is right: what the low-links and the stack say about the    *)
(* links walked so far.  IInv is inductive and implies the invariants above.  *)
VisitedIsStackedOrDone ==
  /\ \A f \in Fn : Visited(f) <=> f \in onStack \cup Generalized
  /\ onStack \cap Generalized = {}
  /\ \A f \in Fn : Visited(f) => index[f] < nextIndex /\ lowlink[f] \in 0..index[f]
  /\ \A e \in links : Visited(e[1]) /\ Visited(e[2])

(* The function at the bottom of the stack is the item being checked, and no  *)
(* low-link is below it: it is always a root.                                 *)
BottomIsRoot ==
  /\ frames = << >> => stack = << >>
  /\ frames # << >> => /\ stack # << >>
                      /\ stack[1] = frames[1].fn
                      /\ \A f \in onStack : lowlink[f] >= index[stack[1]]

(* A link from above a frame to a function on the stack is covered by the     *)
(* low-link of that frame or of one above it.                                 *)
LowlinkCoversLinks ==
  \A i \in DOMAIN frames : \A f, g \in onStack :
    <<f, g>> \in links /\ index[f] >= index[frames[i].fn] =>
      \E j \in i..Len(frames) : lowlink[frames[j].fn] <= index[g]

(* A function on the stack is above the functions that enclose it, and a      *)
(* frame between the two means the encloser is still in progress.             *)
EnclosersBelow ==
  \A f \in onStack : \A e \in SetOf(Enclosing[f]) :
    /\ e \in onStack
    /\ index[e] < index[f]
    /\ \A i \in DOMAIN frames :
         index[e] < index[frames[i].fn] /\ index[frames[i].fn] <= index[f] =>
           \E j \in 1..(i - 1) : frames[j].fn = e

(* What is on the stack above a body in progress is reached from it, and      *)
(* reaches a body in progress below it; low-links are indices of functions    *)
(* that are reached.  So what is popped at a root is strongly connected.      *)
StackConnected ==
  /\ \A i \in DOMAIN frames : \A f \in onStack :
       index[frames[i].fn] <= index[f] => Promise!Reaches(frames[i].fn, f, links)
  /\ \A f \in onStack : \E i \in DOMAIN frames :
       index[frames[i].fn] <= index[f] /\ Promise!Reaches(f, frames[i].fn, links)
  /\ \A f \in onStack : \E g \in onStack :
       index[g] = lowlink[f] /\ Promise!Reaches(f, g, links)

IInv ==
  /\ TypeOK
  /\ BookkeepingAgrees
  /\ VisitedIsStackedOrDone
  /\ BottomIsRoot
  /\ LowlinkCoversLinks
  /\ CalleesFirst
  /\ CheckedInsideOwner
  /\ EnclosersBelow
  /\ StackConnected

(* Mutually recursive functions generalise together (recursion.rs:6-8),       *)
(* counting also the references check_referenced_fn turns away.               *)
MutualRecursionTogether ==
  \A C \in SetOf(sccs) : \A f \in C, g \in Generalized :
    /\ Promise!Reaches(f, g, links \cup untracked)
    /\ Promise!Reaches(g, f, links \cup untracked)
    => g \in C

(* The search implements the promise.                                         *)
KeepsPromise == Promise!Spec

(* check() returns, with every body checked and every group generalised.      *)
AllGeneralized == <>[](Finished /\ Generalized = Bodied /\ stack = << >>)
=============================================================================
