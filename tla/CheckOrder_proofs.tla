-------------------------- MODULE CheckOrder_proofs --------------------------
(***************************************************************************)
(* Proofs about CheckOrder, for every program: any set of functions, any   *)
(* nesting, any references.                                                *)
(***************************************************************************)
EXTENDS CheckOrder, TLAPS

(* Push, pop and cut, the only operations on the checker's vectors.          *)
LEMMA AppendFacts ==
  ASSUME NEW S, NEW s \in Seq(S), NEW e \in S
  PROVE  /\ Append(s, e) \in Seq(S)
         /\ Len(Append(s, e)) = Len(s) + 1
         /\ DOMAIN Append(s, e) = 1..(Len(s) + 1)
         /\ \A i \in DOMAIN s : Append(s, e)[i] = s[i]
         /\ Append(s, e)[Len(s) + 1] = e
         /\ SetOf(Append(s, e)) = SetOf(s) \cup {e}
<1>1. /\ Append(s, e) \in Seq(S)
      /\ Len(Append(s, e)) = Len(s) + 1
      /\ DOMAIN Append(s, e) = 1..(Len(s) + 1)
      /\ \A i \in DOMAIN s : Append(s, e)[i] = s[i]
      /\ Append(s, e)[Len(s) + 1] = e
  OBVIOUS
<1>2. SetOf(Append(s, e)) = SetOf(s) \cup {e}
  BY <1>1 DEF SetOf
<1>3. QED
  BY <1>1, <1>2

LEMMA CutFacts ==
  ASSUME NEW S, NEW s \in Seq(S), NEW n \in 0..Len(s)
  PROVE  /\ SubSeq(s, 1, n) \in Seq(S)
         /\ Len(SubSeq(s, 1, n)) = n
         /\ DOMAIN SubSeq(s, 1, n) = 1..n
         /\ \A i \in 1..n : SubSeq(s, 1, n)[i] = s[i]
         /\ SetOf(SubSeq(s, 1, n)) = {s[i] : i \in 1..n}
<1>1. /\ SubSeq(s, 1, n) \in Seq(S)
      /\ Len(SubSeq(s, 1, n)) = n
      /\ DOMAIN SubSeq(s, 1, n) = 1..n
      /\ \A i \in 1..n : SubSeq(s, 1, n)[i] = s[i]
  OBVIOUS
<1>2. QED
  BY <1>1 DEF SetOf
-----------------------------------------------------------------------------
LEMMA ItemsOfFrames ==
  ASSUME NEW f \in Fn, NEW from \in Fn \cup {NoFn}, current \in Fn \cup {NoFn}
  PROVE  Frame(f, from) \in FrameType
BY DEF Frame, FrameType, NestedIn

LEMMA LoweredType ==
  ASSUME TypeOK, NEW from \in Fn, NEW bound \in Index
  PROVE  /\ Lowered(from, bound) \in [Fn -> Index]
         /\ \A f \in Fn : f # from => Lowered(from, bound)[f] = lowlink[f]
         /\ Lowered(from, bound)[from] = IF bound < lowlink[from] THEN bound ELSE lowlink[from]
BY DEF TypeOK, Lowered, Index

LEMMA EnterType ==
  ASSUME TypeOK, NEW f \in Fn, NEW from \in Fn \cup {NoFn}, NEW fs \in Seq(FrameType),
         Enter(f, from, fs)
  PROVE  /\ frames' \in Seq(FrameType)
         /\ current' \in Fn \cup {NoFn}
         /\ ancestors' \in Seq(Fn)
         /\ index' \in [Fn -> Index]
         /\ lowlink' \in [Fn -> Index]
         /\ onStack' \subseteq Fn
         /\ stack' \in Seq(Fn)
         /\ nextIndex' \in Nat
         /\ sccs' \in Seq(SUBSET Fn)
         /\ untracked' \subseteq Link
<1>1. Frame(f, from) \in FrameType
  BY ItemsOfFrames DEF TypeOK
<1>2. QED
  BY <1>1, AppendFacts DEF TypeOK, Enter, Index, Unvisited

LEMMA TopType ==
  ASSUME TypeOK, frames # << >>
  PROVE  /\ Len(frames) \in Nat \ {0}
         /\ Len(frames) \in DOMAIN frames
         /\ Top \in FrameType
         /\ Top.fn \in Fn
         /\ Top.from \in Fn \cup {NoFn}
         /\ Top.parent \in Fn \cup {NoFn}
         /\ Top.nested \subseteq Fn
<1>1. /\ Len(frames) \in Nat \ {0}
      /\ Len(frames) \in DOMAIN frames
      /\ Top \in FrameType
  BY DEF TypeOK, Top
<1>2. QED
  BY <1>1 DEF FrameType

LEMMA TakeNestedFacts ==
  ASSUME TypeOK, frames # << >>, NEW h \in Fn
  PROVE  /\ TakeNested(h) \in Seq(FrameType)
         /\ Len(TakeNested(h)) = Len(frames)
         /\ DOMAIN TakeNested(h) = DOMAIN frames
         /\ \A i \in DOMAIN frames : /\ TakeNested(h)[i].fn = frames[i].fn
                                     /\ TakeNested(h)[i].from = frames[i].from
                                     /\ TakeNested(h)[i].parent = frames[i].parent
<1> DEFINE fr == [fn |-> Top.fn, from |-> Top.from, parent |-> Top.parent,
                nested |-> Top.nested \ {h}, inBody |-> FALSE]
<1>1. fr \in FrameType /\ fr.fn = Top.fn /\ fr.from = Top.from /\ fr.parent = Top.parent
  BY TopType DEF FrameType
<1>2. TakeNested(h) = [frames EXCEPT ![Len(frames)] = fr]
  BY DEF TakeNested
<1> HIDE DEF fr
<1>3. QED
  BY <1>1, <1>2, TopType DEF TypeOK, Top
-----------------------------------------------------------------------------
(* The checker's state keeps its shape.                                       *)
LEMMA NoteBackEdgeType ==
  ASSUME TypeOK, NEW from \in Fn, NEW to \in Fn
  PROVE  NoteBackEdge(from, to) \in [Fn -> Index]
BY LoweredType DEF TypeOK, NoteBackEdge

LEMMA PullLowlinkType ==
  ASSUME TypeOK, NEW from \in Fn \cup {NoFn}, NEW to \in Fn
  PROVE  PullLowlink(from, to) \in [Fn -> Index]
BY LoweredType DEF TypeOK, PullLowlink

(* The component popped at the end of a body is the top of the stack.         *)
LEMMA AppendComponent ==
  ASSUME TypeOK, NEW C \in SUBSET Fn
  PROVE  /\ Append(sccs, C) \in Seq(SUBSET Fn)
         /\ SetOf(Append(sccs, C)) = SetOf(sccs) \cup {C}
<1> DEFINE Sets == SUBSET Fn
<1>1. sccs \in Seq(Sets) /\ C \in Sets
  BY DEF TypeOK
<1> HIDE DEF Sets
<1>2. Append(sccs, C) \in Seq(Sets) /\ SetOf(Append(sccs, C)) = SetOf(sccs) \cup {C}
  BY <1>1, AppendFacts
<1>3. QED
  BY <1>2 DEF Sets

LEMMA ComponentFacts ==
  ASSUME TypeOK, NEW f \in SetOf(stack)
  PROVE  /\ DepthOf(f) \in 1..Len(stack)
         /\ stack[DepthOf(f)] = f
         /\ Component(f) \subseteq Fn
         /\ SubSeq(stack, 1, DepthOf(f) - 1) \in Seq(Fn)
         /\ Len(SubSeq(stack, 1, DepthOf(f) - 1)) = DepthOf(f) - 1
         /\ \A i \in 1..(DepthOf(f) - 1) : SubSeq(stack, 1, DepthOf(f) - 1)[i] = stack[i]
<1>1. \E i \in 1..Len(stack) : stack[i] = f
  BY DEF SetOf, TypeOK
<1>2. DepthOf(f) \in 1..Len(stack) /\ stack[DepthOf(f)] = f
  BY <1>1 DEF DepthOf
<1>3. Len(stack) \in Nat /\ DepthOf(f) - 1 \in 0..Len(stack)
  BY <1>2 DEF TypeOK
<1>4. Component(f) \subseteq Fn
  BY <1>2 DEF Component, TypeOK
<1>5. QED
  BY <1>2, <1>3, <1>4, CutFacts DEF TypeOK

(* Every step is one of four kinds: it starts a body, notes a back edge, ends *)
(* a body, or leaves the search alone.                                        *)
SameShape(fs) ==
  /\ fs \in Seq(FrameType)
  /\ Len(fs) = Len(frames)
  /\ \A i \in DOMAIN frames : /\ fs[i].fn = frames[i].fn
                             /\ fs[i].from = frames[i].from
                             /\ fs[i].parent = frames[i].parent
                             /\ fs[i].nested \subseteq NestedIn(frames[i].fn)

EnterKind(f, fs) ==
  /\ SameShape(fs)
  /\ ~Visited(f)
  /\ \A e \in SetOf(Enclosing[f]) : \E i \in DOMAIN frames : frames[i].fn = e
  /\ Enter(f, current, fs)
  /\ links' = IF frames = << >> THEN links ELSE links \cup {<<current, f>>}
  /\ agenda' \subseteq TopLevel

BackEdgeKind(g) ==
  /\ frames # << >>
  /\ Visited(g)
  /\ SameShape(frames')
  /\ lowlink' = NoteBackEdge(current, g)
  /\ links' = links \cup {<<current, g>>}
  /\ UNCHANGED <<agenda, current, ancestors, index, onStack, stack, nextIndex,
                 sccs, untracked>>

QuietKind ==
  /\ SameShape(frames')
  /\ agenda' \subseteq TopLevel
  /\ untracked' \subseteq Link
  /\ UNCHANGED <<current, ancestors, index, lowlink, onStack, stack, nextIndex,
                 sccs, links>>

LEMMA CurrentIsTop ==
  ASSUME TypeOK, BookkeepingAgrees, frames # << >>
  PROVE  current = Top.fn /\ current \in Fn
BY TopType DEF BookkeepingAgrees

LEMMA FramesHaveShape ==
  ASSUME TypeOK, CheckedInsideOwner
  PROVE  SameShape(frames)
BY DEF TypeOK, CheckedInsideOwner, SameShape

LEMMA TakeNestedShape ==
  ASSUME TypeOK, CheckedInsideOwner, frames # << >>, NEW h \in Fn
  PROVE  SameShape(TakeNested(h))
<1>1. \A i \in DOMAIN frames : TakeNested(h)[i].nested \subseteq frames[i].nested
  <2>1. DOMAIN TakeNested(h) = DOMAIN frames
    BY DEF TakeNested
  <2>2. TakeNested(h)[Len(frames)].nested = Top.nested \ {h}
    BY TopType DEF TakeNested, TypeOK
  <2>3. \A i \in DOMAIN frames \ {Len(frames)} : TakeNested(h)[i] = frames[i]
    BY DEF TakeNested
  <2>4. QED
    BY <2>2, <2>3 DEF Top
<1>2. QED
  BY <1>1, TakeNestedFacts DEF CheckedInsideOwner, SameShape

LEMMA VisibleEnclosers ==
  ASSUME TypeOK, CheckedInsideOwner, frames # << >>, NEW g \in Visible(Top.fn)
  PROVE  \A e \in SetOf(Enclosing[g]) : \E i \in DOMAIN frames : frames[i].fn = e
<1>1. Top = frames[Len(frames)] /\ Len(frames) \in DOMAIN frames
  BY TopType DEF Top
<1>2. \A j \in 1..(Len(frames) - 1) : j \in DOMAIN frames
  BY TopType DEF TypeOK
<1>3. \A e \in SetOf(Enclosing[Top.fn]) : \E i \in DOMAIN frames : frames[i].fn = e
  BY <1>1, <1>2 DEF CheckedInsideOwner
<1>4. QED
  BY <1>1, <1>3 DEF Visible

LEMMA NestedIsVisible ==
  ASSUME TypeOK, CheckedInsideOwner, frames # << >>, NEW h \in Top.nested
  PROVE  h \in Visible(Top.fn)
<1>1. h \in Fn /\ Owner(h) = Top.fn /\ Top.fn \in Fn
  BY TopType DEF CheckedInsideOwner, NestedIn, Top
<1>2. Enclosing[h] = Append(Enclosing[Top.fn], Top.fn)
  BY <1>1, EnclosingAssumption, NoFnAssumption DEF Owner
<1>3. Top.fn \in Bodied /\ Enclosing[Top.fn] \in Seq(Bodied)
  <2>1. Enclosing[h] # << >> /\ Enclosing[h] \in Seq(Bodied)
    BY <1>1, EnclosingAssumption, NoFnAssumption DEF Owner
  <2>2. QED
    BY <1>1, <2>1, EnclosingAssumption DEF Owner
<1>4. SetOf(Enclosing[h]) = SetOf(Enclosing[Top.fn]) \cup {Top.fn}
  BY <1>2, <1>3, AppendFacts
<1>5. QED
  BY <1>1, <1>4 DEF Visible

LEMMA StepKinds ==
  ASSUME TypeOK, BookkeepingAgrees, CheckedInsideOwner, [Next]_vars
  PROVE  \/ \E f \in Fn, fs \in Seq(FrameType) : EnterKind(f, fs)
         \/ \E g \in Fn : BackEdgeKind(g)
         \/ QuietKind
         \/ Exit
<1>1. ASSUME NEW f \in Fn, StartItem(f) PROVE EnterKind(f, frames)
  <2>1. Enclosing[f] = << >> /\ SetOf(Enclosing[f]) = {}
    BY <1>1 DEF StartItem, TypeOK, TopLevel, SetOf
  <2>2. current = NoFn
    BY <1>1 DEF StartItem, BookkeepingAgrees
  <2>3. QED
    BY <1>1, <2>1, <2>2, FramesHaveShape DEF StartItem, EnterKind, TypeOK
<1>2. ASSUME NEW f \in Fn, SkipItem(f) PROVE QuietKind
  BY <1>2, FramesHaveShape DEF SkipItem, QuietKind, TypeOK
<1>3. ASSUME NEW g \in Fn, ReferenceUntracked(g) PROVE QuietKind
  BY <1>3, FramesHaveShape, TopType DEF ReferenceUntracked, Mentions, QuietKind, TypeOK, Link
<1>4. ASSUME NEW g \in Fn, ReferenceUnvisited(g) PROVE EnterKind(g, frames)
  BY <1>4, FramesHaveShape, VisibleEnclosers
     DEF ReferenceUnvisited, Mentions, EnterKind, TypeOK
<1>5. ASSUME NEW g \in Fn, ReferenceVisited(g) PROVE BackEdgeKind(g)
  BY <1>5, FramesHaveShape DEF ReferenceVisited, Mentions, BackEdgeKind
<1>6. ASSUME NEW h \in Fn, CheckNested(h) PROVE EnterKind(h, TakeNested(h))
  BY <1>6, CurrentIsTop, TakeNestedShape, NestedIsVisible, VisibleEnclosers
     DEF CheckNested, EnterKind, TypeOK
<1>7. ASSUME NEW h \in Fn, RevisitNested(h) PROVE BackEdgeKind(h) \/ QuietKind
  BY <1>7, CurrentIsTop, TakeNestedShape DEF RevisitNested, BackEdgeKind, QuietKind, TypeOK
<1>8. ASSUME UNCHANGED vars PROVE QuietKind
  BY <1>8, FramesHaveShape DEF vars, QuietKind, TypeOK
<1>9. QED
  BY <1>1, <1>2, <1>3, <1>4, <1>5, <1>6, <1>7, <1>8 DEF Next, Done, EnterKind, SameShape
-----------------------------------------------------------------------------
(* What starting a body does to the vectors.                                  *)
LEMMA EnterFacts ==
  ASSUME TypeOK, NEW f \in Fn, NEW fs \in Seq(FrameType), EnterKind(f, fs)
  PROVE  /\ Len(frames') = Len(frames) + 1
         /\ DOMAIN frames = 1..Len(frames) /\ Len(frames) \in Nat
         /\ DOMAIN frames' = 1..(Len(frames) + 1)
         /\ \A i \in DOMAIN frames : /\ frames'[i].fn = frames[i].fn
                                    /\ frames'[i].from = frames[i].from
                                    /\ frames'[i].parent = frames[i].parent
                                    /\ frames'[i].nested \subseteq NestedIn(frames[i].fn)
         /\ frames'[Len(frames) + 1].fn = f
         /\ frames'[Len(frames) + 1].from = current
         /\ frames'[Len(frames) + 1].parent = current
         /\ frames'[Len(frames) + 1].nested = NestedIn(f)
         /\ DOMAIN stack = 1..Len(stack) /\ Len(stack) \in Nat
         /\ DOMAIN stack' = 1..(Len(stack) + 1)
         /\ \A i \in DOMAIN stack : stack'[i] = stack[i]
         /\ stack'[Len(stack) + 1] = f
         /\ SetOf(stack') = SetOf(stack) \cup {f}
         /\ frames' # << >> /\ stack' # << >>
<1>1. Frame(f, current) \in FrameType
  BY ItemsOfFrames DEF TypeOK
<1>2. frames' = Append(fs, Frame(f, current)) /\ stack' = Append(stack, f)
  BY DEF EnterKind, Enter
<1>3. /\ fs \in Seq(FrameType) /\ Len(fs) = Len(frames) /\ DOMAIN fs = DOMAIN frames
      /\ DOMAIN frames = 1..Len(frames) /\ Len(frames) \in Nat
  BY DEF EnterKind, SameShape, TypeOK
<1>4. /\ DOMAIN frames' = 1..(Len(frames) + 1)
      /\ Len(frames') = Len(frames) + 1
      /\ \A i \in DOMAIN frames : frames'[i] = fs[i]
      /\ frames'[Len(frames) + 1] = Frame(f, current)
  BY <1>1, <1>2, <1>3, AppendFacts
<1>5. /\ DOMAIN stack = 1..Len(stack) /\ Len(stack) \in Nat
      /\ DOMAIN stack' = 1..(Len(stack) + 1)
      /\ \A i \in DOMAIN stack : stack'[i] = stack[i]
      /\ stack'[Len(stack) + 1] = f
      /\ SetOf(stack') = SetOf(stack) \cup {f}
  BY <1>2, AppendFacts DEF TypeOK
<1>6. /\ frames'[Len(frames) + 1].fn = f
      /\ frames'[Len(frames) + 1].from = current
      /\ frames'[Len(frames) + 1].parent = current
      /\ frames'[Len(frames) + 1].nested = NestedIn(f)
  BY <1>4 DEF Frame
<1>7. frames' # << >> /\ stack' # << >>
  BY <1>3, <1>4, <1>5
<1>8. \A i \in DOMAIN frames : /\ frames'[i].fn = frames[i].fn
                              /\ frames'[i].from = frames[i].from
                              /\ frames'[i].parent = frames[i].parent
                              /\ frames'[i].nested \subseteq NestedIn(frames[i].fn)
  BY <1>4 DEF EnterKind, SameShape
<1>9. QED
  BY <1>3, <1>4, <1>5, <1>6, <1>7, <1>8

(* What ending a body does to them: the last frame goes, and if the body was  *)
(* a root, the stack is cut at it.                                            *)
LEMMA ExitFacts ==
  ASSUME TypeOK, BookkeepingAgrees, Exit
  PROVE  /\ frames # << >> /\ Len(frames) \in Nat \ {0} /\ DOMAIN frames = 1..Len(frames)
         /\ Len(frames') = Len(frames) - 1
         /\ DOMAIN frames' = 1..(Len(frames) - 1)
         /\ frames' \in Seq(FrameType)
         /\ \A i \in DOMAIN frames' : frames'[i] = frames[i]
         /\ ancestors' \in Seq(Fn)
         /\ DOMAIN ancestors' = DOMAIN frames'
         /\ \A i \in DOMAIN frames' : ancestors'[i] = frames[i].fn
         /\ Top.fn \in Fn
         /\ Top.fn \in SetOf(stack)
         /\ Top = frames[Len(frames)]
<1>1. frames # << >> /\ Top.fn \in SetOf(stack)
  BY DEF Exit
<1>2. Len(frames) \in Nat \ {0} /\ DOMAIN frames = 1..Len(frames) /\ Len(frames) - 1 \in 0..Len(frames)
  BY <1>1, TopType DEF TypeOK
<1>3. frames' = SubSeq(frames, 1, Len(frames) - 1)
  BY DEF Exit, Front
<1>4. Len(ancestors) = Len(frames) /\ \A i \in DOMAIN frames : ancestors[i] = frames[i].fn
  BY <1>2 DEF BookkeepingAgrees, TypeOK
<1>5. ancestors' = SubSeq(ancestors, 1, Len(frames) - 1)
  BY <1>4 DEF Exit, Front
<1>6. /\ frames' \in Seq(FrameType)
      /\ Len(frames') = Len(frames) - 1
      /\ DOMAIN frames' = 1..(Len(frames) - 1)
      /\ \A i \in 1..(Len(frames) - 1) : frames'[i] = frames[i]
  BY <1>2, <1>3, CutFacts DEF TypeOK
<1>7. /\ ancestors' \in Seq(Fn)
      /\ DOMAIN ancestors' = 1..(Len(frames) - 1)
      /\ \A i \in 1..(Len(frames) - 1) : ancestors'[i] = ancestors[i]
  BY <1>2, <1>4, <1>5, CutFacts DEF TypeOK
<1>8. QED
  BY <1>1, <1>2, <1>4, <1>6, <1>7, TopType DEF Top
-----------------------------------------------------------------------------
(* The shape of the state.                                                    *)
LEMMA TypeStep ==
  ASSUME TypeOK, BookkeepingAgrees, CheckedInsideOwner, [Next]_vars
  PROVE  TypeOK'
<1>1. ASSUME NEW f \in Fn, NEW fs \in Seq(FrameType), EnterKind(f, fs) PROVE TypeOK'
  <2>1. Enter(f, current, fs) /\ current \in Fn \cup {NoFn} /\ agenda' \subseteq TopLevel
    BY <1>1 DEF EnterKind, TypeOK
  <2>2. links' \subseteq Link
    BY <1>1, CurrentIsTop DEF EnterKind, TypeOK, Link
  <2>3. QED
    BY <2>1, <2>2, EnterType DEF TypeOK
<1>2. ASSUME NEW g \in Fn, BackEdgeKind(g) PROVE TypeOK'
  <2>1. current \in Fn /\ links' \subseteq Link
    BY <1>2, CurrentIsTop DEF BackEdgeKind, TypeOK, Link
  <2>2. QED
    BY <1>2, <2>1, NoteBackEdgeType DEF BackEdgeKind, SameShape, TypeOK
<1>3. ASSUME QuietKind PROVE TypeOK'
  BY <1>3 DEF QuietKind, SameShape, TypeOK
<1>4. ASSUME Exit PROVE TypeOK'
  <2>1. frames' \in Seq(FrameType) /\ ancestors' \in Seq(Fn)
    BY <1>4, ExitFacts
  <2>2. current' \in Fn \cup {NoFn} /\ Top.from \in Fn \cup {NoFn} /\ Top.fn \in Fn
    BY <1>4, TopType DEF Exit
  <2>3. stack' \in Seq(Fn) /\ onStack' \subseteq Fn /\ sccs' \in Seq(SUBSET Fn)
    <3>1. Top.fn \in SetOf(stack)
      BY <1>4 DEF Exit
    <3>2. CASE IsRoot(Top.fn)
      BY <1>4, <3>1, <3>2, ComponentFacts, AppendComponent DEF Exit, TypeOK
    <3>3. CASE ~IsRoot(Top.fn)
      BY <1>4, <3>3 DEF Exit, TypeOK
    <3>4. QED
      BY <3>2, <3>3
  <2>4. lowlink' \in [Fn -> Index]
    BY <1>4, <2>2, PullLowlinkType DEF Exit
  <2>5. QED
    BY <1>4, <2>1, <2>2, <2>3, <2>4 DEF Exit, TypeOK
<1>5. QED
  BY <1>1, <1>2, <1>3, <1>4, StepKinds

(* The stack is sorted by index, so the component popped with f is what is    *)
(* above f, and what is left is what is below.                                *)
LEMMA ComponentIsAbove ==
  ASSUME TypeOK, BookkeepingAgrees, VisitedIsStackedOrDone, NEW f \in SetOf(stack)
  PROVE  /\ Component(f) = {g \in onStack : index[g] >= index[f]}
         /\ SetOf(SubSeq(stack, 1, DepthOf(f) - 1)) = onStack \ Component(f)
<1> DEFINE d == DepthOf(f)
<1>1. d \in 1..Len(stack) /\ stack[d] = f /\ DOMAIN stack = 1..Len(stack) /\ Len(stack) \in Nat
  BY ComponentFacts DEF TypeOK
<1>2. \A i \in 1..Len(stack) : stack[i] \in Fn /\ index[stack[i]] \in Nat
  BY DEF TypeOK, BookkeepingAgrees, VisitedIsStackedOrDone, Visited, SetOf, Index
<1>3. \A i, j \in 1..Len(stack) : i < j => index[stack[i]] < index[stack[j]]
  BY <1>1 DEF BookkeepingAgrees
<1>4. onStack = {stack[i] : i \in 1..Len(stack)}
  BY <1>1 DEF BookkeepingAgrees, SetOf
<1>5. Component(f) = {stack[i] : i \in d..Len(stack)}
  BY DEF Component
<1>6. SetOf(SubSeq(stack, 1, d - 1)) = {stack[i] : i \in 1..(d - 1)}
  <2>1. d - 1 \in 0..Len(stack)
    BY <1>1
  <2>2. QED
    BY <2>1, CutFacts DEF TypeOK
<1> HIDE DEF d
<1>7. \A i \in 1..Len(stack) : i >= d <=> index[stack[i]] >= index[f]
  BY <1>1, <1>2, <1>3
<1>8. Component(f) = {g \in onStack : index[g] >= index[f]}
  BY <1>1, <1>4, <1>5, <1>7
<1>9. {stack[i] : i \in 1..(d - 1)} = onStack \ Component(f)
  BY <1>1, <1>4, <1>7, <1>8
<1>10. QED
  BY <1>6, <1>8, <1>9 DEF d

LEMMA GeneralizedGrows ==
  ASSUME TypeOK, BookkeepingAgrees, Exit
  PROVE  Generalized' = IF IsRoot(Top.fn) THEN Generalized \cup Component(Top.fn)
                                           ELSE Generalized
<1>1. CASE IsRoot(Top.fn)
  <2>1. sccs' = Append(sccs, Component(Top.fn)) /\ Component(Top.fn) \in SUBSET Fn
    BY <1>1, ComponentFacts DEF Exit
  <2>2. SetOf(sccs') = SetOf(sccs) \cup {Component(Top.fn)}
    BY <2>1, AppendComponent
  <2>3. QED
    BY <1>1, <2>2 DEF Generalized
<1>2. CASE ~IsRoot(Top.fn)
  BY <1>2 DEF Exit, Generalized, SetOf
<1>3. QED
  BY <1>1, <1>2
-----------------------------------------------------------------------------
(* The records of who is being checked keep agreeing.                         *)
LEMMA IndexOfEntered ==
  ASSUME TypeOK, VisitedIsStackedOrDone, NEW f \in Fn, NEW fs \in Seq(FrameType),
         EnterKind(f, fs)
  PROVE  /\ index'[f] = nextIndex /\ lowlink'[f] = nextIndex /\ nextIndex \in Nat
         /\ \A g \in Fn : g # f => index'[g] = index[g] /\ lowlink'[g] = lowlink[g]
         /\ f \notin onStack /\ f \notin Generalized
         /\ onStack' = onStack \cup {f} /\ Generalized' = Generalized
         /\ nextIndex' = nextIndex + 1
         /\ \A g \in onStack : /\ g \in Fn /\ g # f
                              /\ index[g] \in Nat /\ index[g] < nextIndex
                              /\ lowlink[g] \in Nat /\ lowlink[g] <= index[g]
<1>1. Enter(f, current, fs) /\ ~Visited(f)
  BY DEF EnterKind
<1>2. sccs' = sccs
  BY <1>1 DEF Enter
<1>3. Generalized' = Generalized
  BY <1>2 DEF Generalized, SetOf
<1>4. f \notin onStack /\ f \notin Generalized
  BY <1>1 DEF VisitedIsStackedOrDone
<1>5. \A g \in onStack : g \in Fn /\ Visited(g)
  BY DEF VisitedIsStackedOrDone, TypeOK
<1>6. \A g \in onStack : index[g] \in Nat /\ index[g] < nextIndex /\ lowlink[g] \in Nat /\ lowlink[g] <= index[g]
  BY <1>5 DEF VisitedIsStackedOrDone, Visited, TypeOK, Index
<1>7. QED
  BY <1>1, <1>3, <1>4, <1>5, <1>6 DEF Enter, TypeOK

LEMMA BookkeepingEnter ==
  ASSUME TypeOK, BookkeepingAgrees, VisitedIsStackedOrDone,
         NEW f \in Fn, NEW fs \in Seq(FrameType), EnterKind(f, fs)
  PROVE  BookkeepingAgrees'
<1> DEFINE n == Len(frames)
<1>0. Enter(f, current, fs)
  BY DEF EnterKind
<1>1. n \in Nat /\ DOMAIN frames = 1..n /\ DOMAIN frames' = 1..(n + 1) /\ Len(frames') = n + 1
  BY EnterFacts
<1>2. \A i \in 1..n : frames'[i].fn = frames[i].fn
  BY <1>1, EnterFacts
<1>3. frames'[n + 1].fn = f
  BY EnterFacts
<1>4. ancestors' = [i \in DOMAIN frames' |-> frames'[i].fn]
  <2>1. ancestors \in Seq(Fn) /\ DOMAIN ancestors = 1..n /\ Len(ancestors) = n
    BY <1>1 DEF TypeOK, BookkeepingAgrees
  <2>2. \A i \in 1..n : ancestors[i] = frames[i].fn
    BY <1>1 DEF BookkeepingAgrees
  <2>3. ancestors' = Append(ancestors, f)
    BY <1>0 DEF Enter
  <2>4. /\ ancestors' \in Seq(Fn)
        /\ DOMAIN ancestors' = 1..(n + 1)
        /\ \A i \in 1..n : ancestors'[i] = ancestors[i]
        /\ ancestors'[n + 1] = f
    BY <2>1, <2>3, AppendFacts
  <2>5. \A i \in 1..(n + 1) : ancestors'[i] = frames'[i].fn
    BY <1>1, <1>2, <1>3, <2>2, <2>4
  <2>6. ancestors' = [i \in DOMAIN ancestors' |-> ancestors'[i]]
    BY <2>4
  <2>7. QED
    BY <1>1, <2>4, <2>5, <2>6
<1>5. current' = IF frames' = << >> THEN NoFn ELSE Top'.fn
  BY <1>0, <1>1, <1>3, EnterFacts DEF Enter, Top
<1>6. \A i \in DOMAIN frames' :
        /\ frames'[i].parent = (IF i = 1 THEN NoFn ELSE frames'[i - 1].fn)
        /\ frames'[i].from = frames'[i].parent
        /\ frames'[i].fn \in SetOf(stack')
  <2>1. CASE n = 0
    <3>1. current = NoFn
      BY <1>1, <2>1 DEF BookkeepingAgrees, TypeOK
    <3>2. QED
      BY <1>1, <2>1, <3>1, EnterFacts
  <2>2. CASE n > 0
    <3>1. current = frames[n].fn
      BY <1>1, <2>2, CurrentIsTop DEF Top
    <3>2. ASSUME NEW i \in 1..n
          PROVE  /\ frames'[i].parent = (IF i = 1 THEN NoFn ELSE frames'[i - 1].fn)
                 /\ frames'[i].from = frames'[i].parent
                 /\ frames'[i].fn \in SetOf(stack')
      BY <1>1, <1>2, EnterFacts DEF BookkeepingAgrees
    <3>3. frames'[n + 1].parent = frames'[n].fn /\ frames'[n + 1].from = frames'[n + 1].parent
      BY <1>1, <1>2, <2>2, <3>1, EnterFacts
    <3>4. frames'[n + 1].fn \in SetOf(stack')
      BY <1>3, EnterFacts
    <3>5. QED
      BY <1>1, <2>2, <3>2, <3>3, <3>4
  <2>3. QED
    BY <1>1, <2>1, <2>2
<1>7. onStack' = SetOf(stack')
  <2>1. onStack' = onStack \cup {f}
    BY <1>0 DEF Enter
  <2>2. SetOf(stack') = SetOf(stack) \cup {f}
    BY EnterFacts
  <2>3. onStack = SetOf(stack)
    BY DEF BookkeepingAgrees
  <2>4. QED
    BY <2>1, <2>2, <2>3
<1>8. \A i, j \in DOMAIN frames' : i < j => index'[frames'[i].fn] < index'[frames'[j].fn]
  <2>1. \A i \in 1..n : frames[i].fn \in onStack
    BY <1>1 DEF BookkeepingAgrees
  <2>2. \A i, j \in 1..n : i < j => index[frames[i].fn] < index[frames[j].fn]
    BY <1>1 DEF BookkeepingAgrees
  <2>3. QED
    BY <1>1, <1>2, <1>3, <2>1, <2>2, IndexOfEntered, SMTT(30)
<1>9. \A i, j \in DOMAIN stack' : i < j => index'[stack'[i]] < index'[stack'[j]]
  <2>1. \A i \in DOMAIN stack : stack[i] \in onStack
    BY DEF BookkeepingAgrees, SetOf
  <2>2. \A i, j \in DOMAIN stack : i < j => index[stack[i]] < index[stack[j]]
    BY DEF BookkeepingAgrees
  <2>3. QED
    BY <2>1, <2>2, IndexOfEntered, EnterFacts
<1>10. QED
  BY <1>4, <1>5, <1>6, <1>7, <1>8, <1>9 DEF BookkeepingAgrees

(* The steps that only touch low-links, links and what is left to do.         *)
LEMMA BookkeepingSameShape ==
  ASSUME TypeOK, BookkeepingAgrees, SameShape(frames'),
         UNCHANGED <<current, ancestors, index, onStack, stack>>
  PROVE  /\ BookkeepingAgrees'
         /\ DOMAIN frames' = DOMAIN frames /\ Len(frames') = Len(frames)
         /\ \A i \in DOMAIN frames : frames'[i].fn = frames[i].fn
         /\ frames' = << >> <=> frames = << >>
<1>1. /\ DOMAIN frames = 1..Len(frames) /\ Len(frames) \in Nat
      /\ DOMAIN frames' = DOMAIN frames /\ Len(frames') = Len(frames)
  BY DEF TypeOK, SameShape
<1>2. \A i \in DOMAIN frames : /\ frames'[i].fn = frames[i].fn
                              /\ frames'[i].from = frames[i].from
                              /\ frames'[i].parent = frames[i].parent
  BY DEF SameShape
<1>3. frames' = << >> <=> frames = << >>
  BY <1>1 DEF TypeOK, SameShape
<1>4. ancestors' = [i \in DOMAIN frames' |-> frames'[i].fn]
  BY <1>1, <1>2 DEF BookkeepingAgrees
<1>5. current' = IF frames' = << >> THEN NoFn ELSE Top'.fn
  BY <1>1, <1>2, <1>3, TopType DEF BookkeepingAgrees, Top
<1>6. \A i \in DOMAIN frames' :
        /\ frames'[i].parent = (IF i = 1 THEN NoFn ELSE frames'[i - 1].fn)
        /\ frames'[i].from = frames'[i].parent
        /\ frames'[i].fn \in SetOf(stack')
  BY <1>1, <1>2 DEF BookkeepingAgrees
<1>7. \A i, j \in DOMAIN frames' : i < j => index'[frames'[i].fn] < index'[frames'[j].fn]
  BY <1>1, <1>2 DEF BookkeepingAgrees
<1>8. /\ onStack' = SetOf(stack')
      /\ \A i, j \in DOMAIN stack' : i < j => index'[stack'[i]] < index'[stack'[j]]
  BY DEF BookkeepingAgrees
<1>9. QED
  BY <1>1, <1>2, <1>3, <1>4, <1>5, <1>6, <1>7, <1>8 DEF BookkeepingAgrees

LEMMA StackedFacts ==
  ASSUME TypeOK, BookkeepingAgrees, VisitedIsStackedOrDone
  PROVE  /\ \A f \in onStack : /\ f \in Fn
                             /\ index[f] \in Nat /\ index[f] < nextIndex
                             /\ lowlink[f] \in Nat /\ lowlink[f] <= index[f]
         /\ \A i \in DOMAIN frames : /\ frames[i].fn \in onStack
                                    /\ index[frames[i].fn] \in Nat
                                    /\ lowlink[frames[i].fn] \in Nat
         /\ \A i \in DOMAIN stack : stack[i] \in onStack /\ index[stack[i]] \in Nat
         /\ DOMAIN frames = 1..Len(frames) /\ Len(frames) \in Nat
         /\ DOMAIN stack = 1..Len(stack) /\ Len(stack) \in Nat
<1>1. \A f \in onStack : f \in Fn /\ Visited(f)
  BY DEF VisitedIsStackedOrDone, TypeOK
<1>2. \A f \in onStack : /\ index[f] \in Nat /\ index[f] < nextIndex
                        /\ lowlink[f] \in Nat /\ lowlink[f] <= index[f]
  <2>1. \A f \in onStack : index[f] \in Nat
    BY <1>1 DEF Visited, TypeOK, Index
  <2>2. \A f \in onStack : index[f] < nextIndex /\ lowlink[f] \in 0..index[f]
    BY <1>1 DEF VisitedIsStackedOrDone
  <2>3. QED
    BY <2>1, <2>2
<1>3. \A i \in DOMAIN frames : frames[i].fn \in onStack
  BY DEF BookkeepingAgrees
<1>4. \A i \in DOMAIN stack : stack[i] \in onStack
  BY DEF BookkeepingAgrees, SetOf
<1>5. QED
  BY <1>1, <1>2, <1>3, <1>4 DEF TypeOK

LEMMA StackShrinks ==
  ASSUME TypeOK, BookkeepingAgrees, VisitedIsStackedOrDone, Exit
  PROVE  /\ stack' \in Seq(Fn)
         /\ DOMAIN stack' = 1..Len(stack') /\ Len(stack') \in 0..Len(stack)
         /\ DOMAIN stack' \subseteq DOMAIN stack
         /\ \A i \in DOMAIN stack' : stack'[i] = stack[i]
         /\ onStack' = SetOf(stack') /\ onStack' \subseteq onStack
         /\ IsRoot(Top.fn) => onStack' = {g \in onStack : index[g] < index[Top.fn]}
         /\ ~IsRoot(Top.fn) => onStack' = onStack
<1> DEFINE f == Top.fn
<1>1. f \in SetOf(stack)
  BY ExitFacts
<1>2. /\ stack' \in Seq(Fn)
      /\ Len(stack') \in 0..Len(stack) /\ DOMAIN stack' = 1..Len(stack') /\ DOMAIN stack = 1..Len(stack)
      /\ \A i \in DOMAIN stack' : stack'[i] = stack[i]
  <2>1. CASE IsRoot(f)
    <3>1. stack' = SubSeq(stack, 1, DepthOf(f) - 1)
      BY <2>1 DEF Exit
    <3>2. QED
      BY <1>1, <3>1, ComponentFacts DEF TypeOK
  <2>2. CASE ~IsRoot(f)
    BY <2>2 DEF Exit, TypeOK
  <2>3. QED
    BY <2>1, <2>2
<1>3. /\ onStack' = SetOf(stack') /\ onStack' \subseteq onStack
      /\ IsRoot(f) => onStack' = onStack \ {g \in onStack : index[g] >= index[f]}
  <2>1. CASE IsRoot(f)
    BY <1>1, <2>1, ComponentIsAbove DEF Exit
  <2>2. CASE ~IsRoot(f)
    BY <2>2 DEF Exit, BookkeepingAgrees
  <2>3. QED
    BY <2>1, <2>2
<1>4. IsRoot(f) => onStack' = {g \in onStack : index[g] < index[f]}
  <2>1. f \in onStack
    BY <1>1 DEF BookkeepingAgrees
  <2>2. QED
    BY <1>3, <2>1, StackedFacts
<1>5. ~IsRoot(f) => onStack' = onStack
  BY DEF Exit
<1>6. QED
  BY <1>2, <1>3, <1>4, <1>5

LEMMA BookkeepingExit ==
  ASSUME TypeOK, BookkeepingAgrees, VisitedIsStackedOrDone, Exit
  PROVE  BookkeepingAgrees'
<1> DEFINE n == Len(frames)
<1> DEFINE f == Top.fn
<1>1. /\ n \in Nat \ {0} /\ DOMAIN frames = 1..n /\ frames # << >>
      /\ Len(frames') = n - 1 /\ DOMAIN frames' = 1..(n - 1)
      /\ \A i \in 1..(n - 1) : frames'[i] = frames[i]
  BY ExitFacts
<1>2. f = frames[n].fn /\ f \in SetOf(stack)
  BY ExitFacts
<1>3. ancestors' = [i \in DOMAIN frames' |-> frames'[i].fn]
  <2>1. ancestors' = [i \in DOMAIN ancestors' |-> ancestors'[i]]
    BY ExitFacts
  <2>2. DOMAIN ancestors' = DOMAIN frames' /\ \A i \in DOMAIN frames' : ancestors'[i] = frames'[i].fn
    BY ExitFacts
  <2>3. QED
    BY <2>1, <2>2
<1>4. current' = IF frames' = << >> THEN NoFn ELSE Top'.fn
  <2>1. current' = (IF n = 1 THEN NoFn ELSE frames[n - 1].fn)
    BY <1>1, ExitFacts DEF Exit, BookkeepingAgrees
  <2>2. frames' = << >> <=> n = 1
    BY <1>1, ExitFacts
  <2>3. n # 1 => Top' = frames[n - 1]
    BY <1>1 DEF Top
  <2>4. QED
    BY <2>1, <2>2, <2>3
<1>5. /\ DOMAIN stack' \subseteq DOMAIN stack
      /\ \A i \in DOMAIN stack' : stack'[i] = stack[i]
  BY StackShrinks
<1>6. onStack' = SetOf(stack') /\ onStack' \subseteq onStack
  BY StackShrinks
<1>7. \A i \in 1..(n - 1) : frames[i].fn \in onStack'
  <2>1. CASE IsRoot(f)
    <3>1. onStack' = onStack \ {g \in onStack : index[g] >= index[f]}
      BY <1>2, <2>1, ComponentIsAbove DEF Exit
    <3>2. \A i \in 1..n : frames[i].fn \in onStack /\ index[frames[i].fn] \in Nat
      BY <1>1, StackedFacts
    <3>3. \A i \in 1..(n - 1) : index[frames[i].fn] < index[f]
      <4>1. \A i, j \in 1..n : i < j => index[frames[i].fn] < index[frames[j].fn]
        BY <1>1 DEF BookkeepingAgrees
      <4>2. QED
        BY <1>1, <1>2, <4>1
    <3>4. QED
      BY <1>1, <1>2, <3>1, <3>2, <3>3
  <2>2. CASE ~IsRoot(f)
    BY <1>1, <2>2 DEF Exit, BookkeepingAgrees
  <2>3. QED
    BY <2>1, <2>2
<1>8. index' = index
  BY DEF Exit
<1>9. \A i \in DOMAIN frames' :
        /\ frames'[i].parent = (IF i = 1 THEN NoFn ELSE frames'[i - 1].fn)
        /\ frames'[i].from = frames'[i].parent
        /\ frames'[i].fn \in SetOf(stack')
  BY <1>1, <1>6, <1>7 DEF BookkeepingAgrees
<1>10. \A i, j \in DOMAIN frames' : i < j => index'[frames'[i].fn] < index'[frames'[j].fn]
  BY <1>1, <1>8 DEF BookkeepingAgrees
<1>11. \A i, j \in DOMAIN stack' : i < j => index'[stack'[i]] < index'[stack'[j]]
  BY <1>5, <1>8 DEF BookkeepingAgrees
<1>12. QED
  BY <1>3, <1>4, <1>6, <1>9, <1>10, <1>11 DEF BookkeepingAgrees
-----------------------------------------------------------------------------
(* How far low-links fall.                                                    *)
LEMMA NoteBackEdgeFacts ==
  ASSUME TypeOK, BookkeepingAgrees, VisitedIsStackedOrDone,
         NEW from \in onStack, NEW to \in Fn
  PROVE  /\ \A f \in Fn \ {from} : NoteBackEdge(from, to)[f] = lowlink[f]
         /\ NoteBackEdge(from, to)[from] \in 0..index[from]
         /\ NoteBackEdge(from, to)[from] <= lowlink[from]
         /\ to \in onStack => NoteBackEdge(from, to)[from] <= index[to]
         /\ \/ NoteBackEdge(from, to)[from] = lowlink[from]
            \/ to \in onStack /\ NoteBackEdge(from, to)[from] = index[to]
<1>1. from \in Fn /\ index[from] \in Nat /\ lowlink[from] \in Nat /\ lowlink[from] <= index[from]
  BY StackedFacts
<1>2. CASE to \in onStack
  <2>1. index[to] \in Nat /\ index[to] \in Index
    BY <1>2, StackedFacts DEF Index
  <2>2. NoteBackEdge(from, to) = Lowered(from, index[to])
    BY <1>2 DEF NoteBackEdge
  <2>3. /\ \A f \in Fn \ {from} : Lowered(from, index[to])[f] = lowlink[f]
        /\ Lowered(from, index[to])[from]
             = (IF index[to] < lowlink[from] THEN index[to] ELSE lowlink[from])
    BY <1>1, <2>1, LoweredType
  <2>4. QED
    BY <1>1, <1>2, <2>1, <2>2, <2>3
<1>3. CASE to \notin onStack
  BY <1>1, <1>3 DEF NoteBackEdge
<1>4. QED
  BY <1>2, <1>3

LEMMA PullLowlinkFacts ==
  ASSUME TypeOK, BookkeepingAgrees, VisitedIsStackedOrDone,
         NEW from \in onStack, NEW to \in onStack
  PROVE  /\ \A f \in Fn \ {from} : PullLowlink(from, to)[f] = lowlink[f]
         /\ PullLowlink(from, to)[from] \in 0..index[from]
         /\ PullLowlink(from, to)[from] <= lowlink[from]
         /\ PullLowlink(from, to)[from] <= lowlink[to]
         /\ PullLowlink(from, to)[from] \in {lowlink[from], lowlink[to]}
<1>1. from \in Fn /\ index[from] \in Nat /\ lowlink[from] \in Nat /\ lowlink[from] <= index[from]
  BY StackedFacts
<1>2. lowlink[to] \in Nat /\ lowlink[to] \in Index
  BY StackedFacts DEF Index
<1>3. PullLowlink(from, to) = Lowered(from, lowlink[to])
  BY <1>1, NoFnAssumption DEF PullLowlink
<1>4. QED
  BY <1>1, <1>2, <1>3, LoweredType

(* The caller that pulls is the frame below.                                  *)
LEMMA ExitLowlink ==
  ASSUME TypeOK, BookkeepingAgrees, VisitedIsStackedOrDone, Exit
  PROVE  /\ Len(frames) = 1 => lowlink' = lowlink
         /\ Len(frames) > 1 => lowlink' = PullLowlink(frames[Len(frames) - 1].fn, Top.fn)
         /\ index' = index /\ links' = links
<1>1. Len(frames) \in Nat \ {0} /\ DOMAIN frames = 1..Len(frames) /\ Top = frames[Len(frames)]
  BY ExitFacts
<1>2. Top.from = (IF Len(frames) = 1 THEN NoFn ELSE frames[Len(frames) - 1].fn)
  BY <1>1 DEF BookkeepingAgrees
<1>3. QED
  BY <1>1, <1>2 DEF Exit, PullLowlink
-----------------------------------------------------------------------------
(* Every visited function is on the stack or generalised.                     *)
LEMMA VisitedStep ==
  ASSUME TypeOK, BookkeepingAgrees, CheckedInsideOwner, VisitedIsStackedOrDone, [Next]_vars
  PROVE  VisitedIsStackedOrDone'
<1>1. ASSUME NEW f \in Fn, NEW fs \in Seq(FrameType), EnterKind(f, fs)
      PROVE  VisitedIsStackedOrDone'
  <2>1. \A g \in Fn : Visited(g)' <=> Visited(g) \/ g = f
    BY <1>1, IndexOfEntered DEF Visited, Unvisited
  <2>2. \A g \in Fn : Visited(g)' <=> g \in onStack' \cup Generalized'
    BY <1>1, <2>1, IndexOfEntered DEF VisitedIsStackedOrDone
  <2>3. onStack' \cap Generalized' = {}
    BY <1>1, IndexOfEntered DEF VisitedIsStackedOrDone
  <2>4. \A g \in Fn : Visited(g)' => index'[g] < nextIndex' /\ lowlink'[g] \in 0..index'[g]
    <3> SUFFICES ASSUME NEW g \in Fn, Visited(g)'
                 PROVE  index'[g] < nextIndex' /\ lowlink'[g] \in 0..index'[g]
      OBVIOUS
    <3>1. CASE g = f
      BY <1>1, <3>1, IndexOfEntered
    <3>2. CASE g # f
      <4>1. Visited(g) /\ index'[g] = index[g] /\ lowlink'[g] = lowlink[g]
        BY <1>1, <2>1, <3>2, IndexOfEntered
      <4>2. index[g] < nextIndex /\ lowlink[g] \in 0..index[g] /\ index[g] \in Nat
        BY <4>1 DEF VisitedIsStackedOrDone, Visited, TypeOK, Index
      <4>3. QED
        BY <1>1, <4>1, <4>2, IndexOfEntered
    <3>3. QED
      BY <3>1, <3>2
  <2>5. \A e \in links' : Visited(e[1])' /\ Visited(e[2])'
    <3>1. \A e \in links : e[1] \in Fn /\ e[2] \in Fn /\ Visited(e[1]) /\ Visited(e[2])
      BY DEF VisitedIsStackedOrDone, TypeOK, Link
    <3>2. frames # << >> => current \in Fn /\ Visited(current)
      BY CurrentIsTop, TopType, StackedFacts DEF VisitedIsStackedOrDone, Top
    <3>3. QED
      BY <1>1, <2>1, <3>1, <3>2 DEF EnterKind
  <2>6. QED
    BY <2>2, <2>3, <2>4, <2>5 DEF VisitedIsStackedOrDone
<1>2. ASSUME NEW g \in Fn, BackEdgeKind(g) PROVE VisitedIsStackedOrDone'
  <2>1. current \in onStack /\ current \in Fn
    BY <1>2, CurrentIsTop, TopType, StackedFacts DEF BackEdgeKind, Top
  <2>2. \A f \in Fn : Visited(f)' <=> Visited(f)
    BY <1>2 DEF BackEdgeKind, Visited
  <2>3. Generalized' = Generalized
    BY <1>2 DEF BackEdgeKind, Generalized, SetOf
  <2>4. lowlink' = NoteBackEdge(current, g) /\ index' = index /\ nextIndex' = nextIndex
        /\ onStack' = onStack /\ links' = links \cup {<<current, g>>} /\ Visited(g)
    BY <1>2 DEF BackEdgeKind
  <2>5. \A f \in Fn : Visited(f) => lowlink'[f] \in 0..index[f]
    BY <2>1, <2>4, NoteBackEdgeFacts DEF VisitedIsStackedOrDone
  <2>6. \A e \in links' : Visited(e[1]) /\ Visited(e[2]) /\ e[1] \in Fn /\ e[2] \in Fn
    BY <2>1, <2>4 DEF VisitedIsStackedOrDone, TypeOK, Link
  <2>7. QED
    BY <2>2, <2>3, <2>4, <2>5, <2>6 DEF VisitedIsStackedOrDone
<1>3. ASSUME QuietKind PROVE VisitedIsStackedOrDone'
  BY <1>3 DEF QuietKind, VisitedIsStackedOrDone, Visited, Generalized, SetOf
<1>4. ASSUME Exit PROVE VisitedIsStackedOrDone'
  <2>1. index' = index /\ links' = links /\ nextIndex' = nextIndex
    BY <1>4 DEF Exit
  <2>2. \A f \in Fn : Visited(f)' <=> Visited(f)
    BY <2>1 DEF Visited
  <2>3. onStack' \cup Generalized' = onStack \cup Generalized /\ onStack' \cap Generalized' = {}
    <3>1. Top.fn \in SetOf(stack)
      BY <1>4 DEF Exit
    <3>2. CASE IsRoot(Top.fn)
      BY <1>4, <3>1, <3>2, ComponentIsAbove, GeneralizedGrows DEF Exit, VisitedIsStackedOrDone
    <3>3. CASE ~IsRoot(Top.fn)
      BY <1>4, <3>3, GeneralizedGrows DEF Exit, VisitedIsStackedOrDone
    <3>4. QED
      BY <3>2, <3>3
  <2>4. \A f \in Fn : Visited(f) => lowlink'[f] \in 0..index[f]
    <3>1. CASE Len(frames) = 1
      BY <1>4, <3>1, ExitLowlink DEF VisitedIsStackedOrDone
    <3>2. CASE Len(frames) > 1
      <4>1. frames[Len(frames) - 1].fn \in onStack /\ Top.fn \in onStack
        BY <1>4, <3>2, ExitFacts, StackedFacts
      <4>2. QED
        BY <1>4, <3>2, <4>1, ExitLowlink, PullLowlinkFacts DEF VisitedIsStackedOrDone
    <3>3. QED
      BY <1>4, <3>1, <3>2, ExitFacts
  <2>5. \A e \in links : e[1] \in Fn /\ e[2] \in Fn
    BY DEF TypeOK, Link
  <2>6. QED
    BY <2>1, <2>2, <2>3, <2>4, <2>5 DEF VisitedIsStackedOrDone
<1>5. QED
  BY <1>1, <1>2, <1>3, <1>4, StepKinds
-----------------------------------------------------------------------------
(* The bottom of the stack is the item being checked, and it is a root.       *)
LEMMA BottomStep ==
  ASSUME TypeOK, BookkeepingAgrees, CheckedInsideOwner, VisitedIsStackedOrDone,
         BottomIsRoot, BookkeepingAgrees', [Next]_vars
  PROVE  BottomIsRoot'
<1> USE StackedFacts
<1>1. ASSUME NEW f \in Fn, NEW fs \in Seq(FrameType), EnterKind(f, fs)
      PROVE  BottomIsRoot'
  <2>1. frames' # << >> /\ stack' # << >>
    BY <1>1, EnterFacts
  <2>2. CASE frames = << >>
    <3>1. stack = << >> /\ onStack = {} /\ Len(stack) = 0 /\ Len(frames) = 0
      BY <2>2 DEF BottomIsRoot, BookkeepingAgrees, SetOf
    <3>2. stack'[1] = f /\ frames'[1].fn = f /\ onStack' = {f}
      BY <1>1, <3>1, EnterFacts, IndexOfEntered
    <3>3. QED
      BY <1>1, <2>1, <3>2, IndexOfEntered DEF BottomIsRoot
  <2>3. CASE frames # << >>
    <3>1. /\ stack # << >> /\ stack[1] = frames[1].fn
          /\ \A g \in onStack : lowlink[g] >= index[stack[1]]
      BY <2>3 DEF BottomIsRoot
    <3>2. 1 \in DOMAIN stack /\ 1 \in DOMAIN frames
      BY <2>3, <3>1 DEF TypeOK
    <3>3. stack'[1] = stack[1] /\ frames'[1].fn = frames[1].fn
      BY <1>1, <3>2, EnterFacts
    <3>4. stack[1] \in onStack /\ index'[stack[1]] = index[stack[1]] /\ index[stack[1]] < nextIndex
      BY <1>1, <3>2, IndexOfEntered
    <3>5. \A g \in onStack' : lowlink'[g] >= index'[stack'[1]]
      BY <1>1, <3>1, <3>3, <3>4, IndexOfEntered
    <3>6. QED
      BY <2>1, <3>1, <3>3, <3>5 DEF BottomIsRoot
  <2>4. QED
    BY <2>2, <2>3
<1>2. ASSUME NEW g \in Fn, BackEdgeKind(g) PROVE BottomIsRoot'
  <2>1. frames # << >> /\ stack # << >> /\ stack[1] = frames[1].fn
    BY <1>2 DEF BackEdgeKind, BottomIsRoot
  <2>2. 1 \in DOMAIN stack /\ 1 \in DOMAIN frames
    BY <2>1 DEF TypeOK
  <2>3. \A f \in onStack : lowlink[f] >= index[stack[1]] /\ index[f] >= index[stack[1]]
    <3>1. \A f \in onStack : lowlink[f] >= index[stack[1]]
      BY <2>1 DEF BottomIsRoot
    <3>2. index[stack[1]] \in Nat
      BY <2>2
    <3>3. QED
      BY <3>1, <3>2
  <2>4. /\ SameShape(frames') /\ stack' = stack /\ index' = index /\ onStack' = onStack
        /\ lowlink' = NoteBackEdge(current, g)
        /\ UNCHANGED <<current, ancestors>>
    BY <1>2 DEF BackEdgeKind
  <2>5. frames' # << >> /\ frames'[1].fn = frames[1].fn
    BY <2>1, <2>2, <2>4, BookkeepingSameShape
  <2>6. current \in onStack
    BY <2>1, CurrentIsTop, TopType DEF Top
  <2>7. \A f \in onStack : lowlink'[f] >= index[stack[1]]
    BY <2>3, <2>4, <2>6, NoteBackEdgeFacts
  <2>8. QED
    BY <2>1, <2>4, <2>5, <2>7 DEF BottomIsRoot
<1>3. ASSUME QuietKind PROVE BottomIsRoot'
  <2>1. /\ SameShape(frames') /\ stack' = stack /\ index' = index /\ onStack' = onStack
        /\ lowlink' = lowlink /\ UNCHANGED <<current, ancestors>>
    BY <1>3 DEF QuietKind
  <2>2. (frames' = << >> <=> frames = << >>) /\ (frames # << >> => frames'[1].fn = frames[1].fn)
    BY <2>1, BookkeepingSameShape DEF TypeOK
  <2>3. QED
    BY <2>1, <2>2 DEF BottomIsRoot
<1>4. ASSUME Exit PROVE BottomIsRoot'
  <2> DEFINE f == Top.fn
  <2> DEFINE n == Len(frames)
  <2>1. /\ frames # << >> /\ n \in Nat \ {0} /\ DOMAIN frames = 1..n /\ f = frames[n].fn
        /\ DOMAIN frames' = 1..(n - 1) /\ \A i \in DOMAIN frames' : frames'[i] = frames[i]
        /\ frames' \in Seq(FrameType) /\ Len(frames') = n - 1
    BY <1>4, ExitFacts
  <2>2. /\ stack # << >> /\ stack[1] = frames[1].fn
        /\ \A g \in onStack : lowlink[g] >= index[stack[1]]
    BY <2>1 DEF BottomIsRoot
  <2>3. 1 \in DOMAIN stack
    BY <2>2 DEF TypeOK
  <2>4. CASE n = 1
    <3>1. f \in onStack /\ f = stack[1] /\ f \in SetOf(stack)
      BY <2>1, <2>2, <2>3, <2>4 DEF SetOf
    <3>2. IsRoot(f)
      BY <2>2, <3>1 DEF IsRoot
    <3>3. DepthOf(f) = 1
      <4>1. DepthOf(f) \in 1..Len(stack) /\ stack[DepthOf(f)] = f
        BY <3>1, ComponentFacts
      <4>2. \A j \in DOMAIN stack : 1 < j => index[stack[1]] < index[stack[j]]
        BY <2>3 DEF BookkeepingAgrees
      <4>3. QED
        BY <3>1, <4>1, <4>2
    <3>4. stack' = << >>
      <4>1. stack' = SubSeq(stack, 1, 0)
        BY <1>4, <3>2, <3>3 DEF Exit
      <4>2. QED
        BY <4>1 DEF TypeOK
    <3>5. frames' = << >>
      BY <2>1, <2>4
    <3>6. QED
      BY <3>4, <3>5 DEF BottomIsRoot
  <2>5. CASE n > 1
    <3>1. frames' # << >> /\ frames'[1].fn = frames[1].fn /\ frames'[1].fn \in SetOf(stack')
      <4>1. 1 \in DOMAIN frames'
        BY <2>1, <2>5
      <4>2. frames' # << >> /\ frames'[1].fn = frames[1].fn
        BY <2>1, <4>1
      <4>3. \A i \in DOMAIN frames' : frames'[i].fn \in SetOf(stack')
        BY DEF BookkeepingAgrees
      <4>4. QED
        BY <4>1, <4>2, <4>3
    <3>2. stack' # << >> /\ stack'[1] = stack[1] /\ onStack' \subseteq onStack
      <4>1. stack' \in Seq(Fn) /\ DOMAIN stack' # {}
        BY <1>4, <3>1, StackShrinks DEF SetOf
      <4>2. 1 \in DOMAIN stack'
        BY <4>1
      <4>3. QED
        BY <1>4, <4>2, StackShrinks
    <3>3. \A g \in onStack : lowlink'[g] >= index[stack[1]]
      <4>1. frames[n - 1].fn \in onStack /\ f \in onStack
        BY <2>1, <2>5
      <4>2. lowlink' = PullLowlink(frames[n - 1].fn, f)
        BY <1>4, <2>5, ExitLowlink
      <4>3. QED
        BY <2>2, <4>1, <4>2, PullLowlinkFacts, SMTT(30)
    <3>4. QED
      BY <1>4, <2>2, <3>1, <3>2, <3>3, ExitLowlink DEF BottomIsRoot
  <2>6. QED
    BY <2>1, <2>4, <2>5
<1>5. QED
  BY <1>1, <1>2, <1>3, <1>4, StepKinds
-----------------------------------------------------------------------------
LEMMA BookkeepingStep ==
  ASSUME TypeOK, BookkeepingAgrees, CheckedInsideOwner, VisitedIsStackedOrDone, [Next]_vars
  PROVE  BookkeepingAgrees'
BY StepKinds, BookkeepingEnter, BookkeepingSameShape, BookkeepingExit
   DEF BackEdgeKind, QuietKind

(* LowlinkCoversLinks after a step that starts no body.                       *)
LEMMA CoversAfter ==
  ASSUME TypeOK, NEW m \in Nat, Len(frames') = m, DOMAIN frames' = 1..m,
         \A i \in 1..m : frames'[i].fn = frames[i].fn,
         index' = index, onStack' \subseteq onStack,
         \A i \in 1..m : \A x, y \in onStack :
           <<x, y>> \in links' /\ index[x] >= index[frames[i].fn] =>
             \E j \in i..m : lowlink'[frames[j].fn] <= index[y]
  PROVE  LowlinkCoversLinks'
<1> SUFFICES ASSUME NEW i \in 1..m, NEW x \in onStack, NEW y \in onStack,
                    <<x, y>> \in links', index[x] >= index[frames[i].fn]
             PROVE  \E j \in i..m : lowlink'[frames'[j].fn] <= index[y]
  BY DEF LowlinkCoversLinks
<1>1. PICK j \in i..m : lowlink'[frames[j].fn] <= index[y]
  OBVIOUS
<1>2. j \in 1..m
  OBVIOUS
<1>3. QED
  BY <1>1, <1>2

(* The caller takes over what its callee's low-link covers.                   *)
LEMMA CoversStep ==
  ASSUME TypeOK, BookkeepingAgrees, CheckedInsideOwner, VisitedIsStackedOrDone,
         LowlinkCoversLinks, [Next]_vars
  PROVE  LowlinkCoversLinks'
<1> DEFINE n == Len(frames)
<1> DEFINE Covered(i, y) == \E j \in i..n : lowlink[frames[j].fn] <= index[y]
<1>1. /\ n \in Nat /\ DOMAIN frames = 1..n
      /\ \A i \in 1..n : frames[i].fn \in onStack
      /\ \A x \in onStack : x \in Fn /\ index[x] \in Nat /\ lowlink[x] \in Nat
  BY StackedFacts
<1>2. \A i \in 1..n : \A x, y \in onStack :
        <<x, y>> \in links /\ index[x] >= index[frames[i].fn] => Covered(i, y)
  BY <1>1 DEF LowlinkCoversLinks
<1>3. n > 0 => current = frames[n].fn
  BY <1>1, CurrentIsTop DEF Top
<1>4. ASSUME NEW f \in Fn, NEW fs \in Seq(FrameType), EnterKind(f, fs)
      PROVE  LowlinkCoversLinks'
  <2>1. /\ Len(frames') = n + 1 /\ DOMAIN frames' = 1..(n + 1)
        /\ \A i \in 1..n : frames'[i].fn = frames[i].fn
        /\ frames'[n + 1].fn = f
    BY <1>1, <1>4, EnterFacts
  <2>2. /\ onStack' = onStack \cup {f} /\ f \notin onStack
        /\ index'[f] = nextIndex /\ lowlink'[f] = nextIndex /\ nextIndex \in Nat
        /\ \A x \in onStack : /\ x # f /\ index[x] < nextIndex
                             /\ index'[x] = index[x] /\ lowlink'[x] = lowlink[x]
    BY <1>4, IndexOfEntered
  <2>3. \A e \in links' : e \in links \/ e[2] = f
    BY <1>4 DEF EnterKind
  <2>4. \A e \in links : e[1] # f
    BY <1>4 DEF EnterKind, VisitedIsStackedOrDone
  <2> SUFFICES ASSUME NEW i \in 1..(n + 1), NEW x \in onStack', NEW y \in onStack',
                      <<x, y>> \in links', index'[x] >= index'[frames'[i].fn]
               PROVE  \E j \in i..(n + 1) : lowlink'[frames'[j].fn] <= index'[y]
    BY <2>1 DEF LowlinkCoversLinks
  <2>5. CASE y = f
    <3>1. lowlink'[frames'[n + 1].fn] <= index'[y] /\ n + 1 \in i..(n + 1)
      BY <1>1, <2>1, <2>2, <2>5
    <3>2. QED
      BY <3>1
  <2>6. CASE y # f
    <3>1. <<x, y>> \in links /\ x \in onStack /\ y \in onStack
      BY <2>2, <2>3, <2>4, <2>6
    <3>2. i \in 1..n
      BY <1>1, <2>1, <2>2, <3>1
    <3>3. index[x] >= index[frames[i].fn]
      BY <1>1, <2>1, <2>2, <3>1, <3>2
    <3>4. PICK j \in i..n : lowlink[frames[j].fn] <= index[y]
      BY <1>2, <3>1, <3>2, <3>3
    <3>5. j \in 1..n /\ j \in i..(n + 1)
      BY <1>1, <3>2, <3>4
    <3>6. lowlink'[frames'[j].fn] <= index'[y]
      BY <1>1, <2>1, <2>2, <3>1, <3>4, <3>5
    <3>7. QED
      BY <3>5, <3>6
  <2>7. QED
    BY <2>5, <2>6
<1>5. ASSUME NEW g \in Fn, BackEdgeKind(g) PROVE LowlinkCoversLinks'
  <2>1. /\ SameShape(frames') /\ index' = index /\ onStack' = onStack
        /\ lowlink' = NoteBackEdge(current, g) /\ links' = links \cup {<<current, g>>}
        /\ UNCHANGED <<current, ancestors, index, onStack, stack>> /\ frames # << >>
    BY <1>5 DEF BackEdgeKind
  <2>2. n > 0 /\ current \in onStack
    BY <1>1, <1>3, <2>1, TopType
  <2>3. /\ Len(frames') = n /\ DOMAIN frames' = 1..n
        /\ \A i \in 1..n : frames'[i].fn = frames[i].fn
    BY <1>1, <2>1, BookkeepingSameShape
  <2>4. /\ \A x \in onStack : lowlink'[x] <= lowlink[x] /\ lowlink'[x] \in Nat
        /\ g \in onStack => lowlink'[current] <= index[g]
    BY <1>1, <2>1, <2>2, NoteBackEdgeFacts
  <2> SUFFICES ASSUME NEW i \in 1..n, NEW x \in onStack, NEW y \in onStack,
                      <<x, y>> \in links', index[x] >= index[frames[i].fn]
               PROVE  \E j \in i..n : lowlink'[frames[j].fn] <= index[y]
    BY <1>1, <2>1, <2>3, CoversAfter
  <2>5. CASE <<x, y>> \in links
    <3>1. PICK j \in i..n : lowlink[frames[j].fn] <= index[y]
      BY <1>2, <2>5
    <3>2. frames[j].fn \in onStack
      BY <1>1
    <3>3. lowlink'[frames[j].fn] <= index[y]
      BY <1>1, <2>4, <3>1, <3>2
    <3>4. QED
      BY <3>3
  <2>6. CASE <<x, y>> = <<current, g>>
    <3>1. lowlink'[frames[n].fn] <= index[y] /\ n \in i..n
      BY <1>1, <1>3, <2>2, <2>4, <2>6
    <3>2. QED
      BY <3>1
  <2>7. QED
    BY <2>1, <2>5, <2>6
<1>6. ASSUME QuietKind PROVE LowlinkCoversLinks'
  <2>1. /\ SameShape(frames') /\ index' = index /\ onStack' = onStack
        /\ lowlink' = lowlink /\ links' = links
        /\ UNCHANGED <<current, ancestors, index, onStack, stack>>
    BY <1>6 DEF QuietKind
  <2>2. /\ Len(frames') = n /\ DOMAIN frames' = 1..n
        /\ \A i \in 1..n : frames'[i].fn = frames[i].fn
    BY <1>1, <2>1, BookkeepingSameShape
  <2>3. \A i \in 1..n : \A x, y \in onStack :
          <<x, y>> \in links' /\ index[x] >= index[frames[i].fn] =>
            \E j \in i..n : lowlink'[frames[j].fn] <= index[y]
    BY <1>2, <2>1
  <2>4. QED
    BY <1>1, <2>1, <2>2, <2>3, CoversAfter
<1>7. ASSUME Exit PROVE LowlinkCoversLinks'
  <2>1. /\ n > 0 /\ Len(frames') = n - 1 /\ DOMAIN frames' = 1..(n - 1)
        /\ \A i \in 1..(n - 1) : frames'[i] = frames[i]
        /\ Top.fn = frames[n].fn
    <3>1. n \in Nat \ {0} /\ n > 0
      BY <1>7, ExitFacts
    <3>2. QED
      BY <1>7, <3>1, ExitFacts
  <2>2. index' = index /\ links' = links /\ onStack' \subseteq onStack
    BY <1>7, ExitLowlink, StackShrinks
  <2> SUFFICES ASSUME NEW i \in 1..(n - 1), NEW x \in onStack, NEW y \in onStack,
                      <<x, y>> \in links, index[x] >= index[frames[i].fn]
               PROVE  \E j \in i..(n - 1) : lowlink'[frames[j].fn] <= index[y]
    <3>1. n - 1 \in Nat /\ \A k \in 1..(n - 1) : frames'[k].fn = frames[k].fn
      BY <1>1, <2>1
    <3>2. QED
      BY <2>1, <2>2, <3>1, CoversAfter
  <2>3. /\ \A z \in onStack : lowlink'[z] <= lowlink[z] /\ lowlink'[z] \in Nat
        /\ lowlink'[frames[n - 1].fn] <= lowlink[frames[n].fn]
    <3>1. n > 1 /\ n - 1 \in 1..n /\ n \in 1..n
      BY <1>1
    <3>2. frames[n - 1].fn \in onStack /\ frames[n].fn \in onStack
      BY <1>1, <3>1
    <3>3. lowlink' = PullLowlink(frames[n - 1].fn, frames[n].fn)
      BY <1>7, <2>1, <3>1, ExitLowlink
    <3>4. /\ \A z \in Fn \ {frames[n - 1].fn} : lowlink'[z] = lowlink[z]
          /\ lowlink'[frames[n - 1].fn] \in Nat
          /\ lowlink'[frames[n - 1].fn] <= lowlink[frames[n - 1].fn]
          /\ lowlink'[frames[n - 1].fn] <= lowlink[frames[n].fn]
      BY <1>1, <3>2, <3>3, PullLowlinkFacts
    <3>5. QED
      BY <1>1, <3>4, SMTT(30)
  <2>4. PICK j \in i..n : lowlink[frames[j].fn] <= index[y]
    BY <1>1, <1>2
  <2>5. CASE j = n
    <3>1. frames[n - 1].fn \in onStack /\ frames[n].fn \in onStack /\ n - 1 \in i..(n - 1)
      BY <1>1, <2>1
    <3>2. lowlink'[frames[n - 1].fn] <= index[y]
      BY <1>1, <2>3, <2>4, <2>5, <3>1
    <3>3. QED
      BY <3>1, <3>2
  <2>6. CASE j # n
    <3>1. j \in i..(n - 1) /\ j \in 1..n
      <4>1. n \in Nat /\ i \in 1..(n - 1) /\ j \in i..n
        BY <1>1
      <4> HIDE DEF n
      <4>2. QED
        BY <4>1, <2>6
    <3>2. lowlink'[frames[j].fn] <= index[y]
      <4>1. frames[j].fn \in onStack
        BY <1>1, <3>1
      <4>2. QED
        BY <1>1, <2>3, <2>4, <4>1
    <3>3. QED
      BY <3>1, <3>2
  <2>7. QED
    BY <2>5, <2>6
<1>8. QED
  BY <1>4, <1>5, <1>6, <1>7, StepKinds
-----------------------------------------------------------------------------
(* A component is closed when it is popped: a link that left it would go to a *)
(* function below on the stack, and the root's low-link would be lower.       *)
LEMMA CalleesFirstStep ==
  ASSUME TypeOK, BookkeepingAgrees, CheckedInsideOwner, VisitedIsStackedOrDone,
         LowlinkCoversLinks, CalleesFirst, [Next]_vars
  PROVE  CalleesFirst'
<1>0. \A e \in links : e[1] \in Generalized => e[2] \in Generalized
  BY DEF CalleesFirst, Promise!Closed
<1>1. \A e \in links : e[1] \in onStack \cup Generalized /\ e[2] \in onStack \cup Generalized
  BY DEF VisitedIsStackedOrDone, TypeOK, Link
<1>2. \A f \in onStack : f \notin Generalized
  BY DEF VisitedIsStackedOrDone
<1>3. frames # << >> => current \in onStack
  BY CurrentIsTop, TopType, StackedFacts DEF Top
<1>4. ASSUME Generalized' = Generalized,
             \/ links' = links
             \/ frames # << >> /\ \E g : links' = links \cup {<<current, g>>}
      PROVE  CalleesFirst'
  BY <1>0, <1>1, <1>2, <1>3, <1>4 DEF CalleesFirst, Promise!Closed
<1>5. ASSUME NEW f \in Fn, NEW fs \in Seq(FrameType), EnterKind(f, fs) PROVE CalleesFirst'
  <2>1. Generalized' = Generalized
    BY <1>5, IndexOfEntered
  <2>2. QED
    BY <1>4, <1>5, <2>1 DEF EnterKind
<1>6. ASSUME NEW g \in Fn, BackEdgeKind(g) PROVE CalleesFirst'
  <2>1. Generalized' = Generalized
    BY <1>6 DEF BackEdgeKind, Generalized, SetOf
  <2>2. QED
    BY <1>4, <1>6, <2>1 DEF BackEdgeKind
<1>7. ASSUME QuietKind PROVE CalleesFirst'
  <2>1. Generalized' = Generalized /\ links' = links
    BY <1>7 DEF QuietKind, Generalized, SetOf
  <2>2. QED
    BY <1>4, <2>1
<1>8. ASSUME Exit PROVE CalleesFirst'
  <2> DEFINE f == Top.fn
  <2> DEFINE n == Len(frames)
  <2>1. links' = links
    BY <1>8 DEF Exit
  <2>2. CASE IsRoot(f)
    <3>1. /\ n \in Nat \ {0} /\ n \in DOMAIN frames /\ f = frames[n].fn
          /\ f \in SetOf(stack) /\ lowlink[f] = index[f]
      BY <1>8, <2>2, ExitFacts DEF IsRoot
    <3>2. Component(f) = {g \in onStack : index[g] >= index[f]}
      BY <3>1, ComponentIsAbove
    <3>3. Generalized' = Generalized \cup Component(f)
      BY <1>8, <2>2, GeneralizedGrows
    <3>4. \A x, y \in onStack : <<x, y>> \in links /\ index[x] >= index[f] => index[y] >= index[f]
      <4> SUFFICES ASSUME NEW x \in onStack, NEW y \in onStack,
                          <<x, y>> \in links, index[x] >= index[f]
                   PROVE  index[y] >= index[f]
        OBVIOUS
      <4>1. PICK j \in n..n : lowlink[frames[j].fn] <= index[y]
        BY <3>1 DEF LowlinkCoversLinks
      <4>2. lowlink[f] <= index[y]
        BY <3>1, <4>1
      <4>3. f \in onStack /\ index[f] \in Nat /\ index[y] \in Nat
        BY <3>1, StackedFacts DEF BookkeepingAgrees
      <4>4. QED
        BY <3>1, <4>2, <4>3
    <3>5. \A e \in links : e = <<e[1], e[2]>>
      BY DEF TypeOK, Link
    <3>6. \A e \in links : e[1] \in Generalized' => e[2] \in Generalized'
      <4> SUFFICES ASSUME NEW e \in links, e[1] \in Generalized'
                   PROVE  e[2] \in Generalized'
        OBVIOUS
      <4>1. CASE e[1] \in Generalized
        <5>1. e[2] \in Generalized
          BY <1>0, <4>1
        <5>2. QED
          BY <3>3, <5>1
      <4>2. CASE e[1] \in Component(f)
        <5>1. e[1] \in onStack /\ index[e[1]] >= index[f] /\ <<e[1], e[2]>> \in links
          BY <3>2, <3>5, <4>2
        <5>2. CASE e[2] \in Generalized
          BY <3>3, <5>2
        <5>3. CASE e[2] \in onStack
          BY <3>2, <3>3, <3>4, <5>1, <5>3
        <5>4. e[2] \in onStack \cup Generalized
          BY <1>1
        <5>5. QED
          BY <5>2, <5>3, <5>4
      <4>3. QED
        BY <3>3, <4>1, <4>2
    <3>7. QED
      BY <2>1, <3>6 DEF CalleesFirst, Promise!Closed
  <2>3. CASE ~IsRoot(f)
    BY <1>4, <1>8, <2>1, <2>3, GeneralizedGrows
  <2>4. QED
    BY <2>2, <2>3
<1>9. QED
  BY <1>5, <1>6, <1>7, <1>8, StepKinds

LEMMA CheckedInsideStep ==
  ASSUME TypeOK, BookkeepingAgrees, CheckedInsideOwner, [Next]_vars
  PROVE  CheckedInsideOwner'
<1> DEFINE n == Len(frames)
<1> DEFINE Inside(fs, i) ==
      \A e \in SetOf(Enclosing[fs[i].fn]) : \E j \in 1..(i - 1) : fs[j].fn = e
<1>1. n \in Nat /\ DOMAIN frames = 1..n
  BY DEF TypeOK
<1>2. \A i \in 1..n : Inside(frames, i)
  BY <1>1 DEF CheckedInsideOwner
<1>3. ASSUME NEW m \in 0..n, \A i \in 1..m : frames'[i].fn = frames[i].fn
      PROVE  \A i \in 1..m : Inside(frames', i)
  <2> SUFFICES ASSUME NEW i \in 1..m, NEW e \in SetOf(Enclosing[frames'[i].fn])
               PROVE  \E j \in 1..(i - 1) : frames'[j].fn = e
    OBVIOUS
  <2>1. i \in 1..n /\ \A j \in 1..(i - 1) : j \in 1..m
    BY <1>1
  <2>2. e \in SetOf(Enclosing[frames[i].fn])
    BY <1>3
  <2>3. PICK j \in 1..(i - 1) : frames[j].fn = e
    BY <1>2, <2>1, <2>2
  <2>4. QED
    BY <1>3, <2>1, <2>3
<1>4. ASSUME NEW f \in Fn, NEW fs \in Seq(FrameType), EnterKind(f, fs)
      PROVE  CheckedInsideOwner'
  <2>1. /\ DOMAIN frames' = 1..(n + 1)
        /\ \A i \in 1..n : /\ frames'[i].fn = frames[i].fn
                           /\ frames'[i].nested \subseteq NestedIn(frames[i].fn)
        /\ frames'[n + 1].fn = f /\ frames'[n + 1].nested = NestedIn(f)
    BY <1>1, <1>4, EnterFacts
  <2>2. \A i \in 1..n : Inside(frames', i)
    <3>1. n \in 0..n /\ \A i \in 1..n : frames'[i].fn = frames[i].fn
      BY <1>1, <2>1
    <3> HIDE DEF Inside
    <3>2. QED
      BY <1>3, <3>1
  <2>3. Inside(frames', n + 1)
    <3>1. \A e \in SetOf(Enclosing[f]) : \E i \in 1..n : frames[i].fn = e
      BY <1>1, <1>4 DEF EnterKind
    <3>2. 1..((n + 1) - 1) = 1..n
      BY <1>1
    <3>3. QED
      BY <2>1, <3>1, <3>2
  <2>4. \A i \in 1..(n + 1) : i \in 1..n \/ i = n + 1
    BY <1>1
  <2>5. \A i \in 1..(n + 1) : Inside(frames', i)
    BY <2>2, <2>3, <2>4
  <2>6. \A i \in 1..(n + 1) : frames'[i].nested \subseteq NestedIn(frames'[i].fn)
    BY <2>1, <2>4
  <2>7. QED
    BY <2>1, <2>5, <2>6 DEF CheckedInsideOwner
<1>5. ASSUME SameShape(frames') PROVE CheckedInsideOwner'
  <2>1. /\ DOMAIN frames' = 1..n
        /\ \A i \in 1..n : /\ frames'[i].fn = frames[i].fn
                           /\ frames'[i].nested \subseteq NestedIn(frames'[i].fn)
    BY <1>1, <1>5 DEF SameShape
  <2>2. \A i \in 1..n : Inside(frames', i)
    <3>1. n \in 0..n /\ \A i \in 1..n : frames'[i].fn = frames[i].fn
      BY <1>1, <2>1
    <3> HIDE DEF Inside
    <3>2. QED
      BY <1>3, <3>1
  <2>3. QED
    BY <2>1, <2>2 DEF CheckedInsideOwner
<1>6. ASSUME Exit PROVE CheckedInsideOwner'
  <2>1. /\ n - 1 \in 0..n /\ DOMAIN frames' = 1..(n - 1)
        /\ \A i \in 1..(n - 1) : i \in 1..n /\ frames'[i] = frames[i]
    <3>1. n \in Nat \ {0} /\ DOMAIN frames' = 1..(n - 1) /\ \A i \in DOMAIN frames' : frames'[i] = frames[i]
      BY <1>6, ExitFacts, BookkeepingAgrees
    <3>2. QED
      BY <3>1
  <2>2. \A i \in 1..(n - 1) : Inside(frames', i)
    BY <1>3, <2>1
  <2>3. \A i \in 1..(n - 1) : frames'[i].nested \subseteq NestedIn(frames'[i].fn)
    BY <1>1, <2>1 DEF CheckedInsideOwner
  <2>4. QED
    BY <2>1, <2>2, <2>3 DEF CheckedInsideOwner
<1>7. QED
  BY <1>4, <1>5, <1>6, StepKinds DEF BackEdgeKind, QuietKind

(* EnclosersBelow after a step that starts no body: it can only cut the       *)
(* frames and, at a root, the stack.                                          *)
LEMMA EnclosersAfter ==
  ASSUME TypeOK, BookkeepingAgrees, VisitedIsStackedOrDone, EnclosersBelow,
         NEW m \in 0..Len(frames), DOMAIN frames' = 1..m,
         \A i \in 1..m : frames'[i].fn = frames[i].fn,
         index' = index, onStack' \subseteq onStack,
         \A x \in onStack', y \in onStack : index[y] < index[x] => y \in onStack'
  PROVE  EnclosersBelow'
<1>1. DOMAIN frames = 1..Len(frames) /\ Len(frames) \in Nat
  BY StackedFacts
<1> SUFFICES ASSUME NEW x \in onStack', NEW e \in SetOf(Enclosing[x])
             PROVE  /\ e \in onStack'
                    /\ index[e] < index[x]
                    /\ \A i \in 1..m :
                         index[e] < index[frames'[i].fn] /\ index[frames'[i].fn] <= index[x] =>
                           \E j \in 1..(i - 1) : frames'[j].fn = e
  BY DEF EnclosersBelow
<1>2. x \in onStack /\ e \in onStack /\ index[e] < index[x]
  BY DEF EnclosersBelow
<1>3. ASSUME NEW i \in 1..m, index[e] < index[frames'[i].fn], index[frames'[i].fn] <= index[x]
      PROVE  \E j \in 1..(i - 1) : frames'[j].fn = e
  <2>1. i \in DOMAIN frames /\ \A j \in 1..(i - 1) : j \in 1..m
    BY <1>1
  <2>2. index[e] < index[frames[i].fn] /\ index[frames[i].fn] <= index[x]
    BY <1>3
  <2>3. PICK j \in 1..(i - 1) : frames[j].fn = e
    BY <1>2, <2>1, <2>2 DEF EnclosersBelow
  <2>4. QED
    BY <2>1, <2>3
<1>4. QED
  BY <1>2, <1>3

LEMMA EnclosersStep ==
  ASSUME TypeOK, BookkeepingAgrees, CheckedInsideOwner, VisitedIsStackedOrDone,
         EnclosersBelow, [Next]_vars
  PROVE  EnclosersBelow'
<1> DEFINE n == Len(frames)
<1>1. /\ n \in Nat /\ DOMAIN frames = 1..n
      /\ \A i \in 1..n : frames[i].fn \in onStack
      /\ \A x \in onStack : x \in Fn /\ index[x] \in Nat
  BY StackedFacts
<1>2. ASSUME NEW f \in Fn, NEW fs \in Seq(FrameType), EnterKind(f, fs)
      PROVE  EnclosersBelow'
  <2>1. /\ DOMAIN frames' = 1..(n + 1)
        /\ \A i \in 1..n : frames'[i].fn = frames[i].fn
        /\ frames'[n + 1].fn = f
    BY <1>1, <1>2, EnterFacts
  <2>2. /\ onStack' = onStack \cup {f} /\ f \notin onStack
        /\ index'[f] = nextIndex /\ nextIndex \in Nat
        /\ \A x \in onStack : x # f /\ index[x] < nextIndex /\ index'[x] = index[x]
    BY <1>2, IndexOfEntered
  <2> SUFFICES ASSUME NEW x \in onStack', NEW e \in SetOf(Enclosing[x])
               PROVE  /\ e \in onStack'
                      /\ index'[e] < index'[x]
                      /\ \A i \in 1..(n + 1) :
                           /\ index'[e] < index'[frames'[i].fn]
                           /\ index'[frames'[i].fn] <= index'[x]
                           => \E j \in 1..(i - 1) : frames'[j].fn = e
    BY <2>1 DEF EnclosersBelow
  <2>3. CASE x = f
    <3>1. PICK k \in 1..n : frames[k].fn = e
      BY <1>1, <1>2, <2>3 DEF EnterKind
    <3>2. e \in onStack /\ e \in onStack' /\ index'[e] < index'[x]
      BY <1>1, <2>2, <2>3, <3>1
    <3>3. ASSUME NEW i \in 1..(n + 1), index'[e] < index'[frames'[i].fn]
          PROVE  \E j \in 1..(i - 1) : frames'[j].fn = e
      <4>1. ~(i <= k)
        <5> SUFFICES ASSUME i <= k PROVE FALSE
          OBVIOUS
        <5>1. i \in 1..n /\ k \in 1..n
          BY <1>1
        <5>2. index[e] < index[frames[i].fn]
          BY <1>1, <2>1, <2>2, <3>2, <3>3, <5>1
        <5>3. i = k \/ index[frames[i].fn] < index[frames[k].fn]
          BY <1>1, <5>1, SMTT(30) DEF BookkeepingAgrees
        <5>4. frames[i].fn \in onStack
          BY <1>1, <5>1
        <5>5. QED
          BY <1>1, <3>1, <3>2, <5>2, <5>3, <5>4
      <4>2. k \in 1..(i - 1)
        BY <1>1, <4>1
      <4>3. QED
        BY <2>1, <3>1, <4>2
    <3>4. QED
      BY <3>2, <3>3
  <2>4. CASE x # f
    <3>1. x \in onStack /\ e \in onStack /\ index[e] < index[x]
      BY <2>2, <2>4 DEF EnclosersBelow
    <3>2. ASSUME NEW i \in 1..(n + 1),
                 index'[e] < index'[frames'[i].fn], index'[frames'[i].fn] <= index'[x]
          PROVE  \E j \in 1..(i - 1) : frames'[j].fn = e
      <4>1. i # n + 1
        BY <1>1, <2>1, <2>2, <3>1, <3>2
      <4>2. i \in 1..n
        BY <1>1, <4>1
      <4>3. frames[i].fn \in onStack
        BY <1>1, <4>2
      <4>4. index[e] < index[frames[i].fn] /\ index[frames[i].fn] <= index[x]
        BY <2>1, <2>2, <3>1, <3>2, <4>2, <4>3
      <4>5. PICK j \in 1..(i - 1) : frames[j].fn = e
        BY <1>1, <3>1, <4>2, <4>4 DEF EnclosersBelow
      <4>6. j \in 1..n
        BY <1>1, <4>2
      <4>7. QED
        BY <2>1, <4>5, <4>6
    <3>3. QED
      BY <2>2, <3>1, <3>2
  <2>5. QED
    BY <2>3, <2>4
<1>3. ASSUME SameShape(frames'), UNCHANGED <<current, ancestors, index, onStack, stack>>
      PROVE  EnclosersBelow'
  <2>1. n \in 0..n /\ DOMAIN frames' = 1..n /\ \A i \in 1..n : frames'[i].fn = frames[i].fn
    BY <1>1, <1>3, BookkeepingSameShape
  <2>2. QED
    BY <1>3, <2>1, EnclosersAfter
<1>4. ASSUME Exit PROVE EnclosersBelow'
  <2>1. /\ n - 1 \in 0..n /\ DOMAIN frames' = 1..(n - 1)
        /\ \A i \in 1..(n - 1) : frames'[i].fn = frames[i].fn
    <3>1. n \in Nat \ {0} /\ DOMAIN frames' = 1..(n - 1) /\ \A i \in DOMAIN frames' : frames'[i] = frames[i]
      BY <1>4, ExitFacts
    <3>2. QED
      BY <3>1
  <2>2. index' = index /\ onStack' \subseteq onStack
    BY <1>4, ExitLowlink, StackShrinks
  <2>3. \A x \in onStack', y \in onStack : index[y] < index[x] => y \in onStack'
    <3>1. Top.fn \in onStack
      BY <1>4, ExitFacts DEF BookkeepingAgrees
    <3>2. CASE IsRoot(Top.fn)
      BY <1>1, <1>4, <3>1, <3>2, StackShrinks
    <3>3. CASE ~IsRoot(Top.fn)
      BY <1>4, <3>3, StackShrinks
    <3>4. QED
      BY <3>2, <3>3
  <2>4. QED
    BY <2>1, <2>2, <2>3, EnclosersAfter
<1>5. QED
  BY <1>2, <1>3, <1>4, StepKinds DEF BackEdgeKind, QuietKind
-----------------------------------------------------------------------------
(* What is reached: by a link, by nothing, through another, and still when    *)
(* more links are known.                                                      *)
LEMMA ReachesFacts ==
  ASSUME NEW E, NEW f, NEW g
  PROVE  /\ Promise!Reaches(f, f, E)
         /\ <<f, g>> \in E => Promise!Reaches(f, g, E)
         /\ \A h : Promise!Reaches(f, g, E) /\ Promise!Reaches(g, h, E) => Promise!Reaches(f, h, E)
         /\ \A D : E \subseteq D /\ Promise!Reaches(f, g, E) => Promise!Reaches(f, g, D)
<1>1. Promise!Reaches(f, f, E)
  BY DEF Promise!Reaches
<1>2. ASSUME <<f, g>> \in E PROVE Promise!Reaches(f, g, E)
  <2>1. \A S \in SUBSET Fn : f \in S /\ Promise!Closed(S, E) => g \in S
    BY <1>2 DEF Promise!Closed
  <2>2. QED
    BY <2>1 DEF Promise!Reaches
<1>3. \A h : Promise!Reaches(f, g, E) /\ Promise!Reaches(g, h, E) => Promise!Reaches(f, h, E)
  BY DEF Promise!Reaches
<1>4. ASSUME NEW D, E \subseteq D, Promise!Reaches(f, g, E) PROVE Promise!Reaches(f, g, D)
  <2>1. \A S : Promise!Closed(S, D) => Promise!Closed(S, E)
    BY <1>4 DEF Promise!Closed
  <2>2. QED
    BY <1>4, <2>1 DEF Promise!Reaches
<1>5. QED
  BY <1>1, <1>2, <1>3, <1>4

LEMMA SameFrames ==
  ASSUME NEW n \in Nat, n = Len(frames), DOMAIN frames = 1..n, NEW fs, SameShape(fs)
  PROVE  DOMAIN fs = 1..n /\ \A i \in 1..n : fs[i].fn = frames[i].fn
<1>1. fs \in Seq(FrameType) /\ Len(fs) = n
  BY DEF SameShape
<1>2. DOMAIN fs = 1..n
  BY <1>1
<1> QED BY <1>2 DEF SameShape

LEMMA ConnectedStep ==
  ASSUME TypeOK, BookkeepingAgrees, CheckedInsideOwner, VisitedIsStackedOrDone,
         BottomIsRoot, StackConnected, [Next]_vars
  PROVE  StackConnected'
<1> DEFINE R(f, g) == Promise!Reaches(f, g, links)
<1> DEFINE Rn(f, g) == Promise!Reaches(f, g, links')
<1> DEFINE n == Len(frames)
<1>0. /\ n \in Nat /\ DOMAIN frames = 1..n
      /\ \A i \in 1..n : frames[i].fn \in onStack
      /\ \A f \in onStack : f \in Fn /\ index[f] \in Nat /\ lowlink[f] \in Nat
      /\ \A i, j \in 1..n : i < j => index[frames[i].fn] < index[frames[j].fn]
  BY StackedFacts DEF BookkeepingAgrees, TypeOK
<1>1. /\ \A i \in 1..n : \A f \in onStack : index[frames[i].fn] <= index[f] => R(frames[i].fn, f)
      /\ \A f \in onStack : \E i \in 1..n : index[frames[i].fn] <= index[f] /\ R(f, frames[i].fn)
      /\ \A f \in onStack : \E g \in onStack : index[g] = lowlink[f] /\ R(f, g)
      /\ n \in Nat /\ DOMAIN frames = 1..n
      /\ \A i \in 1..n : frames[i].fn \in onStack
      /\ \A f \in onStack : f \in Fn /\ index[f] \in Nat /\ lowlink[f] \in Nat
  BY <1>0 DEF StackConnected
<1>2. /\ \A f : R(f, f) /\ Rn(f, f)
      /\ \A f, g, h : R(f, g) /\ R(g, h) => R(f, h)
      /\ \A f, g, h : Rn(f, g) /\ Rn(g, h) => Rn(f, h)
      /\ \A f, g : <<f, g>> \in links' => Rn(f, g)
      /\ links \subseteq links' => \A f, g : R(f, g) => Rn(f, g)
  BY ReachesFacts
<1>3. frames # << >> => current = frames[n].fn /\ n \in 1..n
  BY CurrentIsTop, TopType, <1>1 DEF Top
<1> HIDE DEF R, Rn, n
<1>4. ASSUME \A i \in DOMAIN frames' : \A f \in onStack' :
               index'[frames'[i].fn] <= index'[f] => Rn(frames'[i].fn, f),
             \A f \in onStack' : \E i \in DOMAIN frames' :
               index'[frames'[i].fn] <= index'[f] /\ Rn(f, frames'[i].fn),
             \A f \in onStack' : \E g \in onStack' : index'[g] = lowlink'[f] /\ Rn(f, g)
      PROVE  StackConnected'
  BY <1>4 DEF StackConnected, Rn, Promise!Reaches, Promise!Closed
<1>5. ASSUME NEW f \in Fn, NEW fs \in Seq(FrameType), EnterKind(f, fs) PROVE StackConnected'
  <2>1. /\ index'[f] = nextIndex /\ lowlink'[f] = nextIndex /\ nextIndex \in Nat
        /\ \A g \in onStack : /\ g # f /\ index'[g] = index[g] /\ lowlink'[g] = lowlink[g]
                             /\ index[g] < nextIndex
        /\ f \notin onStack
        /\ onStack' = onStack \cup {f}
    BY <1>1, <1>5, IndexOfEntered
  <2>2. /\ DOMAIN frames' = 1..(n + 1) /\ frames'[n + 1].fn = f
        /\ \A i \in 1..n : frames'[i].fn = frames[i].fn
    BY <1>1, <1>5, EnterFacts DEF n
  <2>3. /\ links \subseteq links'
        /\ frames # << >> => <<current, f>> \in links'
        /\ frames = << >> => onStack = {} /\ n = 0
    <3>1. frames = << >> => onStack = {} /\ n = 0
      BY DEF BottomIsRoot, BookkeepingAgrees, SetOf, n
    <3>2. QED
      BY <1>5, <3>1 DEF EnterKind
  <2>4. \A g \in onStack : \A h : R(g, h) => Rn(g, h)
    BY <1>2, <2>3
  <2>5. \A i \in 1..n : Rn(frames[i].fn, f)
    <3> SUFFICES ASSUME NEW i \in 1..n PROVE Rn(frames[i].fn, f)
      OBVIOUS
    <3>1. frames # << >> /\ current = frames[n].fn /\ n \in 1..n
      BY <1>1, <1>3, <2>3
    <3>2. index[frames[i].fn] <= index[current]
      <4>1. CASE i = n
        BY <1>0, <3>1, <4>1
      <4>2. CASE i < n
        BY <1>0, <3>1, <4>2
      <4>3. QED
        BY <1>0, <4>1, <4>2
    <3>3. R(frames[i].fn, current) /\ frames[i].fn \in onStack
      BY <1>1, <3>1, <3>2
    <3>5. Rn(frames[i].fn, current)
      BY <2>4, <3>3
    <3>4. QED
      BY <1>2, <2>3, <3>1, <3>5
  <2>6. \A i \in DOMAIN frames' : \A g \in onStack' :
          index'[frames'[i].fn] <= index'[g] => Rn(frames'[i].fn, g)
    <3> SUFFICES ASSUME NEW i \in 1..(n + 1), NEW g \in onStack', index'[frames'[i].fn] <= index'[g]
                 PROVE  Rn(frames'[i].fn, g)
      BY <2>2
    <3>1. CASE i = n + 1
      <4>1. index'[f] <= index'[g]
        BY <2>2, <3>1
      <4>2. g \notin onStack
        BY <1>0, <2>1, <4>1
      <4>3. g = f
        BY <2>1, <4>2
      <4>4. QED
        BY <1>2, <2>2, <3>1, <4>3
    <3>2. CASE i \in 1..n /\ g = f
      BY <2>2, <2>5, <3>2
    <3>3. CASE i \in 1..n /\ g \in onStack
      <4>1. /\ frames'[i].fn = frames[i].fn /\ frames[i].fn \in onStack
            /\ index'[frames[i].fn] = index[frames[i].fn] /\ index'[g] = index[g]
        BY <1>0, <2>1, <2>2, <3>3
      <4>2. R(frames[i].fn, g)
        BY <1>1, <3>3, <4>1
      <4>3. QED
        BY <2>4, <4>1, <4>2
    <3>4. QED
      BY <1>0, <2>1, <3>1, <3>2, <3>3
  <2>7. \A g \in onStack' : \E i \in DOMAIN frames' :
          index'[frames'[i].fn] <= index'[g] /\ Rn(g, frames'[i].fn)
    <3> SUFFICES ASSUME NEW g \in onStack'
                 PROVE  \E i \in 1..(n + 1) : index'[frames'[i].fn] <= index'[g] /\ Rn(g, frames'[i].fn)
      BY <2>2
    <3>1. CASE g = f
      BY <1>1, <1>2, <2>1, <2>2, <3>1
    <3>2. CASE g \in onStack
      <4>1. PICK i \in 1..n : index[frames[i].fn] <= index[g] /\ R(g, frames[i].fn)
        BY <1>1, <3>2
      <4>2. /\ frames'[i].fn = frames[i].fn /\ frames[i].fn \in onStack /\ i \in 1..(n + 1)
            /\ index'[frames[i].fn] = index[frames[i].fn] /\ index'[g] = index[g]
        BY <1>0, <2>1, <2>2, <3>2
      <4>3. QED
        BY <2>4, <3>2, <4>1, <4>2
    <3>3. QED
      BY <2>1, <3>1, <3>2
  <2>8. \A g \in onStack' : \E h \in onStack' : index'[h] = lowlink'[g] /\ Rn(g, h)
    <3>1. Rn(f, f) /\ index'[f] = lowlink'[f] /\ f \in onStack'
      BY <1>2, <2>1
    <3>2. \A g \in onStack : \E h \in onStack' : index'[h] = lowlink'[g] /\ Rn(g, h)
      BY <1>1, <2>1, <2>4
    <3>3. QED
      BY <2>1, <3>1, <3>2
  <2>9. QED
    BY <1>4, <2>6, <2>7, <2>8
<1>6. ASSUME SameShape(frames'), links \subseteq links', index' = index, onStack' = onStack,
             \A f \in onStack : \E g \in onStack : index[g] = lowlink'[f] /\ Rn(f, g)
      PROVE  StackConnected'
  <2>1. DOMAIN frames' = 1..n /\ \A i \in 1..n : frames'[i].fn = frames[i].fn
    <3>1. n \in Nat /\ n = Len(frames) /\ DOMAIN frames = 1..n
      BY <1>1 DEF n
    <3>2. SameShape(frames')
      BY <1>6
    <3> HIDE DEF n
    <3>3. QED
      BY <3>1, <3>2, SameFrames
  <2>2. \A f, g : R(f, g) => Rn(f, g)
    BY <1>2, <1>6
  <2>3. \A i \in DOMAIN frames' : \A f \in onStack' :
          index'[frames'[i].fn] <= index'[f] => Rn(frames'[i].fn, f)
    BY <1>1, <1>6, <2>1, <2>2
  <2>4. \A f \in onStack' : \E i \in DOMAIN frames' :
          index'[frames'[i].fn] <= index'[f] /\ Rn(f, frames'[i].fn)
    <3> SUFFICES ASSUME NEW f \in onStack
                 PROVE  \E i \in 1..n : index[frames[i].fn] <= index[f] /\ Rn(f, frames[i].fn)
      BY <1>6, <2>1
    <3>1. QED
      BY <1>1, <2>2
  <2>5. \A f \in onStack' : \E g \in onStack' : index'[g] = lowlink'[f] /\ Rn(f, g)
    BY <1>6
  <2>6. QED
    BY <1>4, <2>3, <2>4, <2>5
<1>7. ASSUME NEW g \in Fn, BackEdgeKind(g) PROVE StackConnected'
  <2>1. /\ frames # << >> /\ SameShape(frames') /\ links' = links \cup {<<current, g>>}
        /\ index' = index /\ onStack' = onStack /\ lowlink' = NoteBackEdge(current, g)
    BY <1>7 DEF BackEdgeKind
  <2>2. /\ current \in onStack
        /\ \A f \in onStack \ {current} : lowlink'[f] = lowlink[f]
        /\ \/ lowlink'[current] = lowlink[current]
           \/ g \in onStack /\ lowlink'[current] = index[g]
    <3>1. current \in onStack /\ current \in Fn
      BY <1>0, <1>3, <2>1
    <3>2. QED
      BY <1>0, <2>1, <3>1, NoteBackEdgeFacts
  <2>3. links \subseteq links' /\ Rn(current, g) /\ \A f, h : R(f, h) => Rn(f, h)
    BY <1>2, <2>1
  <2>4. \A f \in onStack : \E h \in onStack : index[h] = lowlink'[f] /\ Rn(f, h)
    BY <1>1, <2>2, <2>3
  <2>5. QED
    BY <1>6, <2>1, <2>3, <2>4
<1>8. ASSUME QuietKind PROVE StackConnected'
  <2>1. /\ SameShape(frames') /\ links' = links /\ index' = index /\ onStack' = onStack
        /\ lowlink' = lowlink
    BY <1>8 DEF QuietKind
  <2>2. \A f, g : R(f, g) => Rn(f, g)
    BY <1>2, <2>1
  <2>3. QED
    BY <1>1, <1>6, <2>1, <2>2
<1>9. ASSUME Exit PROVE StackConnected'
  <2> DEFINE f == Top.fn
  <2>1. /\ n \in Nat \ {0} /\ f = frames[n].fn /\ n \in 1..n
        /\ DOMAIN frames' = 1..(n - 1) /\ \A i \in 1..(n - 1) : frames'[i].fn = frames[i].fn
        /\ f \in onStack
    BY <1>9, ExitFacts DEF BookkeepingAgrees, n
  <2>2. /\ onStack' \subseteq onStack
        /\ IsRoot(f) => onStack' = {g \in onStack : index[g] < index[f]}
        /\ ~IsRoot(f) => onStack' = onStack
        /\ index' = index /\ links' = links
        /\ n = 1 => lowlink' = lowlink
        /\ n > 1 => lowlink' = PullLowlink(frames[n - 1].fn, f)
    <3>1. n > 1 <=> Len(frames) > 1
      BY DEF n
    <3>2. f = Top.fn
      OBVIOUS
    <3> HIDE DEF f
    <3>3. QED
      BY <1>9, <3>1, <3>2, StackShrinks, ExitLowlink DEF n
  <2>3. \A g, h : R(g, h) => Rn(g, h)
    BY <1>2, <2>2
  <2> HIDE DEF f
  <2>4. lowlink[f] <= index[f]
    BY <2>1, StackedFacts
  <2>5. \A i \in 1..(n - 1) : index[frames[i].fn] < index[f]
    BY <1>0, <2>1
  <2>6. ASSUME NEW g \in onStack' PROVE \E i \in 1..(n - 1) : index[frames[i].fn] <= index[g] /\ R(g, frames[i].fn)
    <3>1. g \in onStack /\ index[g] \in Nat /\ index[f] \in Nat
      BY <1>1, <2>1, <2>2, <2>6
    <3>2. PICK i \in 1..n : index[frames[i].fn] <= index[g] /\ R(g, frames[i].fn)
      BY <1>1, <3>1
    <3>3. CASE i \in 1..(n - 1)
      BY <3>2, <3>3
    <3>4. CASE i = n
      <4>1. ~IsRoot(f) /\ lowlink[f] < index[f]
        <5>1. index[f] <= index[g] /\ ~(index[g] < index[f])
          BY <2>1, <3>1, <3>2, <3>4
        <5>2. ~IsRoot(f)
          BY <2>2, <2>6, <5>1
        <5>3. QED
          BY <1>1, <2>1, <2>4, <5>2 DEF IsRoot
      <4>2. PICK h \in onStack : index[h] = lowlink[f] /\ R(f, h)
        BY <1>1, <2>1
      <4>3. PICK j \in 1..n : index[frames[j].fn] <= index[h] /\ R(h, frames[j].fn)
        BY <1>1
      <4>4. index[frames[j].fn] < index[f] /\ j # n /\ index[frames[j].fn] <= index[g]
        <5>1. /\ index[frames[j].fn] \in Nat /\ index[h] \in Nat /\ frames[i].fn = f
              /\ index[f] <= index[g]
          BY <1>0, <2>1, <3>2, <3>4
        <5>2. index[frames[j].fn] < index[f]
          BY <3>1, <4>1, <4>2, <4>3, <5>1
        <5>3. QED
          BY <2>1, <3>1, <5>1, <5>2
      <4>5. R(g, frames[j].fn)
        BY <1>2, <2>1, <3>2, <3>4, <4>2, <4>3
      <4>6. QED
        BY <2>1, <4>4, <4>5
    <3>5. QED
      BY <2>1, <3>3, <3>4
  <2>7. ASSUME NEW g \in onStack' PROVE \E h \in onStack' : index[h] = lowlink'[g] /\ R(g, h)
    <3>1. g \in onStack /\ index[g] \in Nat /\ lowlink[g] \in Nat
      BY <1>1, <2>2, <2>7
    <3>2. \A h \in onStack : index[h] <= index[g] => h \in onStack'
      <4> SUFFICES ASSUME NEW h \in onStack, index[h] <= index[g] PROVE h \in onStack'
        OBVIOUS
      <4>1. CASE IsRoot(f)
        <5>1. index[g] < index[f] /\ index[h] \in Nat /\ index[f] \in Nat
          BY <1>0, <2>1, <2>2, <2>7, <4>1
        <5>2. QED
          BY <2>2, <3>1, <4>1, <5>1
      <4>2. CASE ~IsRoot(f)
        BY <2>2, <4>2
      <4>3. QED
        BY <4>1, <4>2
    <3>3. CASE lowlink'[g] = lowlink[g]
      <4>1. PICK h \in onStack : index[h] = lowlink[g] /\ R(g, h)
        BY <1>1, <3>1
      <4>2. lowlink[g] <= index[g]
        BY <3>1, StackedFacts
      <4>3. QED
        BY <3>2, <3>3, <4>1, <4>2
    <3>4. CASE lowlink'[g] # lowlink[g]
      <4> DEFINE p == frames[n - 1].fn
      <4>1. n > 1 /\ p \in onStack /\ n - 1 \in 1..(n - 1)
        BY <1>1, <2>1, <2>2, <3>4
      <4>2. /\ \A h \in Fn \ {p} : lowlink'[h] = lowlink[h]
            /\ lowlink'[p] \in 0..index[p]
            /\ lowlink'[p] \in {lowlink[p], lowlink[f]}
        BY <2>1, <2>2, <4>1, PullLowlinkFacts
      <4>3. g = p /\ lowlink'[g] = lowlink[f]
        BY <1>1, <3>1, <3>4, <4>2
      <4>4. PICK h \in onStack : index[h] = lowlink[f] /\ R(f, h)
        BY <1>1, <2>1
      <4>5. R(p, f)
        <5>1. index[p] <= index[f] /\ n - 1 \in 1..n
          BY <1>0, <2>1, <2>5, <4>1
        <5>2. QED
          BY <1>1, <2>1, <5>1
      <4>6. h \in onStack' /\ R(g, h)
        BY <1>1, <1>2, <3>1, <3>2, <4>2, <4>3, <4>4, <4>5
      <4>7. QED
        BY <4>3, <4>4, <4>6
    <3>5. QED
      BY <3>3, <3>4
  <2>8. \A i \in DOMAIN frames' : \A g \in onStack' :
          index'[frames'[i].fn] <= index'[g] => Rn(frames'[i].fn, g)
    <3> SUFFICES ASSUME NEW i \in 1..(n - 1), NEW g \in onStack', index[frames[i].fn] <= index[g]
                 PROVE  Rn(frames[i].fn, g)
      BY <2>1, <2>2
    <3>1. i \in 1..n /\ g \in onStack
      BY <1>0, <2>2
    <3>2. QED
      BY <1>1, <2>3, <3>1
  <2>9. \A g \in onStack' : \E i \in DOMAIN frames' :
          index'[frames'[i].fn] <= index'[g] /\ Rn(g, frames'[i].fn)
    BY <2>1, <2>2, <2>3, <2>6
  <2>10. \A g \in onStack' : \E h \in onStack' : index'[h] = lowlink'[g] /\ Rn(g, h)
    BY <2>2, <2>3, <2>7
  <2>11. QED
    BY <1>4, <2>8, <2>9, <2>10
<1>10. QED
  BY <1>5, <1>7, <1>8, <1>9, StepKinds

LEMMA InitIInv == Init => IInv
<1> SUFFICES ASSUME Init PROVE IInv
  OBVIOUS
<1>1. /\ frames = << >> /\ stack = << >> /\ onStack = {} /\ links = {} /\ sccs = << >>
      /\ \A f \in Fn : index[f] = Unvisited
  BY DEF Init
<1>2. SetOf(stack) = {} /\ Generalized = {} /\ DOMAIN frames = {} /\ DOMAIN stack = {}
  BY <1>1 DEF SetOf, Generalized
<1>3. TypeOK
  BY DEF Init, TypeOK, Index, Link
<1>4. BookkeepingAgrees
  BY <1>1, <1>2 DEF Init, BookkeepingAgrees
<1>5. VisitedIsStackedOrDone
  BY <1>1, <1>2 DEF VisitedIsStackedOrDone, Visited
<1>6. QED
  BY <1>1, <1>2, <1>3, <1>4, <1>5
     DEF IInv, BottomIsRoot, LowlinkCoversLinks, CalleesFirst, Promise!Closed,
         CheckedInsideOwner, EnclosersBelow, StackConnected

LEMMA StepIInv == IInv /\ [Next]_vars => IInv'
<1> SUFFICES ASSUME IInv, [Next]_vars PROVE IInv'
  OBVIOUS
<1>1. /\ TypeOK /\ BookkeepingAgrees /\ VisitedIsStackedOrDone /\ BottomIsRoot
      /\ LowlinkCoversLinks /\ CalleesFirst /\ CheckedInsideOwner /\ EnclosersBelow
      /\ StackConnected
  BY DEF IInv
<1>2. TypeOK'
  BY <1>1, TypeStep
<1>3. BookkeepingAgrees'
  BY <1>1, BookkeepingStep
<1>4. VisitedIsStackedOrDone'
  BY <1>1, VisitedStep
<1>5. BottomIsRoot'
  BY <1>1, <1>3, BottomStep
<1>6. LowlinkCoversLinks'
  BY <1>1, CoversStep
<1>7. CalleesFirst'
  BY <1>1, CalleesFirstStep
<1>8. CheckedInsideOwner'
  BY <1>1, CheckedInsideStep
<1>9. EnclosersBelow'
  BY <1>1, EnclosersStep
<1>10. StackConnected'
  BY <1>1, ConnectedStep
<1>11. QED
  BY <1>2, <1>3, <1>4, <1>5, <1>6, <1>7, <1>8, <1>9, <1>10 DEF IInv

(* What holds all through the checking of any program (check.rs, call_graph.rs *)
(* and recursion.rs together): the records of who is in progress agree, and    *)
(* low-links cover the links that leave a part of the stack.                   *)
THEOREM Invariance == Spec => []IInv
BY InitIInv, StepIInv, PTL DEF Spec

(* The checker's state keeps its shape.                                       *)
THEOREM TypeCorrect == Spec => []TypeOK
<1>1. IInv => TypeOK
  BY DEF IInv
<1>2. QED
  BY <1>1, Invariance, PTL

(* The Rust call stack, RecursionTracker and SCCCollector never disagree      *)
(* about the functions in progress: no expect() in recursion.rs or            *)
(* call_graph.rs can fail.                                                    *)
THEOREM BookkeepingCorrect == Spec => []BookkeepingAgrees
<1>1. IInv => BookkeepingAgrees
  BY DEF IInv
<1>2. QED
  BY <1>1, Invariance, PTL

(* finish_scc never generalises a function before one it refers to.           *)
THEOREM CalleesFirstCorrect == Spec => []CalleesFirst
<1>1. IInv => CalleesFirst
  BY DEF IInv
<1>2. QED
  BY <1>1, Invariance, PTL

(* check_function never enters a body outside the bodies that enclose it.     *)
THEOREM CheckedInsideCorrect == Spec => []CheckedInsideOwner
<1>1. IInv => CheckedInsideOwner
  BY DEF IInv
<1>2. QED
  BY <1>1, Invariance, PTL

LEMMA OnlyExitGeneralizes ==
  ASSUME TypeOK, BookkeepingAgrees, CheckedInsideOwner, [Next]_vars, sccs' # sccs
  PROVE  /\ Exit /\ IsRoot(Top.fn)
         /\ Component(Top.fn) \in SUBSET Fn
         /\ sccs' = Append(sccs, Component(Top.fn))
<1>1. Exit
  BY StepKinds DEF EnterKind, Enter, BackEdgeKind, QuietKind
<1>2. IsRoot(Top.fn) /\ Top.fn \in SetOf(stack)
  BY <1>1 DEF Exit
<1>3. QED
  BY <1>1, <1>2, ComponentFacts DEF Exit

(* When finish_scc generalises a group, each function that encloses a member  *)
(* is still on recursion.stack(), which keeps its variables out of the group's *)
(* generics, or is generalised with it.                                       *)
THEOREM EnclosingCorrect == Spec => EnclosingInContext
<1> DEFINE New == Generalized' \ Generalized
<1> DEFINE InContext == \A f \in New : SetOf(Enclosing[f]) \subseteq SetOf(ancestors') \cup New
<1>1. ASSUME IInv, [Next]_vars PROVE [InContext]_vars
  <2>1. /\ TypeOK /\ BookkeepingAgrees /\ VisitedIsStackedOrDone
        /\ CheckedInsideOwner /\ EnclosersBelow
    BY <1>1 DEF IInv
  <2>2. CASE sccs' = sccs
    BY <2>2 DEF Generalized, SetOf
  <2>3. CASE sccs' # sccs
    <3> DEFINE r == Top.fn
    <3> DEFINE n == Len(frames)
    <3>1. Exit /\ IsRoot(r)
      BY <1>1, <2>1, <2>3, OnlyExitGeneralizes
    <3>2. /\ n \in Nat \ {0} /\ DOMAIN frames = 1..n /\ r = frames[n].fn /\ r \in SetOf(stack)
          /\ DOMAIN ancestors' = 1..(n - 1) /\ \A i \in 1..(n - 1) : ancestors'[i] = frames[i].fn
      BY <2>1, <3>1, ExitFacts
    <3>3. Component(r) = {g \in onStack : index[g] >= index[r]}
      BY <2>1, <3>2, ComponentIsAbove
    <3>4. New = Component(r)
      BY <2>1, <3>1, <3>3, GeneralizedGrows DEF VisitedIsStackedOrDone
    <3> SUFFICES ASSUME NEW f \in Component(r), NEW e \in SetOf(Enclosing[f]),
                        e \notin Component(r)
                 PROVE  e \in SetOf(ancestors')
      BY <3>4
    <3>5. f \in onStack /\ index[r] <= index[f] /\ e \in onStack
      BY <2>1, <3>3, StackedFacts DEF EnclosersBelow, BookkeepingAgrees
    <3>6. index[e] < index[r]
      BY <2>1, <3>2, <3>3, <3>5, StackedFacts DEF BookkeepingAgrees
    <3>7. n \in DOMAIN frames
      BY <3>2
    <3>8. PICK j \in 1..(n - 1) : frames[j].fn = e
      BY <2>1, <3>2, <3>5, <3>6, <3>7 DEF EnclosersBelow
    <3>9. QED
      BY <3>2, <3>8 DEF SetOf
  <2>4. QED
    BY <2>2, <2>3
<1>2. QED
  BY <1>1, Invariance, PTL DEF Spec, EnclosingInContext

(* A function is never in two of the groups finish_scc generalises.           *)
THEOREM GeneralizedOnceCorrect == Spec => []GeneralizedOnce
<1>1. Init => GeneralizedOnce
  BY DEF Init, GeneralizedOnce
<1>2. ASSUME IInv, [Next]_vars, GeneralizedOnce PROVE GeneralizedOnce'
  <2>1. TypeOK /\ BookkeepingAgrees /\ VisitedIsStackedOrDone /\ CheckedInsideOwner
    BY <1>2 DEF IInv
  <2>2. CASE sccs' = sccs
    BY <1>2, <2>2 DEF GeneralizedOnce
  <2>3. CASE sccs' # sccs
    <3> DEFINE C == Component(Top.fn)
    <3> DEFINE m == Len(sccs)
    <3>1. Exit /\ sccs' = Append(sccs, C) /\ C \in SUBSET Fn
      BY <1>2, <2>1, <2>3, OnlyExitGeneralizes
    <3>2. C \subseteq onStack
      BY <2>1, <3>1, ExitFacts, ComponentIsAbove
    <3>3. \A i \in DOMAIN sccs : sccs[i] \subseteq Generalized
      BY DEF Generalized, SetOf
    <3>4. \A i \in DOMAIN sccs : sccs[i] \cap C = {}
      BY <2>1, <3>2, <3>3 DEF VisitedIsStackedOrDone
    <3> HIDE DEF C
    <3>5. /\ m \in Nat /\ DOMAIN sccs = 1..m /\ DOMAIN sccs' = 1..(m + 1)
          /\ \A i \in 1..m : sccs'[i] = sccs[i]
          /\ sccs'[m + 1] = C
      BY <2>1, <3>1 DEF TypeOK
    <3>6. QED
      BY <1>2, <3>4, <3>5 DEF GeneralizedOnce
  <2>4. QED
    BY <2>2, <2>3
<1>3. QED
  BY <1>1, <1>2, Invariance, PTL DEF Spec
-----------------------------------------------------------------------------
(* What the end of a body gives the promise: at a root the component that is  *)
(* popped, which is strongly connected, and otherwise nothing.                *)
LEMMA ExitPromise ==
  ASSUME IInv, CalleesFirst', Exit
  PROVE  [Promise!Next]_<<links, Generalized>>
<1> DEFINE r == Top.fn
<1> DEFINE n == Len(frames)
<1> DEFINE C == Component(r)
<1> DEFINE R(f, g) == Promise!Reaches(f, g, links)
<1>1. /\ TypeOK /\ BookkeepingAgrees /\ VisitedIsStackedOrDone /\ CalleesFirst
      /\ StackConnected
  BY DEF IInv
<1>2. /\ n \in Nat \ {0} /\ DOMAIN frames = 1..n /\ r = frames[n].fn /\ n \in 1..n
      /\ r \in SetOf(stack) /\ links' = links
  BY <1>1, ExitFacts DEF Exit
<1>3. CASE ~IsRoot(r)
  BY <1>1, <1>2, <1>3, GeneralizedGrows
<1>4. CASE IsRoot(r)
  <2>1. Generalized' = Generalized \cup C
    BY <1>1, <1>4, GeneralizedGrows
  <2>2. C = {g \in onStack : index[g] >= index[r]}
    BY <1>1, <1>2, ComponentIsAbove
  <2>3. r \in onStack /\ \A f \in onStack : f \in Fn /\ index[f] \in Nat
    BY <1>1, <1>2, StackedFacts DEF BookkeepingAgrees
  <2> HIDE DEF r, n, C
  <2>4. r \in C /\ C \in SUBSET Fn /\ C \cap Generalized = {}
    BY <1>1, <2>2, <2>3 DEF VisitedIsStackedOrDone
  <2>5. Generalized \in SUBSET Fn
    BY <1>1 DEF TypeOK, Generalized, SetOf
  <2>6. Promise!Closed(Generalized \cup C, links)
    BY <1>2, <2>1 DEF CalleesFirst, Promise!Closed
  <2>7. \A i \in 1..n : frames[i].fn \in C => i = n
    BY <1>1, <1>2, <2>2, <2>3 DEF BookkeepingAgrees
  <2>8. \A f, g : R(f, g) /\ f \in C => g \in Generalized \cup C
    BY <2>4, <2>5, <2>6 DEF Promise!Reaches
  <2>9. ASSUME NEW f \in C PROVE R(f, r) /\ R(r, f)
    <3>1. f \in onStack /\ index[r] <= index[f]
      BY <2>2, <2>3
    <3>2. R(r, f)
      BY <1>1, <1>2, <3>1 DEF StackConnected
    <3>3. PICK i \in 1..n : R(f, frames[i].fn)
      BY <1>1, <1>2, <3>1 DEF StackConnected
    <3>4. frames[i].fn \notin Generalized
      BY <1>1, <1>2, StackedFacts DEF VisitedIsStackedOrDone
    <3>5. frames[i].fn = r
      BY <1>2, <2>7, <2>8, <3>3, <3>4
    <3>6. QED
      BY <3>2, <3>3, <3>5
  <2>10. \A f, g \in C : R(f, g)
    BY <2>9, ReachesFacts
  <2>11. Promise!StronglyConnected(C, links)
    BY <2>10 DEF Promise!StronglyConnected
  <2>12. Promise!Generalize(C)
    BY <1>2, <2>1, <2>4, <2>6, <2>11 DEF Promise!Generalize
  <2>13. QED
    BY <2>4, <2>12 DEF Promise!Next
<1>5. QED
  BY <1>3, <1>4

(* The search implements ComponentOrder: edges become known only out of       *)
(* functions that are not generalised, and what record_edge's exit and        *)
(* finish_scc generalise is each time one strongly connected component, all   *)
(* of whose references lead into it or into what is generalised already.      *)
THEOREM KeepsPromiseCorrect == Spec => KeepsPromise
<1>1. Init => Promise!Init
  BY DEF Init, Promise!Init, Generalized, SetOf
<1>2. ASSUME IInv, [Next]_vars, IInv' PROVE [Promise!Next]_<<links, Generalized>>
  <2>1. /\ TypeOK /\ BookkeepingAgrees /\ VisitedIsStackedOrDone /\ CheckedInsideOwner
        /\ CalleesFirst'
    BY <1>2 DEF IInv
  <2>2. frames # << >> => current \in Fn /\ current \notin Generalized
    <3>1. frames # << >> => current \in onStack /\ current \in Fn
      BY <2>1, CurrentIsTop, TopType DEF BookkeepingAgrees, Top
    <3>2. QED
      BY <2>1, <3>1 DEF VisitedIsStackedOrDone
  <2>3. sccs' = sccs => Generalized' = Generalized
    BY DEF Generalized, SetOf
  <2>4. ASSUME NEW g \in Fn, frames # << >>, links' = links \cup {<<current, g>>}, sccs' = sccs
        PROVE  Promise!Next
    <3>1. Promise!Learn(current, g)
      BY <2>2, <2>3, <2>4 DEF Promise!Learn
    <3>2. QED
      BY <2>2, <2>4, <3>1 DEF Promise!Next
  <2>5. ASSUME links' = links, sccs' = sccs PROVE UNCHANGED <<links, Generalized>>
    BY <2>3, <2>5
  <2>6. ASSUME NEW f \in Fn, NEW fs \in Seq(FrameType), EnterKind(f, fs)
        PROVE  [Promise!Next]_<<links, Generalized>>
    <3>1. sccs' = sccs
      BY <2>6 DEF EnterKind, Enter
    <3>2. CASE frames = << >>
      BY <2>5, <2>6, <3>1, <3>2 DEF EnterKind
    <3>3. CASE frames # << >>
      BY <2>4, <2>6, <3>1, <3>3 DEF EnterKind
    <3>4. QED
      BY <3>2, <3>3
  <2>7. ASSUME NEW g \in Fn, BackEdgeKind(g) PROVE Promise!Next
    BY <2>4, <2>7 DEF BackEdgeKind
  <2>8. ASSUME QuietKind PROVE UNCHANGED <<links, Generalized>>
    BY <2>5, <2>8 DEF QuietKind
  <2>9. ASSUME Exit PROVE [Promise!Next]_<<links, Generalized>>
    BY <1>2, <2>1, <2>9, ExitPromise
  <2>10. \/ \E f \in Fn, fs \in Seq(FrameType) : EnterKind(f, fs)
         \/ \E g \in Fn : BackEdgeKind(g)
         \/ QuietKind
         \/ Exit
    BY <1>2, <2>1, StepKinds
  <2>11. QED
    BY <2>6, <2>7, <2>8, <2>9, <2>10
<1>3. ASSUME IInv, [Next]_vars, IInv' PROVE [Promise!Next]_Promise!vars
  BY <1>2, <1>3 DEF Promise!vars
<1>4. QED
  BY <1>1, <1>3, Invariance, PTL DEF Spec, KeepsPromise, Promise!Spec
=============================================================================
