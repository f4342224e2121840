# A verification of roo-lang

TLA+ modules for the parts of the roo compiler and virtual machine whose
correctness depends on the order things happen in, TLC configurations that
check them on small instances, and theorems that TLAPS proves for all
instances. Paths below are relative to the repository.

## 1. The system

```
source --lexer--> tokens --parser--> AST --typecheck--> CheckedProgram
                                           |                 |
                                           +--> diagnostics  +--> cli, lsp
          (no code generator yet)    Unit --vm--> values
```

A program is checked in three passes over its items (`typecheck/src/lib.rs`):
`resolve` makes a definition and a scope for each, `lower_signatures` gives each
the type its annotations say, and `check` infers function bodies. All of them
work on one `TypeCheckContext`. The virtual machine is on its own: nothing in
the repository compiles to it yet, so its programs come from tests. The command
line runs the pipeline once; the language server runs it at every change of a
document. Nothing is concurrent: the compiler is one thread, and the language
server's loop takes one message at a time, so what can go wrong is the order of
steps, never a race.

| component | state | operations | what makes it correct | modelled |
|---|---|---|---|---|
| order of checking (`call_graph.rs`, `recursion.rs`, the function part of `check.rs`) | Tarjan's index, low-link and stack; the function being checked and the chain above it; the Rust call stack | check a function; refer to one; check nested functions; finish a component | callees are generalised before callers; exactly the mutually recursive functions together; the type variables of enclosing functions are protected | yes |
| inference table (`inference.rs`) | union-find of variables, their bindings, provenance of each binding | fresh_var, unify, unify_because, bind, snapshot, rollback | no infinite type; unification is sound and most general; a failed attempt leaves nothing behind | yes |
| generalisation and instantiation (`polymorphism.rs`, `generics.rs`) | synthetic generics | generalize_group, instantiate | takes no variable another body still decides; every use is an instance of the signature | yes |
| expressions, statements, patterns (`check.rs`) | types of locals, return and self types | one rule per form | calls fit what they call, in whatever order bodies are checked | the forms that decide types of functions |
| impls and trait objects (`lib.rs`) | impls by target, blanket impls | register, look up | the impl chosen does not depend on attempts that failed; a coercion is one some impl allows | registration, matching, coercion |
| definitions and scopes (`scope.rs`, `defs.rs`, `adt.rs`, `position_index.rs`) | arena of definitions, tree of scopes, spans | declare, look up | the nearest declaration wins; namespaces are apart; repeated names are reported | scopes and names |
| resolution and lowering (`resolve.rs`, `lower_signatures.rs`) | entries that imports copy, impls filed by target | one visit per item and pass | each pass finds the same definition for an item; imports are complete | mostly |
| virtual machine (`vm/src`) | value stack, call frames, heap, instruction pointer | one per instruction | calls keep the callers' stack; references lead to objects; no instruction does something no error reports | yes |
| language server (`lsp/src`) | the text of each open document | open, change, close, requests | its text is the editor's; answers are about what was asked; positions and offsets name the same places | yes |
| lexer (`lexer/src`, `parser/src/literal.rs`) | the place in the text | the longest match, then a callback | tokens stand alone, values are what the text spells | yes |
| parser (`parser/src`) | none | one parser per construct | what is read is what was written | the grammar |
| diagnostics (`diagnostics/src`, the colouring in `cli/src`) | claimed ranges of a message | locate, render, emphasize | what is emphasised is what conflicts | type mismatches |
| interner, checked program, ast, derive macros, the rest of the command line, book | | | | no (section 7) |

How they interact: the checker of a body calls the order of checking whenever a
path names a function, in the middle of the body, so a body can be suspended for
another at any reference. It calls the inference table for every type it meets.
When the order of checking finds a component complete, generalisation reads and
binds variables of the table while the bodies that wait for the component are
half checked. Impl lookup runs unification between a snapshot and a rollback.
The three passes share no list of definitions: lowering and checking look an
item up again by its name, in scopes that imports have changed since. The lexer
hands over tokens and the parser converts literals from the same text a second
time. The language server runs all of it on every change, between messages that
wait in its channel.

What is hard: the *order* in which bodies are checked is the order references
happen to be met, so the same program written in another order takes another
path; state read before a nested check is used after it; a unification may fail
half way with variables bound; a rollback takes variables back whose numbers are
issued again; a name is looked up in a scope that has changed since it was
declared; an editor goes on editing while its requests wait; and in the machine, locals, temporaries and arguments share one
stack, with nothing but a convention between them.

## 2. Modules

| module | models | lines |
|---|---|---|
| `ComponentOrder` | *abstract*: what the search promises: components are learnt one at a time, each is closed and strongly connected | the promise behind `call_graph.rs`, `recursion.rs` |
| `CheckOrder` | the search itself: bodies checked on demand, Tarjan run along with it | `call_graph.rs`, `recursion.rs`, `check.rs:1028-1220` |
| `InferenceTable` | variables, unification step by step, snapshots | `inference.rs`, `lib.rs:784-816` |
| `VmValue` | operations on values: integers of fixed width, booleans, floats | `vm/src/value.rs` |
| `Vm` | every instruction, with its errors and panics | `vm/src/lib.rs`, `instructions.rs` |
| `VmDiscipline` | the convention between caller and callee that the machine relies on, and what it buys | `vm/src/lib.rs:338-371` |
| `Names` | the three passes over items: declarations, imports, impls, self parameters | `scope.rs`, `resolve.rs`, `lower_signatures.rs`, parts of `lib.rs` and `check.rs` |
| `Typing` | what checking makes of types: expressions, generalisation, instantiation, impls | `check.rs`, `polymorphism.rs`, `generics.rs`, `lower_signatures.rs`, `lib.rs` |
| `Lexer`, `Literals` | the token table and its callbacks; the values of literals | `lexer/src/token.rs`, `lexer/src/lib.rs`, `parser/src/literal.rs` |
| `Peg`, `Grammar` | the combinators (external); every parser of the grammar | `parser/src` |
| `ParseCheck` | programs as pairs of a tree and its tokens | `ast/src/lib.rs` |
| `LineIndex`, `LspServer` | positions against offsets; the server, its channel and an editor | `lsp/src` |
| `Diagnostics` | the emphasis in the message of a type mismatch | `diagnostics/src/lib.rs`, `cli/src/main.rs`, `types.rs` |
| `CheckOrder_proofs`, `InferenceTable_proofs`, `VmDiscipline_proofs`, `LspServer_proofs`, `Lexer_proofs`, `Diagnostics_proofs`, `Names_proofs` | theorems about the modules they are named for (`VmDiscipline_proofs` also about `Vm`, `LspServer_proofs` about `LineIndex`) | |
| `Induction` | induction and definition by recursion over the natural numbers, for the proofs | |
| `MCCheckOrder`, `MCInferenceTable`, `MCVm`, `MCVmDiscipline`, `MCNames`, `MCTyping`, `MCLexer`, `MCParse`, `MCLspServer`, `MCDiagnostics` | instances for TLC | |

`CheckOrder` instantiates `ComponentOrder` with the union of its completed
components and is checked to implement it. `Vm` extends `VmValue`, and
`VmDiscipline` extends `Vm` with a history variable. `Literals` extends `Lexer`,
`Grammar` extends `Peg` and is extended by `ParseCheck`, and
`LspServer` extends `LineIndex`. `Typing` is `InferenceTable` and `CheckOrder`
put together with what bodies say, at a larger grain: one step checks an item
with all it reaches.

### CheckOrder and ComponentOrder

`frames` is the Rust call stack: one record per body being checked, with the
caller's low-link holder (`from`), the `current` that `checking` saved
(`parent`), the nested functions it has still to check, and whether the body is
still being read (`inBody`) or its nested functions are. `index`, `lowlink`,
`onStack`, `stack`, `nextIndex`, `sccs` are the fields of `SCCCollector`;
`current` and `ancestors` those of `RecursionTracker`. `agenda` holds the items
`check_items` has not reached.

| action | code |
|---|---|
| `StartItem`, `SkipItem` | `check_function` / `check_impl` on a new item, on one already visited or without a body |
| `ReferenceUnvisited`, `ReferenceVisited`, `ReferenceUntracked` | a path in a body: `check_referenced_fn` recurses, notes a back edge, or finds no item |
| `CheckNested`, `RevisitNested` (each with `TakeNested`) | `check_nested_functions` after the body |
| `Exit` | `SCCCollector::exit`, the restoring of the tracker, `pull_lowlink`, and the component handed to `generalize_group` |

What a body refers to is chosen at each step among the functions a path can name
there (`Visible`). So one behaviour is one program in one source order, and TLC
explores all of them; the edges walked are the history variable `links`.
`untracked` records references that leave no edge (to methods).

### InferenceTable

One action is one call of `unify_impl`; `work` is what its recursion has still
to do, in order. A failing call empties `work` and leaves the bindings, as the
`?` operators do. The arena of types is fixed in advance (`Kind`), each type
naming a constructor and its arguments. The code only ever adds types to its
arena, and a type whose variables do not exist yet cannot be unified (`Known`),
so a fixed arena with every type a run may build is the same thing. A struct that is
named before its fields are lowered has fewer arguments than later, when the
generics made for its fields are there; `unify_impl` zips what both have, so the
arena allows constructors with different numbers of arguments, and `Alike` and
`LetThrough` say which of them are not compared. `Snapshot`,
`Unify` and `Commit` or `Rollback` are `speculatively` around `impl_matches`.
`agreed` is a history variable: the pairs of types `unify` has returned Ok for, as
of the snapshot again after a rollback.
Recursive walks (`occurs`, the variables of a type, "no infinite type") are
stated as quantification over closed sets of types: that is equal to the walk
where the walk ends, is defined where it would not, and can be proved about.
The external crate `union_find` is modelled by what it does: unions
pick a root and rollback restores roots, bindings and the number of keys.

### VmValue, Vm, VmDiscipline

One action is one turn of the loop of `execute`. `OperandFault` is the first
operand that is missing or of the wrong kind, in the order the code pops them,
and leaves the operands above it popped. `Checked` tells a build with overflow
checks and debug assertions from one without: with them a subtraction below zero
is a panic, without them it wraps (a wrapped frame top is a negative number
here: no stack is that deep, so comparisons come out the same). Integers are of
`Width` bits; a float is one opaque value whose comparisons may come out either
way. Strings are sequences of bytes in which `"~"` continues a character.
`ProgramsAssumption` says what Rust's types make sure of in a `Unit`: strings are
whole, operands are unsigned, constants are no references.

`VmDiscipline` says what a code generator owes the machine: `Disciplined(u)`
holds when every instruction of every function has one depth, reached by every
path to it, at least what the instruction takes, with function ids pushed where
they are called, and locals below the depth. `kept` is a history variable: the
caller's part of the stack at the time of each call.

### Names

The state of the checker is one record, `cx`, as in the code. The program is
written while it is resolved: each step of the first pass chooses the next item
from a family of `Forms` and where it stands. So all programs of a family are
explored, in every order of their items. The passes that follow take one item per step. `use`
copies the entries a scope has at that moment; which definition each pass found
for an item is kept, and compared.

An item knows the item it stands in (`up`) and all it is inside of (`around`). The
tree of a `use` is flattened into its branches in the order `lower_use_tree` walks
them, each with the branch whose group it is in. A scope has an entry for every name
in each namespace, `NoDef` where the code's maps have none. `taken` is a history
variable: whether an import has replaced an entry of something else, after which
later passes can find that instead. `Self` is a word of the language: no item has it
for a name, and no branch of a `use` mentions it.

Some behaviours that the model makes plain and no document speaks of: a tuple or
unit struct imported by name brings its type and not its constructor, while a
glob brings both; items of impls, modules and traits inside function bodies are
never checked; a generic parameter of an impl that is named like an associated
type satisfies the check that the type is there; an impl through an alias that is
declared later, and an impl on a self type that does not resolve, are filed as
blanket impls; a primitive type cannot be shadowed.

### Typing

`cx` is again one record: bindings of variables, generics, definitions, locals,
the chain of functions being checked, and the collector of the call graph.
`check_function` is what `CheckOrder` has step by step, here with the bodies that
decide where it goes. Each operator is a handler of `check.rs` and returns the
context with a type. Errors are a set of kinds.

The model also shows, where no document says otherwise: the mismatch of a `let`
pattern with its type is dropped (`check_pat`); `return;` is not compared with
the return type; and a variable bound to `!` accepts anything from then on.

### Lexer and Literals

One step is one token. `Longest` is what the generated table does: the longest
candidate, and among equals the one of the highest priority. The callbacks go on
from there. A text is a sequence of bytes; a byte is named by its
character, or by its code (`"<22>"`) where that is easier to write. The words and
symbols of the table are sequences of bytes too. `Literals` converts what the lexer has
found, on the same text: a conversion gives the set of its one value, or the empty set
where the code has a `todo!()`, which ends the program. `IntLimit` stands for 2^128. `\u` in a
string passes over the character after it whatever that is, so the value of a string is
required to be the text it should be only where a brace stands there (and no sign after
it, which `from_str_radix` takes); a code that is none of a character panics, and so does
`0x_`, which has no digits.

### Peg, Grammar, ParseCheck

A parser is a record and `Run` does what the combinators of the library do; the
grammar is data. A choice is ordered and is never taken back once it has
succeeded, which is what most of the hazards come from. `ParseCheck` builds a
program outwards from a leaf, as the tree that is meant and the tokens it is
written with, and the tokens must be read back as that tree. Programs avoid what
the grammar plainly has not: `Vec<Vec<int>>` ends in one token for a shift and
never closes, an outer doc comment is accepted nowhere, and `1..5` as a pattern
is a range expression. `family` is the set of constructs a program is built from.

### LineIndex and LspServer

The editor keeps to the protocol and goes on while its messages wait in `inbox`;
the server takes one at a time. What the server sends is applied to the editor's
state at once, since one channel's delay stands for both. A message carries one change or several, each of what the
last one left; `Rewritings` has what they make of a text. The front end is a
parameter (`Outcome`, `Spans`): a function of the text. One action is one message:
`DidOpen`, `DidChange`, `DidClose`, `Hover`, `InlayHint`, `UnknownRequest`,
`UnknownNotification`, `MalformedParams`, `Shutdown`, and `ChannelClosed` for the
end of the loop. A text is a sequence of characters with their widths in bytes
and in units of UTF-16.

The server announces that it wants whole texts and also handles ranges, so the
editor sends both. A position on the line after the last is taken for one on the
last line, and one past the end of a line for the start of the next. A text that
does not lex has its diagnostics cleared. A panic of the checker is caught
(`"Panics"`). The `todo!()`s of the parser for literals are outside `catch_unwind`
and end the server (`"Valueless"`): whichever message has the text parsed leaves it
`"Crashed"`, a change with the document taken out of the map. The history variable
`hadValueless` says whether the editor has had such a text.

### Diagnostics

`Init` is a mismatch: two types, and the parts unification stopped at
(`Conflict`). `Emphasize` searches the text of the message for one of them, as
text; `Report` is the command line, which colours the ranges found.

## 3. Runs

One run for each component, with one property for each thing that can go wrong
in it: where a property is a conjunction, its parts are definitions of their own
in the module, each with its comment.

| run | instance | question | answer |
|---|---|---|---|
| `order_siblings` | `b` and `c` inside `a`, `d` beside, every way they can refer to each other in every order | Are components found right, and is what they are generalised with protected? | The search implements its abstract specification (`KeepsPromise`): every step learns one component, closed and strongly connected, or stutters. Callees come first (`CalleesFirst`), five records of what is in progress agree (`BookkeepingAgrees`), and no variable of a function around a component is taken (`EnclosingInContext`). The inductive invariant of the proofs holds (`IInv`) |
| `order_impl` | a method with a nested function, a trait method without a body, two free functions that may refer to each other and themselves | Does checking end? | Every body is generalised, and the stack is empty (`AllGeneralized`), also where references recurse through cycles |
| `order_methods` | two methods that call each other | Do mutually recursive *methods* generalise together? | **No** (section 6) |
| `infer` | structs, functions of two arities, a generic and Never over three variables; any sequence of unifications, with or without a reason, mixed with impls that are tried and rolled back | Is unification right, also half way, and does a failed attempt leave anything behind? | No infinite type (`NoInfiniteType`); an Ok makes the types agree, and whatever follows they stay so, unless a rollback goes back to before it (`SuccessAgrees`); no step gains or loses a solution (`MostGeneral`); bindings are final (`BindingsStand`) and have a reason unless they were made without one (`Explained`). Keys and variables match although keys are issued again (`KeysMatch`), and nothing mentions a variable taken back (`NothingDangles`). Every call returns (`UnifyReturns`) |
| `vm_objects` | programs nobody compiled, in a build without checks | What holds of any program? | Values fit their types (`TypeOK`), references lead to objects (`NoDanglingRef`), strings are whole characters however they are cut and joined (`StringsWhole`), an object keeps its kind and an Adt its size and tag (`ObjectsKeepShape`) |
| `vm_calls` | programs that keep the convention, with overflow checks | Is the convention enough? | Depths are what the program says and callers keep their stack (`CallersKept`), a return leaves it with the result on top (`ReturnsToCaller`), and no error but a fault of the values themselves happens (`NeverMisuses`) |
| `names` | five families of items: repeated names, imports of five kinds, impls through aliases, self parameters, bounds | Does each pass find what the others found, and are gaps reported? | Repeated names are reported exactly, and types and values stay apart (`RepeatsReported`); the passes agree on each item (`SameInEveryPass`); a glob is complete unless its module imports later, and no generic is imported (`ImportsRight`); impls are filed under the type they are for if it is known by then, what is missing or too much in one is reported, and self is compared when the trait comes first (`ImplsRight`). The globs and impls that are written too early are exceptions of the properties, not of the programs |
| `typing` | two functions with about thirty bodies each, in both orders; a function inside another; structs and enums with typed and untyped fields; trait objects with up to two impls | Does what is inferred depend on the order of the file, and is what is accepted right? | It does not (`OrderDoesNotMatter`), and calls give functions what they take (`CallsMeetTheirFunctions`): both but for a call whose arguments bind the parameter that it calls, where `check.rs:821` drops a mismatch (section 6); uses are instances of signatures (`UsesAreInstances`); no variable is left and no generic leaves its function (`SignaturesStandAlone`); a coercion is one some impl allows, whichever is tried first (`CoercionsHold`) |
| `lexer` | every text over the characters of one kind of token, for six kinds, and codes at the bounds of the characters | Do tokens end where they should, and mean what they spell? | A token does not depend on what follows it, the longest match wins, ranges keep their bounds and nothing is lost (`TokensRight`); strings close at the first quote that is not escaped, comments nest, values are those of the text with `\u{..}` decoded, and only what is malformed panics (`LiteralsRight`) |
| `parser` | programs built outwards, two or three constructs deep, of three families | Is what was written what is read? | Yes, and where struct literals are not allowed the rest is read the same (`RoundTrip`) |
| `lsp` | two documents with characters of every width, two edits in one message, requests, a text over which the parser panics, a message that cannot be read, shutdown, an editor that goes | Is the server's text the editor's, and are its answers about what was asked? | When nothing waits, texts are the same, edits never panic, and the parser does only over a literal of a text the editor has had (`TextsAgree`); until then diagnostics are shown at the right places (`ShownAreCurrent`); places are kept and no offset cuts a character (`PlacesKept`). Answers are about the text at the time of the question (`AnswersMeetQuestions`) and in turn (`AnsweredInTurn`). All are answered, diagnostics settle, and the server ends, unless the parser, a message that cannot be read or the wait for `exit` has ended it first (`ServerKeepsUp`) |
| `diagnostics` | every pair of types of three levels over three names | Are both conflicting parts found? | In places of their own that read like them, and the message is printed whole (`EmphasisShown`) |

### Bounds and why they are enough

* Four functions, two of them siblings: the smallest number with a component of
  three and a function outside it, two components of two, a reference from a
  finished component to one below, and a nested function that is checked by its
  sibling before the body around it comes to it. The search ends of itself, so
  there is no bound on steps: a repeated reference changes nothing the second time.
* `Vars` bounds the calls of `fresh_var`: three variables give chains of unions
  and cycles through two bindings. The arena holds the types that make the
  interesting failures: a variable inside itself through a struct or a function,
  arities that differ, a generic, Never. Variables taken back by a rollback count,
  so a run issues a key twice. `Ground` bounds the solutions `MostGeneral`
  compares; it is closed enough to have solutions and to lose them.
* `Width` 4: sixteen integers. `NumberUnits` of `MCVm` has the least of them and -1,
  and every operation that may overflow on them, with shifts below, at and beyond the
  width. `StackBound`, `FrameBound` and
  `HeapBound` stop programs that never end; they are above what a program of the
  families without a loop uses. The program families of `MCVm` are every
  continuation of a fixed beginning by three or four instructions out of about
  ten; `MCVmDiscipline` has every body of three building blocks that
  `Disciplined` accepts, and the mutually recursive `is_even` and `is_odd` of the
  tests in `vm/src/lib.rs`.
* Four items a program in `Names`: an import, what it names, what it hides and the
  module between them. The families keep kinds of items apart that do not meet;
  `MaxItems` is the size of the arrays and bounds the chains of aliases, each link of
  which is an item.
* The programs of `MCTyping` have two functions, or three where one is nested;
  bodies are the expressions over the parameters and functions in scope, two
  calls deep. The parameter of a function of one parameter is also called with
  arguments that bind the parameter itself, for the case of section 6.
* Texts of four to seven characters over the alphabet of one kind of token: two
  tokens that meet and what could join them. Programs of two or three constructs
  in the parser's run put every construct of a family into every place of every
  other of that family.
* `MaxSent` 3, where each change of a message counts (`Weight`): opening a document
  and two changes of it, in one message or in two, or a change, close or question
  that waits behind another. `MaxLen` keeps texts to three characters, with a line
  feed and characters of two and four bytes among them. Two of one letter side by side
  stand for a literal without a value, which a text may come to by opening it, by
  inserting and by taking away what was between.
* Five functions in `order_impl`, for a cycle of two beside a body with a nested
  function; the larger instance has the one property of liveness.
* `CHECK_DEADLOCK FALSE` is where the program stops of itself: the machine at
  `Halt`, an error or a bound; lexing, parsing, typing and diagnostics at the end
  of their input; the server when its editor has gone or has sent `MaxSent`
  messages. In the runs of `CheckOrder`, `InferenceTable` and `Names` a state
  without a successor would be a panic of the code, and they look for deadlock.

### Fairness

Everything modelled is one thread that runs until it returns. `CheckOrder` has
weak fairness of `Next`: a behaviour that refers to the same functions for ever
leaves the state as it is, so it is the same as one that stops, and fairness says
that the body ends. `InferenceTable` has weak fairness of `UnifyStep` only: a
call that has begun runs to its return; that the checker calls again is not
assumed. The machine has no fairness, as programs need not end. `LspServer` has
weak fairness of `Serve`: the loop takes a message whenever there is one, and
waiting for `exit` times out; nothing is assumed of the editor. The other modules
have safety properties only.

## 4. Proofs

| theorem | says | checked in |
|---|---|---|
| `Invariance` | `Spec => []IInv` of `CheckOrder` | `order_siblings` |
| `BookkeepingCorrect`, `CalleesFirstCorrect` | the invariants of the same names | `order_siblings` |
| `TypeCorrect`, `CheckedInsideCorrect`, `GeneralizedOnceCorrect` | types; a nested function is checked inside all its enclosers; no function is generalised twice | parts of `IInv` or consequences of it |
| `EnclosingCorrect` | the action property `EnclosingInContext` | `order_siblings` |
| `KeepsPromiseCorrect` | the refinement `KeepsPromise`: `CheckOrder` implements `ComponentOrder` | `order_siblings` |
| `TableInvariance`, `TableTyped` | `Spec => []IInv` of `InferenceTable`, and its types | their parts, in `infer` |
| `NeverInfinite`, `KeysStayMatched`, `NeverDangling` | `NoInfiniteType`, `KeysMatch`, `NothingDangles` | `infer` |
| `BindingsAreFinal` | the action property `BindingsStand` | `infer` |
| `EverythingExplained`, `SuccessMeansAgreement` | `Explained`, `SuccessAgrees` | `infer` |
| `UnificationIsMostGeneral` | the action property `MostGeneral` | `infer` |
| `MachineTyped`, `ReferencesLead`, `StringsStayWhole` | `TypeOK`, `NoDanglingRef`, `StringsWhole` of `Vm` | `vm_objects` |
| `ObjectsStay` | the action property `ObjectsKeepShape` | `vm_objects` |
| `CallersKeptCorrect`, `NeverMisusesCorrect` | `CallersKept`, `NeverMisuses` of `VmDiscipline` | `vm_calls` |
| `ReturnsToCallerCorrect` | the action property `ReturnsToCaller` | `vm_calls` |
| `PlacesRoundTrip` | `RoundTrips` of `LineIndex`, for every text | part of `PlacesKept` |
| `ServerAnswersInTurn` | the invariant `AnsweredInTurn` of `LspServer` | `lsp` |
| `TokensAreRight` | the invariant `TokensRight` of `Literals`, about the lexer's tokens | `lexer` |
| `LiteralsAreRight` | the invariant `LiteralsRight` of `Literals` | `lexer` |
| `BothPartsEmphasised` | the invariant `EmphasisShown` of `Diagnostics` | `diagnostics` |
| `NamesOnRecord` | `Spec => []WalkInv` of `Names`: the records the three passes keep | what the next four rest on |
| `RepeatsAreReported` | the invariant `RepeatsReported` | `names` |
| `GenericsAtHome` | two parts of `ImportsRight`, which need nothing of the program's names | parts of `ImportsRight` |
| `EveryPassSeesTheSame` | the invariant `SameInEveryPass` | `names` |
| `ImportsAreRight` | the invariant `ImportsRight` | `names` |
| `TextsAlwaysAgree`, `AlwaysShownCurrent`, `AnswersAlwaysMeet`, `PlacesAlwaysKept` | `TextsAgree`, `ShownAreCurrent`, `AnswersMeetQuestions`, `PlacesKept` | `lsp` |

### From which assumptions

TLC evaluates each assumption on every instance it checks.

* `CheckOrder`: any finite or infinite set of functions and any nesting
  (`NoFnAssumption`, `ProgramAssumption`, and `EnclosingAssumption`: nesting is a
  forest, and functions nest in functions with bodies).
* `InferenceTable`: any arena of finitely many types, in which types are built from
  older types (`ArenaAssumption`; `TyId`s are handed out one after another, and a
  type can only name types it was given), any number of variables
  (`VarsAssumption`), and any calls about types of the arena (`CallsAssumption`).
  `GroundAssumption`, for `MostGeneral` only: a closed type is a constructor applied
  to closed types, finitely many deep.
* The machine: any programs that are `WellFormed`, any width of integers, with and
  without overflow checks. `WidthAssumption` and `BitsAssumption` are facts of
  arithmetic (powers of two are positive and double, every pattern of bits is an
  integer), true of every width; TLC evaluates them at the width it runs. Those of
  `VmDiscipline` are about programs that keep the convention (`UnitsAssumption`),
  which is the subject of the module: nothing in the machine enforces it.
* The language server: any documents, any number of messages and changes, texts up
  to any length over any characters that take one to four bytes and one or two
  units (`CharsAssumption`, `BoundsAssumption`, `TextsAssumption`). `None` is no
  text (`NoneAssumption`; it stands for an absent entry). The front end may find
  what it likes, but at whole characters (`FrontEndAssumption`): its spans are
  those of tokens, which the lexer cuts where `str` allows it.

* The lexer: any texts that are well-formed UTF-8 over any bytes (`TextsAssumption`;
  a `&str` is), and any first integer that does not fit (`IntLimitAssumption`).
* Diagnostics: any set of types that are finite trees of names, tuples and functions
  (`TypesAssumption`: a name has a character, a function a result), over any
  characters that include those the rendering itself writes
  (`CharactersAssumption`). `None` is no range (`NoneAssumption`).
* The passes over items: any number of items (`MaxItems`), any names but `Self` and
  the absent one (`NamesAssumption`: `Self` is a word of the language), and any
  families of items, each an item of the language with its parts of their kind
  (`FormsAssumption`). The programs of the theorems are nested to any depth.

### Along which argument

**The search.** `CalleesFirst` is not inductive. When a component is popped one
must know that no function above its root refers to one below it, and that is
what low-links are for: `LowlinkCoversLinks` says that a link from above a frame
to a function on the stack is covered by the low-link of that frame or of one
above it. When the frame on top finds itself a root, nothing above it has a link
below, and what it pops is closed. This needs `BookkeepingAgrees` (frames are in
the order of the collector's stack) and `VisitedIsStackedOrDone`. `BottomIsRoot`
adds that the item on the agenda is always a root, so that the stack is empty
between items. For nesting, `EnclosersBelow` says that an encloser is below what
it encloses on the collector's stack and, if a frame is between the two, still in
progress; it gives `EnclosingInContext` when a component is popped.

That what is popped is also *connected* is `StackConnected`: a frame reaches every
function above it on the collector's stack, every function there reaches a frame
at or below it, and each reaches the one its low-link names. A function above a
root reaches a lower one by its low-link, unless it is the root. With it each step
of `CheckOrder` is a step of `ComponentOrder` or leaves the components as they
are: only `Exit` of a root changes them, and learns one that is closed and
strongly connected.

**The table.** `NoInfiniteType` is stated without recursion: every set of types
that is not empty has a type none of whose parts is in the set, looking through
bindings. A new binding of a class to `u` adds one edge to that graph. Given a
set without a bottom, follow the new edge down: what is reached from `u` within
it is closed and cannot contain the class, by the occurs check, so it had a
bottom before (`BindingStaysFinite`). A union of two classes, one of them without
a binding, takes no edge that was not there. For rollback, `SnapshotIsOlder`
relates the snapshot to the table: keys were only added, classes merged, and what
was bound then is bound to the same now; so every part a type had at the snapshot
is a part it has now, and a set without a bottom then has none now
(`FewerParts`).

**Unification.** `Explained` becomes inductive with the same said of the table to
go back to, with provenance cut to where it was (`Reasoned`). For `SuccessAgrees`
the invariant is that there is a relation (`Relates`) that holds what was asked
and whose pairs are alike up to the relation, or still to be unified: a
bisimulation up to the work left. Taking two constructors apart adds the pairs of
their arguments to it; binding and uniting keep what is alike alike, in every such
relation; when no work is left it is a bisimulation, and so inside agreement to any
depth. There are three of them (`Agreement`): one with all that was agreed before,
which no later step can spoil, one for the call in progress, which joins it when the
call returns Ok and is dropped when it fails, and one for the table to go back to,
which a rollback makes the first.

`MostGeneral` is about one step and needs the invariant of the table. A solution
gives a type and what it resolves to the same value (`ValResolved`), so what is
asked of the pair at the head of the work is asked of two constructors or free
variables (`OnWork`). Binding and uniting move that demand from the work to the
table (`SolvesBind`, `SolvesVars`), and taking apart moves it to the arguments
(`SolvesHeads`). When the occurs check fails there is no solution
(`OccursUnsolvable`): the values of the types that the variable occurs in would be
a set of closed types none of which is without a part in the set. `Val` is a
recursion over the arena; that it has a value is proved by joining the partial
ones, each on a set of types closed under arguments (`ComputesAll`).

**The machine.** `Machine` is inductive. Its heart is `Held`, the values that can
exist: scalars that fit the width, and references to objects there are. Nothing
takes an object out of the heap, so `Held` only grows, and every step moves values
that are held or makes one: a reference to the object it has just put on the heap,
or the result of an operation, for which one lemma per operation says that it fits
or is an error (`BinaryResult`, `UnaryResult`; the quotient of two integers fits
but for the least one by -1, `QuotientFits`). One lemma per way a step ends
(`QuietStep`, `GoesStep`, `YieldsStep`, `AllocatesStep`, `WritesStep`) carries
`Machine` over it, and each instruction is one of them. Strings stay whole because
a character of a joined string is one of either part, and both ends of a slice are
checked to be boundaries (`JoinedIsWhole`, `SliceIsWhole`).

**The convention.** `Convention` is `Machine`, `CallersKept` and `NeverMisuses`:
while the machine runs, the stack above the frame is as deep as the program says at
this instruction, so that operands are there; below it nothing changes. An
instruction other than a call or a return is local to the frame (`Local`, one lemma
per way a step ends again). A call puts the depth its callee starts with above what
the caller keeps (`CallMove`); a return takes the frame off and finds the caller's
depth after the call (`RetMove`), which is what `ReturnsToCaller` says.

**The line index.** `Count` is a recursion over the characters of a text; it adds
up over two stretches, and grows, since a character takes at least one byte and one
unit (induction over the length). So a byte offset is that of one place, the number
of line starts at or before a place is its line, and the editor's count of line
feeds is the same number.

**The language server.** That the n-th answer is the answer to the n-th question
is not inductive: it depends on what waits in the channel. `Questions` says of the
requests there that their ids grow from head to tail and are exactly those between
the number of answers and the number of questions. So the request at the head has
the next id (`HeadIsNext`); taking anything else from the head (`NotedLeaves`),
adding at the tail (`NotedJoins`, `QuestionJoins`) and answering
(`QuestionAnswered`) keep it. It is claimed while the loop runs; afterwards
`answers` does not change.

That texts agree is not inductive for the same reason. `Served` says that there is
a `History`: one state of all documents before each message that waits and one
after the last; it begins with the server's texts and ends with the editor's, each
message does to it what the server will do unless it crashes, and each request is
about the state before it; a text that waits without a value is one the editor has
had. The server's step drops the first state, the editor's adds one. That a
message of any number of changes leaves on the server what the edits left in the
editor is an induction over its changes (`Rewritings` against `Applied`), each of
them by the round trip of the line index. What is shown and what is answered follow
from the state the server is in.

**The lexer.** `LexInv` says that each piece is what `Lex` gives at its start in the
whole text, that pieces begin where the one before ends, and that both ends are
boundaries of characters. That a piece stands alone is then a statement about two
texts: what `Lex` finds in a text it finds in the part of it that it found
(`LexInPart`). It rests on one lemma for each pattern of the table and each scan by
hand about the scan in a part of a text (`ShapeInPart`, `StringInPart`,
`RawStringInPart`, `CommentInPart`, `NumberInPart`, ...), and on the longest
candidate being the only longest one of its priority (`OneLongest`, `LongestInPart`).
The scans are recursive functions that look ahead only: that they exist is `Later`
of `Induction`, and what they do is shown from the end of the text backwards
(`Downwards`). `LongestWins` compares neighbours: two symbols that meet in the text
are no symbol (`PairsAreNotOne`). `CommentsNest` compares the scan, which counts
openings, with a definition that descends into each
(`CommentEndsWhereItsBodyDoes`).

**The literals.** `LiteralInv` says that each value is among what its token's text
gives, that nothing is converted before the whole text is lexed, and that the parser
panicked only at a token that gives nothing. The rest is about one text that stands
alone, so that the lexer's shape of a token (a quote closed by the first unescaped one,
hashes of equal number on both ends, a prefix with digits of its radix) is what the
conversion starts from. A string is read from its end backwards: from a place that is
not escaped, what is made has one character for each meant one from there on, at its
count (`MeantFrom`, `OneMoreDecodes`). A `\u` is one such character for all the bytes up
to its brace (`CodeEndIs`): its digits read one after the other weigh what the property
adds up (`CodeIsRead`), and as they are digits of radix 16 no escape can begin among them,
so that reading goes on at a place that no code reaches (`Free`). A raw string is its
text again when it is put back between its quotes. For integers the code adds digits
up from the left and `Worth` weighs them from the right: at each place the sum so far,
times the weight of that place, and the worth of what follows make the same number
(`Weigh`, `SumsAreEqual`), underscores passed over on both sides.

**Diagnostics.** Where a conflict stands in the types is a recursion over pairs of
types, shown to have a value by induction on their height (`SomethingConflicts`); the
text of a part is part of the text of the whole (`ArgumentsStand`,
`ConflictStands`), so the first search succeeds, and in the first type or before it.
The second search passes over what the first claimed and finds its part in the second
type at the latest, which stands after that (`SecondIsFound`). `EmphasisInv` says how
far the searches have come. Since ranges do not meet, what the command line prints
without the colours is the message (`EmphasizePaints`).

**The passes over items.** Every pass looks an item up again by its name, so all
that is promised depends on what the scopes hold in the meantime. `WalkInv` says so
in three layers. `Arena`: scopes, definitions and impls name each other inside their
tables, the parent of a scope is an older one, and every entry is of the kind its
namespace says. `Record`: a resolved item has a scope and, if it is named, a
definition that no other item has, and it is reported exactly if it repeats a name;
if nothing is reported and nothing taken (`Clean`), the scope around it still has its
name lead to its definition. `Books` is what holds between two declarations: a scope has
an entry for exactly what the text has declared in it so far. Resolution does not
enter impls; lowering opens them, and resolves what is in them then, by a recursion
whose steps each keep `Books`. That a name is reported exactly when it repeats
(`RepeatingIs`) follows from `Books`, since what `declare` finds in the scope is what
the text has put there.

For `SameInEveryPass` one assumes a `Clean` context, which can only have been clean
before (reports and `taken` only grow). Then each look-up by name finds the item's own
definition (`FoundOwn`), if the walk is in the scope the item was declared in: `AtOwn`
and the chain of items around it. `SeenInv` says how far each pass has come and that
what it has come to was found as its own; `checked` and `collected` are marks on
definitions, and no two items share one. For `GlobsComplete`, `GlobsInv` keeps of each
glob that all the scope it names holds has arrived, or that a `use` stands in that scope
further on: entries stay once made (`GlobsKeep`), so the only step that can spoil a
complete glob is a later use in that scope, which is the exception stated
(`GlobUsed`).

## 5. What is only model-checked

* `AllGeneralized`, `UnifyReturns`, `ServerKeepsUp`: liveness under fairness, which
  the provers do not do.
* `ImplsRight` of `Names`: what an impl is filed under is found through aliases,
  which may refer to aliases. That this walk ends is a bound on the length of a
  chain without repetition, over definitions that lowering fills meanwhile.
* Everything about `Typing`, `Peg`, `Grammar` and `ParseCheck`: they walk syntax and
  types with recursive operators, which the provers do not take. Recursive *functions*
  they do take, where the proof supplies the induction: the library's induction
  theorems have an operator for a parameter, so `Induction` states induction for a
  set of numbers, from the least element of a set.

## 6. Where the code and what is said of it part

The run `order_methods` checks a sentence of the documentation and finds the code
at odds with it. The documentation of `RecursionTracker`
(`typecheck/src/recursion.rs:6-8`) says that strongly connected components are
found "so that mutually recursive functions can be generalized together once
their whole SCC has been checked". `items_by_def` is filled from functions and
modules only (`check.rs:1188-1220`), so `check_referenced_fn` (`check.rs:1117`)
finds no item for a method and returns: no edge is recorded, the method referred
to is not checked first, and two methods that call each other are generalised
one by one.

What the models showed besides, mostly on programs the runs above leave out. No run
checks these; they are noted for the reader of the code.

* `polymorphism.rs:48`: only the variables of the signatures of enclosing
  functions are protected, so a nested function that uses a `let` of unknown type
  takes that type as a generic of its own.
* `polymorphism.rs:85`: a nested function and the one around it may both name a
  generic `T`, and both stand in one signature.
* `polymorphism.rs:240`: the use of a function with generics of its own also
  replaces those of the functions around it.
* `inference.rs:389`: the arguments of a trait object are not instantiated.
* `check.rs:821`: a call of a parameter is accepted although its arguments bound
  the parameter to what is no function of them. So whether a program is accepted can
  depend on the order of its functions: of `fn f(x) { x(g(x)) }` and
  `fn g(y: Fn(int) -> int) { (y, f) }` it does. (The programs of `typing` have such
  calls; the properties name them as their exception.)
* `lower_signatures.rs:318`: an import takes the place of an item of the same name
  without a diagnostic.
* `lib.rs:1048`: a module named where a type is expected panics.
* `lib.rs:418`: `T::show` does not resolve through a bound.
* `lower_signatures.rs:181`: an impl before its trait is told that the trait
  declares no self.
* `token.rs:214`: `t.0.0` has the float `0.0` in it.
* `literal.rs:26`, `30`, `33`, `76`: a literal without a value panics, and in the
  language server (`lsp/src/main.rs:185`, `211`, `237`) nothing catches that.
* `pat.rs:140`, `expr.rs`, `item.rs`: `1 | 2` as a pattern is one expression; a
  closure written `||` and the visibility `pub(super)` are not read.
* `diagnostics/src/lib.rs:320`: the first text that reads like the conflicting
  part is emphasised, which may be another part.

## 7. What is not modelled

* The libraries `logos`, `chumsky`, `lsp_server`, `union_find` and `fluent`: by
  what they do for the code only. The parser's error recovery and spans.
* The syntax tree is data, the derive macros generate code, the book is text. The
  interner is a table that is only added to: a symbol stands for its name here.
  `CheckedProgram` is a copy of the result, with queries that change nothing, and
  `PositionIndex` a list of spans for them.
* Expressions whose rule reads no state that others change: operators, casts,
  loops, ranges, closures' captures. Method calls and qualified paths: their lookup
  walks bounds and impls and is the largest part of `check.rs` still left out.
* The wording of diagnostics, their notes and related places, and their locales.
* What a float holds: comparisons of floats may come out either way.
* Closures and boxed values of the machine's heap: no instruction makes one.

## 8. Plan

Done: every module of section 2, and a theorem for every safety property that the
runs of the order of checking, the inference table, the virtual machine, the language
server, the lexer with its literals and the diagnostics check (`order_methods`, which
finds one violated, apart), and for all that the run `names` checks but `ImplsRight`.
What would add most next, in this order:

1. Method calls and qualified paths in `Typing`, composed with the impls and
   bounds of `Names`; supertraits and where clauses.
2. `ImplsRight` as a theorem, from `WalkInv` and a bound on chains of aliases.
3. `Typing` with recursive functions over trees of bounded height in place of its
   operators, and `SignaturesStandAlone` as its first theorem.
