# speroc in TLA+

A verification development for `speroc`, the Spero compiler: models of its grammar
and parser, its name analysis, its code generator, its interactive loop and its
driver of compilations, TLC runs over small programs, texts and sessions, and TLAPS
proofs for all programs about the symbol tables, the name analysis, the code generator
and the driver, and for all lines about the interpreter.

## The system

`speroc` parses a file or a line into a syntax tree, annotates the tree in two
passes over symbol tables, walks it once more to emit LLVM IR, and hands the IR
to `clang` or, in interactive mode, to LLVM's interpreter. It is one thread. What
makes it hard is not concurrency but state that outlives the step that made it:
members of visitors that methods save, restore or leave alone; annotations of one
pass that the next dereferences; an arena and a module that live on from line to
line, failed lines included; and early returns between all of these.

| Component | State | Operations | What makes it correct |
|---|---|---|---|
| Symbol tables (`SymTable.h`, `SymTable.cpp`, `lookup` in `ast.cpp`) | an arena of tables; by name an `SsaVector` of declarations or an index of a table; parents | `get`, `exists`, `insert`, `insertArg`, `setParent`, `mostRecentDef`, `lookup` | declarations are never lost or moved; `self` and `super` stay what they are; parents form a tree; a use gets the declaration its location means |
| Syntax tree and visitor (`ast.h`, `AstVisitor.h`) | the tree, annotated with table indices | the order of the walk, value before name | |
| `VarDeclPass` | current table, context, arena | a visit method per scope and declaration | each scope has a table, each declaration an entry, an error exactly where a name is taken |
| `VarRefPass` | current table, context, `def_table` of each variable | a visit method per scope, variable and assignment | each use is resolved as the scoping rules say, or it is an error; assignments respect `mut` |
| `LlvmIrGenerator` | the last value, the insertion block, the current table, the module, storage of symbols | a visit method per node | calls, slots and arguments are those the names mean; functions return their last expression; the module holds whole functions |
| `AnalysisDriver` | error count, arena, module | parse, analyse, translate, optimise | no phase after an error |
| `ReplDriver` and the loop of `main.cpp` | flags, permissions, tree, `jitfunc` | commands, `addInterpreterAstTransformations`, `interpretLlvm`, `reset` | each line ends, runs its own code once, and leaves nothing but its definitions |
| `CompilationDriver`, `cmd_line` | the error count; `out.ll` and the executables, from run to run | options, the phases, write, clang, remove, exit status | the exit status tells the truth; no file of an earlier run is taken for this one's |
| Parser (`grammar.h`, `actions.h`, `util/parser.h`) | a stack of tree nodes | an action per rule, run when the rule has matched, whether or not the match is given up later | each action finds on the stack what its rule left there; nothing is lost; every error is told; it ends, but for a path cut at its colon |
| `BasicTypingPass` | | nothing constructs it | |
| `tools/test.rb` | | reads the exit status | a run that is called a success has made the executable |

They interact by calls and by shared state only: the passes share the arena and
the annotations of the tree, the driver's phases the error count, the lines of a
session the arena, the module, the tree and the error count.

## Modules

```
SymTable   tables, as operators            Ast   the tree, as a visitor's events
      \______________ ________________________/
                     V
                 Analysis
                 /      \
   Scoping      /        \
       \       /       Codegen
    AnalysisCorrect    /     \
       |       \      /      Repl
   MCAnalysis  CodegenCorrect  \
                     |         MCRepl
                 MCCodegen

   Grammar    ParseNodes            Build   what a run promises
        \      /                      ^
      ParseActions                    | refinement mapping
           |                          |
        Parser                     Compile
           |                          |
     ParserCorrect --- MCParser   MCCompile

Proofs, each above the module whose theorems use it:

        Structures_proofs (of SymTable and Ast)          Compile_proofs
               |                    \
        Analysis_proofs ------ Codegen_proofs ------ Repl_proofs
               |                     \
        Scoping_proofs  (of AnalysisCorrect)
               |                       \
        Resolution_proofs (of AnalysisCorrect)
                         \               |
                        Translation_proofs (of CodegenCorrect)
```

**SymTable** has the operations of the tables as operators on records; a table
maps a name to a record with the two lists of a `Binding` (`SsaVector`, index).
`Get` keeps the binary search for what it is, a search in a list that need not be
sorted, and its two ways around a use before the first declaration. `Lookup` is the
choice of the table a path starts at, `Follow` its loop along the path.

**Ast** flattens a tree into the sequence of events of a walk of `AstVisitor`:
an event opens or closes a node, or stands for a leaf, and links to the event it
belongs with. Locations are laid out from the text order, which is not the order
of the walk: in `let a = e` the name comes first in the text and last in the walk.
`WellNested` is what a walk of a tree has: it leaves every node it enters, and inner
nodes first. `Open` is the nodes around an event.

**Analysis** is the state machine of the two passes: `pc` walks over the events
of `ast`, one action per visit method or two, around the children. What a method
keeps on the C++ stack is in `frames`, with the event of its node. `diagnosed` is the errors logged; its
being empty is `failed()`. `NextInput` analyses a further tree against the same
arena, as a session does.

**Codegen** extends it by the walk of the generator. `codegen`, `insert` and
`current` are the members of that name (`insert` is the function of the builder's
block), `saved` what active methods keep, `operands` what `visitNode` returned to
them. Of the IR, `module` keeps the functions, whether they are complete, their
arity, the calls they make and whose slots and arguments they touch; values have a
type and the event they were made at. Blocks and terminators, constants and
arithmetic are left out. `storage` is `SymbolInfo::storage`, by entry. Where the
generator dereferences a null pointer or hands LLVM operands that fail one of its
assertions, the process is over: `pass = "crashed"`.

**Repl** puts the loop around it. A line is a command with the nodes its parsing
leaves on the stack and the outcome of parsing; `ReadLine`, `ShowOnly`, `Refuse`,
`Transform`, `Passes`, `Interpret` and `Reset` are the phases of
`ReplDriver::interpret`, and the paths that return before `reset` are actions of
their own. Between lines `jitfunc` is taken out of the module; a line may define or call
a function of that name, and where one that stays calls it, taking it out is the end of
the process, as erasing a function with uses is in LLVM.

**Scoping** is the reference the passes are held to. It reads off the tree,
without tables, passes or searching, which declaration a name means and which
errors a program deserves. **AnalysisCorrect** and **CodegenCorrect** relate the
state machines to it.

**Grammar** is `grammar.h` as data: a record from the name of a rule to its
expression, written with the combinators of PEGTL. A text is a sequence of lexemes:
names, keywords and numerals are one lexeme each, every other character its own, so
that `->`, `=>` and `::` are still read character by character, as the operators are.

**ParseNodes** has, for each class of `ast.h`, the classes derived from it and the
members that own nodes, and on stacks of nodes the operations of `util/parser.h`. A
node has its kind, the nodes it owns, the one value that actions ask for (the keyword
of a token, the kind of a name), and `places`, where in the text the names, literals
and keywords stood that it was made from. **ParseActions** is `actions.h`: the effect
of each action on the stack, whether it logs, and its fault if it follows a null
pointer or asks a token for what it does not hold. Actions of one shape (pop a few
nodes and build one; close a bracket; log what is missing) are rows of a table.

**Parser** puts them together as `parseInput` and PEGTL do. `todo` is what is still
to be matched, with an action for each combinator; a failed alternative restores the
position and the mode, and leaves the stack as the actions that ran have made it,
which is the parser's main hazard. `ApplyAction` runs the action of a rule that has
matched. **ParserCorrect** states what comes of it.

**Compile** is a run of the program from `main` to its exit status, one action per
call of `CompilationDriver::compile`, and any number of runs in a directory, whose
`out.ll` and executables are what the next run finds. Any phase may log errors or
throw, the stream may fail, clang may fail and leave the executable or not, `std::remove`
may fail without anyone noticing, and the process may die between any two steps, which
also stands for a phase that never returns. **Build** is what this should look like to
whoever calls it, which is `tools/test.rb`: an executable is made, then there is
success, or there is none. `Compile` implements it under the mapping that a run has made
its executable when it is past clang, without an error and without `-C`.

Operators whose comment starts with "Seeded" are faulty versions of the
definition they stand before: they are how we know that a property notices.

## Runs

| Run | Question | Instance | Result |
|---|---|---|---|
| `analysis` | Are names resolved and errors logged as the scoping rules say? | 5,868 programs | holds |
| `session` | Do the tables stay sound over several inputs, failed ones included? | three inputs in a row | holds |
| `codegen` | Does the module do what the names mean? | 896 programs, `_test` included | holds |
| `repl` | Do lines end, and leave nothing but their definitions? | three lines out of 20 | holds |
| `parser` | Do the actions find their nodes, and is all that is read kept, in order, or an error told? | 512 texts: 27 constructs, each also with every lexeme lost in turn; 37 longer ones, `_test` included; 46 cut or faulty; 26 that the actions do not cope with | holds, save for what the properties name |
| `compile` | Does the exit status tell the truth, whatever failed or was left before? | three runs in a directory | holds |
| `parameter_names` | Is a parameter local to its function? | one program | violated |
| `stale_jitfunc` | Does a line run its own code? | three lines | violated |
| `definition_line` | Does the interpreter live through `let a = 3`? | one line | violated |
| `jump_value` | Does the action of a jump find its keyword? | two texts | violated |
| `else_if` | Does an if keep its branch? | one text | violated |
| `path_cut` | Does `leftovers` go over what it complains of? | one text | violated |

What the passing runs show:

* `analysis`. `ResolvedAsScoped` and `ErrorsDeserved`: the tables, the order of
  visiting and the search come to what the rules say, for every use whose
  declarations were entered in text order. `InScope` and `PassesRestore`: the seven
  methods that save and restore the table and the context by hand always agree with
  the nesting of the tree.
* `session`. `ParentsPrecede`, `KeywordsIntact`, `ScopesAnnotated`, `ReferencesHold`
  and `DeclarationsStay` are also proved; the run shows that they can be broken.
  `ReferencesHold`: a variable that was given a table has a declaration there, which
  `get` finds again, as the generator takes for granted.
* `codegen`. `CallsAsResolved`: binding a call by name alone agrees with the scoping
  rules wherever the name means a function and the program is translated without an
  error, though functions of one name may stand in different scopes. It is not so
  before the end: a call may be bound to a function of another scope that is
  generated first, and only the second definition is then refused. A function
  in the branch of an `if` without `else` is never generated and is left out.
  `StorageAsResolved`: a body uses the slots and arguments of the functions whose
  variables it names. The argument of a constructor is excepted: there
  `visitArgument` gives it whatever value was made before it, and a program among the
  corners (`Scattered`) makes that the argument of another function.
  `ReturnsLast`: no stale value of an earlier statement is returned, the cases apart
  that are listed in `Silent`, where the code leaves the value before in place, a unary `~`
  among them.
  `SymbolsExist` and `SlotsNotShared`: storage belongs to one entry of a vector and
  stays there. Both are said of vectors in source order, which the halving search
  needs; out of order is the vector of a function's name that is also its argument's.
  `BuilderRestored`, and `SuiteCompiles` for the programs of `_test/tests.yaml` that
  are to compile and do. Two that are to compile do not, and the property says that
  each has an error instead: `func_after` calls a function that is generated after the
  call, which leaves `main` without a value and, after the error, a null pointer behind it
  (as in the run `definition_line`); in `func_pointless` two parameters are both `Int`,
  which makes the second a redefinition. `tests.yaml:111-122` expects `return: 7` of both.
* `repl`. `ModuleWhole`: whatever fails, the module between inputs holds complete
  functions that call functions it holds. `DefinitionsSurvive`: later lines do not
  change or remove earlier definitions. `LineLeavesNothing`: a line that was to be
  compiled leaves no error and no node behind, whichever phase refused it.
  `LinesAreOver`: every line comes back to the prompt, or a pass crashes.

* `parser`. Of texts that the actions do not cope with the run has its share (`Faulty`,
  and more among those with a lexeme lost), and the properties name what is excepted for
  them, no wider than the texts below need it. `ActionsFindNodes`: no action follows a
  pointer that is null, although rules that are tried and given up leave their nodes on
  the stack, save for the eight ways of `Waylaid`. `Framed`: the rules that stand for one
  node each leave one more node than they found, until an error is logged, so nothing
  left by them is taken by others, save for `Strays`. `NothingLost`: what was read without an
  error is on the stack as statements, with every name, numeral and `mut`, save for what
  stands beside the name of a parameter (`BesideParameter`), a `mut` that becomes the
  keyword of a jump (`BeforeJump`), and what is left over by an `impl` with `for` or a call
  in an index (`Stray`). `KeptInOrder` and `OperatorsNest`: elements, branches and
  operands come off the stack in the order of the text, operators with the precedence
  declared. `QuietMeansWhole`: what was read without an error has its brackets, and is
  the input, or all of it before an empty line; what follows an empty line and does not
  match is not looked at. `Terminates`: whatever is left over is skipped in the end, or
  the parser is where it was before with a path that was given up (`Spinning`), as for `a:`,
  where it goes round for ever.
* `compile`. `StatusTells`: after exit status 0 the executable is of this program, not
  one an earlier run left, nor one made of an `out.ll` an earlier run left.
  `StopLeavesAssembly`: the same of `out.ll` with `-C`. `ExecutablesSafe`: a program with
  errors does not cost the executable of its last good version. `AssemblySafe`: nor does it
  cost the `out.ll` that an earlier run was asked to keep; it is removed only by a run that
  has its own program there and was not asked to keep it. That `out.ll` is gone after
  a run is not so: nobody looks at what `std::remove` answers (`Remove`). `Implements`:
  the refinement of `Build`.

The violations are disagreements of the code with its documents or comments,
quoted in `PROJECT.json`. In short: parameters are entered into the table around
their function, so two functions of one scope cannot share a parameter name; a line
refused by the generator leaves its `jitfunc` for the next line to run; a line that only
defines a value ends the interpreter on a null pointer; `return 1` takes the parser down;
in `if a 1 else if b 1` the second `if` takes the branch of the first; and `a:` is never
read to its end.

These texts of the run `parser` the actions do not cope with. Its properties except them
by name, and there are runs for the first three:

| Text | What becomes of it | Excepted in |
|---|---|---|
| `return 1`, `break a` | null pointer in `jump`: the value takes the keyword for its own `mut` (the run `jump_value`) | `Waylaid`, `Strays` |
| `if a 1 else if b 1` | the second `if` takes the branch of the first (the run `else_if`) | `Strays` |
| `a:`, `a:1`, `a::A`, `use a:1 as b` | never ends: `leftovers` reads nothing before a letter that begins no statement (the run `path_cut`) | `Spinning` |
| `impl A for B {}` | `for` leaves two tokens, `impl` takes one: a type and a token stay on the stack, against `actions.h:1061` | `Stray`, `Strays` |
| `let a :: A = 1 in a` | null pointer in `_interface`, whose nodes `asgn_in` has taken, against `actions.h:1194` | `Waylaid` |
| `let A = (a :: A) {}` | null pointer: the null that `arg_inf` pops was not the one `arg_sentinel` pushed | `Waylaid` |
| `@!a f` | null pointer: a global annotation is no statement, against `actions.h:1287` | `Waylaid` |
| `let (` | null pointer: the bracket given up lies on the visibility, against `actions.h:1220` | `Waylaid` |
| `a[f(1)]`, `a:b:f[f(1)]`, `use A:B[f(1)] as A` | the arguments are pushed once more and taken for a call of nothing, or a null pointer in `rebind` | `Waylaid`, `Stray`, `Strays` |
| `let a = mut` | `missing_valexpr` takes the token of the `mut`; the visibility asks a keyword for what it is not | `Waylaid` |
| `let A = A(B, { }`, `for (a, `, `match a { (a, ` | null pointer after an unclosed bracket | `Waylaid` |
| `let a = mut loop a`, `let a = mut while a b` | the value within takes the `mut` of the value around it | `Strays` |
| `let a = mut break a` | the `mut` becomes the keyword of the jump, and the keyword its `mut` | `BeforeJump`, `Strays` |
| `(mut a) -> a`, `(a:b) -> 1`, `(a[1]) -> b` | what stands beside the name of a parameter is dropped | `BesideParameter` |
| `use a`, an empty line, `)` | the end of the second line ends the program, and the rest is not read | `QuietMeansWhole` |

The models show more that no document speaks of. In `let a = a + 1` the right `a` is the
left one, as `Scoping` has it too: it stands after the name. A call passes over a variable that
shadows the function, and comes to a function of that name. A variable of a comparison
fails an assertion of LLVM. `:c` runs the file though it takes the permission to interpret
away.

### Bounds

* `Name`: the names of the programs of a run. The code compares names and tests for
  `self` and `super`; two or three names that programs reuse in nested scopes give
  every clash.
* `Programs`: the trees with up to two nested scopes and two or three statements from
  a list with one of each kind. Shadowing, keywords, paths through `super` and types,
  reassignment and redefinition need no more than a declaration, a scope and a use.
* `LineLength`: events per line of text in `Layout`. Any value from 2 on gives
  locations that differ in line and in column.
* `MaxInputs`: inputs of a session. Three are needed for a line to define, a second to
  fail after it and a third to find what the failure left.
* `Names`, `TypeNames`, `Numerals`: the grammar tells names from types, keywords and
  numbers, and nothing in it compares two names; an action tests for reserved names,
  which are keywords.
* `Programs` of `MCParser`: a text for each construct of the grammar, so that each rule
  and each action is at work; a text for each error message; of the 27 small ones, all
  that come of losing one lexeme, which sends the parser down every way of giving up
  halfway; and a text for each way in which the actions are known to go wrong
  (`Faulty`). No text is taken out for what the parser does with it.
* `MaxParts`: parts of a path on the stack. A path cut at its colon gets one more part
  each time round; after four the model stops there, `Spinning` having been found after
  two. The texts have paths of up to three.
* `MaxRuns`: three runs, for one that leaves files, one that fails over them and one that
  finds what both have left; two programs, two executables.
* `Lines`: a line for each command, each outcome of parsing, each phase to fail in.

### Fairness

The process is one thread without locks or waits, so a step that can be taken is taken.
`Repl` has weak fairness of the steps within a line, `InLine`; nothing makes the user
enter a line, and `Prompt` has no fairness. `Parser` has it of each kind of step, since
parsing is one call; that it takes steps for ever is not excluded by it, and `Terminates`
says where it does. In `Repl` a line is one whose parsing has come to an end. `Compile`
has no fairness and no liveness property: its phases include parsing, which need not return.

## Proofs

Everything here holds for every set of names, programs or lines and every number of
inputs, from the assumptions that the modules state of their constants: programs and the
nodes of lines are sequences of events that are `WellLinked` and `WellNested`, `self`,
`super` and, for the interpreter, `jitfunc` are names, and the empty string is none. TLC
evaluates these assumptions in every run.

**Structures_proofs** is about the operators on tables and on walks, and no state. Of tables:

* `UpperBoundStops`: in a vector in any order, the halving search of `get` comes to a
  place between two neighbours, the first not after the use and the second after it;
  `UpperBoundCounts`: in a vector in text order that place is the number of declarations
  that do not come after the use. So what `std::upper_bound` is used for is right exactly
  as far as the vector is sorted.
* `GetStaysInVector`: whatever the order, `get` returns an entry of the vector, one that
  comes after the use only as the first and outside function scopes.
* `MostRecentDefClimbs`, `LookupStaysInArena`: in an arena whose parents precede their
  tables and whose names for tables name tables of it, the climb satisfies the recursion
  the code has and ends at a table that binds the name or at none, and following a path
  stays in the arena.

Of walks: which nodes are open after an event that opens, closes or does neither, that the
nodes around an event are a chain with an innermost one, and that a stack that is pushed
where a node of some kinds opens and popped where it closes always holds the open nodes
of these kinds, innermost first (`StackOf`).

The search, the climb and the loop are recursive functions. Each proof first shows, by the
least counterexample, that the function exists on the places it is defined for, and from
its equation what it comes to.

**Analysis_proofs** is about the passes, over any sequence of programs.

* `Typed`: `Spec => []TypeOK`, in particular that the passes are always in a table of
  the arena, and every frame holds one;
* `ParentsArePreceding`: the parents form a tree, so that `mostRecentDef` ends;
* `KeywordsStayIntact`: no sequence of programs rebinds `self` or `super`, and no other
  name is ever bound to a table;
* `ScopesAreAnnotated`: the optionals that `VarRefPass` dereferences hold a value;
* `DeclarationsAreKept`: no step removes or moves a declaration;
* `ReferencesDoHold`: what `VarRefPass` leaves in `def_table` finds a declaration again.

The argument is one inductive invariant (`Inductive`), the conjunction of the first
four. None is inductive alone: that a table's parent precedes it needs the current
table to be in the arena, which is type correctness; that the frames restore tables of
the arena needs that it only grows; that a block's table exists when it is entered a
second time needs the annotation of the first; that lookup comes to a table of the arena
needs the parents and the keywords. Each action is a step, and the actions that allocate
share lemmas about a table appended to the arena, those that insert lemmas about `Insert`,
`InsertArg` and `SetParent`. `ReferencesHold` is inductive together with the fact that no
variable has a table while declarations are still to come.

**Scoping_proofs** (`PassesArePlaced`): the frames are such a stack, and `current` and
`context`, also those saved, are those of the innermost scope, or type or function, around
the event or the frame's node (`PlaceInv`). From it `PassesDoRestore` and
`PassesAreInScope`: whatever nests in whatever, a pass ends where it began, and is always
in the table, with the context, that the tree says.

**Resolution_proofs** is the main result about the analysis: for every set of programs,
what the two passes do to the first input is what the scoping rules say.

* `UsesAreResolved`: `ResolvedAsScoped`, at the end of the analysis every variable whose
  declarations were entered in text order has the table and the entry that the rules
  give it, and none when they give it none;
* `ErrorsAreDeserved`: `ErrorsDeserved`, the errors logged are those deserved, no more and
  no fewer.

The first input is meant (`inputs = 1`) since the rules are read off one tree: later
inputs find the declarations of earlier ones in the arena, and may rightly resolve a
name that their own tree does not declare. The order is meant strictly: of two
declarations of a name in one scope at one place, neither is the last before a use.

The inductive invariant, `ResolveInv`, has two halves. `TablesMatch` says what the tables
hold while `VarDeclPass` builds them: each scope it has come to has a table of its own,
below that of the scope around it (`ScopesApart`; a function body's table exists before its
block is entered, `TablesAhead`), and the vector of each name lists the declarations of the
name in that scope that were come to, in the order of the walk, each with its location and
`mut` (`VectorsList`). It needs `PlaceInv`, which says what `current` is; and it gives that
`insert` and `insertArg` refuse exactly the names that the rules do (`NameBinds`). From it
follow, one after the other: the climb of `mostRecentDef` comes to the nearest scope that
knows the name (`MostRecentNearest`), the loop of `lookup` to the scope that the path
names (`FollowQualified`, `LookupFinds`), the search of `get` to the last declaration that
does not come after the use, or outside functions to the first (`GetResolves`), and so
`visitVariable` to the declaration or the error that the rules give (`ReferenceResolves`).
`Scoped`, the other half, says so of the variables `VarRefPass` has visited, and
that the others have no table yet. For the errors, `Judgement` says that those logged are
the deserved ones of the events judged so far; that a reassignment objects rightly needs
that the target was visited before, and `ReferencesHold`.

**Codegen_proofs** (`GInv`, `GenInvariant`) carries the invariants of the analysis over to
the generator and adds, for every program, that

* the frames are those of the methods around the event, and the table and the insertion
  block are those of the innermost block and function around it, also where saved
  (`Walking`), though `visitFunction`, `visitIfElse` and calls may skip what is inside;
* the functions that are open are those around the event, each under its own name
  (`FunctionsOpen`); a call whose arguments are being visited has its function, complete
  or around it (`CallsPending`), and calls that were made call what is there
  (`CallsMade`). The second needs the first, and it needs that the function a call waits
  for is not erased before, which is why the order of the frames matters;
* an argument as a value comes from a variable with storage (`ValuesBacked`).

From it `GenTyped`, `BuilderIsRestored`, `ModuleIsWhole` and `GeneratorReferencesHold`.

**Translation_proofs** is the main result about the generator: for every set of programs,
what it makes of the one input of `GenSpec` is what the names in it mean.

* `StorageIsAsResolved`: `StorageAsResolved`, whatever functions nest and wherever their
  arguments can be seen;
* `CallsAreAsResolved`: `CallsAsResolved`, though the generator looks at the last part of
  a name only;
* `SymbolsDoExist`, `SlotsAreNotShared`: `SymbolsExist` and `SlotsNotShared`.

None of the four is inductive. The invariant `TInv` carries, on top of `GInv`, what they
need and where it comes from:

* `Beginning`, `Known`: while the passes run, `PlaceInv` and `ResolveInv` hold; from their
  end on, each scope has a table, its vectors list its declarations (`Tables`) and every
  variable is resolved as the rules say. The generator changes neither, so this is where
  the result about the analysis enters. `UsesOnly`: nothing but a variable has a table.
* `ArgsSkipped`: the walk never comes to the arguments of a function by itself, and never
  goes into a function without a name; so an argument that gets its storage from
  `visitArgument` on the way is a constructor's.
* `StorageRight`: a key of `storage` with a vector in order is the entry that one
  declaration made, which the walk has passed, and the storage is of the function around
  that declaration. Since no two declarations have one key, nothing is set twice.
* `UsesRight`: each instruction made so far is of the function that declares its variable,
  and each call is of what the last part of its name says. The first needs `StorageRight`
  and `Known`; it is about declarations in order, as `get` takes an arbitrary one
  otherwise.
* `AllDeclared`, `FunctionsMade`: while no error is logged, every name visited is declared
  (none was refused), and every function visited is in the module under its own name,
  with its own event. Then a call by name can only be to the function that the rules
  mean, the module having one of each name. The exception is `Doomed`: a function
  whose body has no value that can be returned is erased without an error, but the
  declaration behind it is the next event, and dereferences the null value that the
  function leaves. So no such program ends.

**Repl_proofs** (`ReplInv`, `ReplInvariant`) shows that the tree the interpreter puts
together, of the functions on the stack and of a `jitfunc` around all other nodes, is
again a tree that the passes can walk: links and nesting of each node survive being moved
to another place. With `GInv` it gives `ReplTyped`, `SessionModuleIsWhole`,
`SessionReferencesHold` and `SessionDeclarationsAreKept`; from the two, `DefinitionsAreKept`
(no line changes a function an earlier one completed) and `NothingIsCarried` (a line that
is compiled leaves no error and no tree).

**Compile_proofs** proves, for all programs, command lines and any number of runs, under
the assumptions `Compile` states of its constants (options are of their types; a file that
is not there and one that is empty are no programs):

* `CompileInvariant`: what clang is started on is the assembly of this run's program, and
  what a run returns with is its executable;
* `StatusIsTrue`, `AssemblyIsLeft`: exit status 0 means that the executable, or with `-C`
  the assembly, is of the program;
* `ExecutablesAreSafe`: only the executable asked for is touched, and only without errors;
* `AssemblyIsSafe`: no `out.ll` is touched with errors, or removed but by the run that
  wrote it and was not asked to keep it;
* `CompileImplementsBuild`: `Spec => Promised!Spec`, the refinement of `Build`.

The inductive invariant is the conjunction of the first three. That the status is true
when the run is over needs what held when it returned, and that needs `out.ll` to be this
run's before clang reads it, whatever was there before: it is opened, and so emptied, or
else the process ends. The invariant also says that what is removed is this run's, and not
with `-C`, which `AssemblyIsSafe` needs. For the refinement, `Clang` is a `Make` or a `Lose`
of `Build`, `Return` and `Throw` an `Answer` (`Throw` comes before clang, so that nothing is
made), and the other steps stutter.

Only model-checked:

* liveness (`LinesAreOver`, `Terminates`), which the prover does not reach;
* `ReturnsLast`: which value an expression leaves is a recursion over its last parts
  (`Silent`, `ValueOf`), and so an induction over the tree; `SuiteCompiles` is about given
  programs;
* that vectors are in source order where a program of the parser needs it: an assignment
  of a name is a statement, so that what it declares stands after what was declared
  before it, but the assumptions on programs allow it within an expression, where
  `SymbolsExist` and `SlotsNotShared` say nothing;
* the parser: its trees and its grammar are recursive data, and what a match comes to is
  an induction over them.

## Assumptions of the model

* LLVM is built with assertions, as README.md:10 of the repository has it: operands of
  the wrong type end the process. Without them the IR would be invalid.
* A null pointer dereferenced ends the process. `isa<Function>(nullptr)` is one, with
  assertions or without.
* `SetInsertPoint` of a null block, at the end of a function at the top, leaves a
  builder without a block.
* The write through the disengaged `ssa_index` (`SymTable.cpp:113`) is not read by
  anything: every lookup searches.
* Literals are integers or Booleans, which the generator both makes 32 bits wide;
  bytes, characters and floats, of other widths, are not among the programs.
* Of the flags of `:s` only `compile` is set; `interpret` keeps its value.
* Trees are what the parser makes (`ProgramsAssumption`, `LinesAssumption`): walks that are
  `WellNested`, with links that point where a parser's do (`WellLinked`); the event of an
  argument is never `mut`, as `visitArgument` does not look. Identifiers are not empty
  (`NameAssumption`); of a path only the first name may be, which is how a path from the
  global table is written.
* A function that is erased while another calls it ends the process: LLVM asserts that a
  value has no uses when it is destroyed.
* PEGTL matches as documented: alternatives in order, no reading after a failed one, and
  actions at once, not when the whole has matched. A rule that matches nothing may repeat
  for ever.
* A deque that is popped or looked at when empty ends the process, as a null pointer does.
* LLVM's output stream ends the process when it is destroyed with an error nobody asked
  for. `CompilationDriver` counts on it: it does not look at the error itself.
* `clang` makes the executable of what is in `out.ll`, or fails, with or without leaving
  the executable that was there; an `out.ll` that was only begun is never made into one.
* `std::remove` removes `out.ll` or leaves it as it is.

## Not modelled

* The letters of a lexeme: how a name, a numeral, a keyword or a comment is matched
  character by character, and escapes in strings. Trees from the parser are not fed to the
  analysis: the programs of `Analysis` and `Codegen` are trees that `Ast` constructs.
* Two compilers at once in a directory, which would share `out.ll`; `-o out.ll`, which the
  compiler would remove; a file list that is empty is in the model only as one that does
  not get past parsing (`files()[0]` is undefined then).
* In `Analysis` and `Codegen`, node types that no pass looks at: generics, annotations,
  patterns, tuples, arrays, loops, matches, jumps, imports and modules.
* Blocks and terminators of the IR, constants, LLVM's optimiser and interpreter.
* `BasicTypingPass` and the type lists (`types.h`, `type_rep_notes.h`): nothing constructs
  the pass. The suite's `fail_type` test, which needs them, is therefore not among the
  programs.
* Printing, timing, logging levels, and the scripts under `tools/`.

## Plan

Done, in this order: the tables and the two passes, the most important behaviour
since everything else reads their results; the reference and the properties; the
proofs of their invariants; the generator; the interactive loop; the parser, from the
grammar to the stack; the compilation driver, its abstract specification and the proof
that it implements it; the proofs about nesting, the tables, scopes, the generator and
the interactive loop, that the analysis agrees with the reference, and that the generator
does. To come:

1. **Codegen_proofs**: `ReturnsLast`, with an assumption on programs that names the last
   part of each expression.
2. **Parser_proofs**: that `Backtrack` never goes forward and that `pos` stays in the text;
   that each effect of `ParseActions` leaves nodes that own what their class declares.
3. **NameResolution**: the abstract specification of the analysis, a set of scopes and
   declarations without tables or walks, and `Analysis` shown to implement it under a
   refinement mapping.
4. **LineByLine**: the abstract interpreter, whose state is the definitions of the lines
   that succeeded, as a specification `Repl` implements for the lines that do not meet
   the disagreements above.
5. **Typing**: `BasicTypingPass`, if it is ever run.
