# A verification of the ANX executable

ANX is a small Java-like language. `anx` checks a program, runs it with a
tree-walking interpreter, or compiles it to a native binary through LLVM:

    source --lexer--> tokens --parser--> tree --sema--> tree + tables
                                                          |-- interp  (anx run)
                                                          `-- codegen (anx build) -> LLVM -> cc

The interpreter and the compiled code rely on the checker without looking: they
say so some forty times, as `unreachable!("sema guarantees ...")`, `expect` and
`panic!`. Whether the checker keeps what it is said to promise, in every program
and on every path, is the question this project started from. It models the
whole program as it is: the front end against the language's grammar, the checker and
the interpreter composed as `anx run` composes them, code generation and the emitted
program compared step for step with the interpreter, and `anx build` as one of several
processes that share a file system. It states what each part owes the others.

Paths below are relative to the repository; line numbers are those of this commit.

## 1. Inventory

| component | state | operations | relies on |
|---|---|---|---|
| lexer (`src/lexer`) | rest of the source, line, column | `lex` | - |
| parser (`src/parser`) | tokens, position, next node id | `parse`, one function per rule | lexer |
| ast (`src/ast`) | the tree | - | - |
| sema (`src/sema/mod.rs`, `types.rs`) | errors, types, variable references | two passes: hoist, walk | parser's shapes |
| symtab (`src/sema/symtab.rs`) | scopes, functions, next symbol id | push, pop, declare, resolve | sema's balance |
| interp (`src/interp`) | environments, arrays, pending `return`, output | `run`, `exec_*`, `eval_*` | sema |
| codegen (`src/codegen`) | module, current block, scopes | `compile`, `codegen_*` | sema's types |
| runtime shim (`src/codegen/runtime.c`) | - | print, strings, panics | codegen's guards |
| cli (`src/cli.rs`) | exit code, files | `check`, `run`, `build` | all of them |

Inside `anx` there is one thread and no message; the interleaving and the failures are
outside, where `anx build` meets other calls of anx, the C compiler it starts, reused
process ids and edits of the source. What else is hard is long sequences of legal steps
and the agreement of components that were written apart:

* three components make scopes (sema, interp, codegen) and must make the same ones;
* operands have side effects, so the order of evaluation and what is read before
  them and used after is visible;
* arrays are shared through aliases, and an index that was checked is used later;
* a `return` unwinds through nested statements to its own call;
* the checker gives up in many places and goes on in others, with an error reported
  exactly once;
* functions are hoisted and globals are not;
* ints at their limits, floats with NaN, strings cut inside a character;
* a plan for a block, a phi or a slot is made before the operands it concerns are emitted,
  and used after them, when the builder may stand in another block;
* twelve levels of precedence and twenty-odd operators that begin like one another.

What makes each component correct:

* **interp** - every activation, environment and array that is named exists; a
  checked index is still good when it is used; two calls see no common environment
  but the globals; a `return` ends exactly one call; a program that should end does.
* **sema** - it reports what it should, where it should; a check that answers `None`
  has reported; the tables of an accepted program are complete; scopes balance.
* **anx run** - on an accepted program every value has its static type, a name means
  the declaration the checker resolved it to, a non-void function never falls off its
  end, and nothing panics; a rejected program runs nothing.
* **lexer, parser** - each token is the longest lexeme there is and spells what it says;
  exactly the grammar's texts are accepted, each as the tree it was written from.
* **codegen** - each block has one terminator, each phi the blocks its values come from,
  each slot is in the entry block; a name is the slot of the declaration the checker
  resolved; nothing panics on an accepted program.
* **built program** - reads nothing that is not set, touches no memory that is not
  there, and prints and ends as the interpreter does; where it does not is known and named.
* **anx build** - it links the object file of the text it read, answers success only
  with that program delivered, touches nothing for a rejected program, and ends.

PROJECT.json lists the hazards at their lines, with the properties that cover each
and, for the few no property covers, why.

## 2. Modules

| module | models | extends |
|---|---|---|
| `AnxAst` | the tree as a table from node ids to nodes, types, operators, and the shapes the parser produces | |
| `AnxValue` | values, operators, string built-ins | `AnxAst` |
| `AnxInterp` | the interpreter | `AnxValue` |
| `AnxTyping` | what it is for a program to be well typed: scopes, types and returns, without an order of checking | `AnxAst` |
| `AnxSema` | the checker and its symbol table | `AnxTyping` |
| `AnxRun` | `anx run`: both, composed with INSTANCE, and the exit code | `AnxValue` |
| `AnxTypingProofs` | lemmas about trees, scopes and the rules, used by the proofs below | `AnxTyping` |
| `AnxInterpProofs` | the interpreter's type correctness and its safety invariants, proved | `AnxInterp`, `AnxTypingProofs` |
| `AnxInterpSound` | that a well typed program runs as its scopes and paths say, keeps its types and panics in two places only, proved | `AnxInterpProofs` |
| `AnxSemaProofs` | the checker's type correctness, its silence, scopes and tables, and that what it accepts is well typed, proved | `AnxSema`, `AnxTypingProofs` |
| `AnxRunProofs` | what holds of the checker and of the interpreter, joined and proved of `anx run` | `AnxRun`; `AnxSemaProofs` and `AnxInterpSound` (INSTANCE) |
| `AnxDualProofs` | that what is generated for an accepted program has one terminator in each block, and closes no function with `unreachable` that is not void, proved | `AnxDual`, `AnxTypingProofs`; `AnxSemaProofs` (INSTANCE) |
| `AnxBuild` | writes programs as terms and numbers their nodes as the parser does (for TLC) | `AnxAst` |
| `AnxSuite`, `AnxSemaSuite` | the programs of the runs, with what they print or the errors they get | `AnxBuild` |
| `AnxOps` | the programs with one operation (for TLC) | `AnxBuild` |
| `AnxLexer`, `AnxParser` | the lexer; the parser | `AnxAst`; `AnxLexer` |
| `AnxFront` | both, as the frontend calls them | `AnxParser` |
| `AnxLanguage` | the language's lexemes and grammar, and how a tree is written: what the front end is compared with | `AnxFront`, `AnxBuild` |
| `AnxCodegen` | code generation | `AnxAst` |
| `AnxNative` | the emitted blocks at work, with the C shim | `AnxValue` |
| `AnxDual` | checker, code generation, built program and interpreter on one program | `AnxValue` |
| `AnxDeliver` | what a call of anx promises: the contract | |
| `AnxPipeline` | calls of anx and the C compilers they start; implements `AnxDeliver` | |
| `AnxFrontProofs`, `AnxPipelineProofs` | their invariants and the refinement, proved | `AnxFront`, `AnxPipeline` |
| `MCInterp`, `MCSema`, `MCRun`, `MCFront`, `MCDual`, `MCPipeline` | the instances | |

**The tree.** A program is a sequence of declaration ids; `Nodes` maps each id to its
node. The constants `Nodes`, `Programs` and `Name` are the input, and assumptions say
what it is: numbers behave (`IntAssumption`, `WidthAssumption`), every node has the shape
the parser gives its kind (`AstAssumption`) and a literal's value the literal's kind
(`LiteralAssumption`), every program is a list of declarations (`ProgramAssumption`), and
the nodes of a program are trees (`TreeAssumption`): children have smaller ids, because
`parse` numbers a node after its children (`parser/mod.rs:40`), and no node is in two
places, because a `Box` has one owner. Line numbers are dropped: an error carries the
id of its node.

**The interpreter.** The Rust code recurses; `AnxInterp` keeps the recursion as data.
Each activation of `eval_expr`, `exec_stmt` or `call_function` is a frame of `stack`:
its node, its environment, and `vs`, the values its callees have returned so far. The
frame either calls down (`EvalOperand`, `Exec`, ...) or completes, pops itself and
appends its value to its caller's `vs`. So one Rust function is one action that fires
when its operands are there (`EvalBinary`, `EvalAssign`, ...), and what the code does
between two recursive calls is the guard on `Len(vs)`. `Operands` gives the order in
which each construct evaluates, including the step `Slot` in which a compound
assignment to `a[i]` checks the bound and reads the cell before its right-hand side.
`envs` holds every Environment ever made with its chain to globals, `heap` every array
(both are reference counted in the code, which nothing observes). `flow` is the code's
`Flow`. A runtime error or a panic (`Halt`) leaves all activations at once, as `?` and
an unwinding panic do. An entry's field `d`, the declaration that made it, is a history
variable: no action reads it except to know that the name is defined.

**The checker.** `AnxSema` has the same form: a frame for each activation of
`check_expr`, `check_expr_against`, `check_stmt` and `check_func`, with the expected
type in `exp` and the answers of the children in `rs`. `TypeFrom` is the type rule of
each expression, `Report` the error it pushes at the point it has reached, `GivesUp`
the places where `?` or an early return skips the remaining children, `Expected` what a
child is checked against, `Opened` and `Close` the scopes. `declared` is a history of
`declare_var`: the declaration of each symbol id.

`AnxTyping` says the same language a second time, as rules instead of a walk: `ScopesOf`
gives each node of a program the scopes it is in, from its place in the text; `Means`
what a name means there; `MustReturn` which statements return on every path; `ExprRule` and
`StmtRule` what the types of a node and of its children have to do with each other. No
definition of `AnxSema` is used in it, and none of it in a step of `AnxSema`: it is the
reference that `AcceptedIsWellTyped` compares the checker with, and what the interpreter's
panics take for granted.

**The composition.** `AnxRun` has the variables of both, shares `prog`, lets the
checker finish, and then exits with 1 or runs the interpreter and exits with 0, 2, or
the 101 of a Rust panic. The interpreter never reads the checker's tables, in the code
and here; the properties do.

**The front end.** A step of `AnxLexer` is one round of `tokenize`: a blank, a comment, a
token or an error. `here` is the position in the text; line and column follow
`advance`. Token kinds carry their spelling as a name. In `AnxParser` the `parse_`
functions are one table, `Grammar`: for each function or decision its alternatives, the
tokens that choose among them, and what is then done, in order. A frame is a running
function: what it has left to do and the node it is making; `MakeNode` is `fresh_id` and
the constructor. Children are numbered before parents, as in the code; the nodes that
have no id there (parameters, blocks, expression statements) are numbered too, so that
the table is the one the other modules take as `Nodes`.

**Code generation.** A frame of `gens` is a running `codegen_` function; what it does in
order is its plan (`ExprPlan`, `StmtPlan`): generate a child, emit an instruction, append
blocks, move the builder. One action performs each kind of step. `vs` holds the values of
children and instructions so far, `bbs` the blocks. `slots` is the code's `Scopes`; the
`d` of a slot, the declaration that made it, is a history variable. A plan is computed
from what is there when it is used, so what the code keeps in a local variable (the block
of a phi) is a value of the frame, noted at the step where the code notes it. `unwrap`,
`expect`, `into_int_value` and `unreachable!` are panics.

**The built program.** `AnxNative` executes one instruction at a time on activations,
registers and a memory of objects with cells (a value of the element type, or a byte of
a string). Undefined operations are choices: the smallest int by -1 traps or wraps, a
wide shift gives zero or the masked shift, a null string prints some text or faults, a
print that reads behind its array prints some ints or faults. An element is 8 bytes or, of a
bool, 1 (`Width`), which matters where the shim looks at bytes: `memcmp` and `anx_print_array`. The
shim's functions are modelled by what they do to the bytes; LLVM's instructions, libc and
the C compiler are external, modelled from how the code uses them. `AnxDual` shares
`prog` between all four, runs the built program to its end, then the interpreter.
Where the two are known to part the machine notes it in `gaps`, a history variable:

* a NaN compared with `<=`, `>=` or `!=`; a shift by the width or more; the smallest int
  divided by -1; a remainder of floats; in a debug build of anx, overflow;
* arrays compared (as bytes) or printed (the interpreter prints `[array]`, the built
  program the elements as 8-byte ints, whatever they are); a character cut in two;
* two that are undefined: a default string printed (a null pointer); a `bool[]` printed
  (reads eight times its buffer, unless it is empty).

Top-level variables are a further difference, decided by the program text
(`InitialisersOf`): a built program never runs their initialisers.

**The pipeline.** `AnxPipeline` has any number of calls of anx. `pc` goes through the steps of
`frontend`, `run` and `build_native`, each with its error return; `text` is what a build
read; `workdirs`, `objects` and `shims` are the directories `anx-build-<pid>`; each `cc` is
a process of its own that reads the directory, opens the output and writes it, or fails
in between. A call can be killed at any time; its cc goes on; its process id may be
given to a later call, with the directory still there. `FailsAt` says at which stage, if any,
a text fails; I/O may fail at any time. `AnxDeliver` is the contract: a call takes the
text of its file once, may spoil its output while it builds, may deliver the program, and
exits with a code the text allows. It knows no directories, object files or process ids.
The refinement maps the steps of a call to called, taken, exited, killed, a cc that
succeeded to a delivery, and hides who opened the output last.

**Abstractions.** Ints have 8 bits in the runs (any power of two in the proofs); floats
are half units from -4.0 to 4.0 with saturation to the infinities and a NaN, and
without a negative zero; strings are sequences of bytes whose characters have at most
two. The text `print` makes of a scalar is abstracted to the scalar (so the interpreter's
and printf's ways with floats are not compared); an array's
`[array]` and void's empty line are kept. The Rust stack and memory are unbounded.

Some definitions come with a sibling whose comment begins "A slip": the same definition
with a plausible mistake. No action uses them. They name, for each property, a change
of the code that the property notices (PROJECT.json, `mutants`).

## 3. Runs

| run | instance | asks |
|---|---|---|
| `interp` | `MCInterp` | the 40 programs of `AnxSuite` print and end as the tests of `interp/mod.rs` say; type, slot, isolation and return invariants; termination |
| `sema` | `MCSema` | the errors of those and of the programs of `AnxSemaSuite` are those of the tests of `sema/mod.rs`, in order; silence, totality, balance |
| `run` | `MCRun` | both suites, the programs with known gaps and each of 1777 programs with one operation, over all combinations of operand types, composed: everything the interpreter relies on |
| `float_mod`, `globals`, `exit` | `MCRun` | three of the findings below |
| `dual` | `MCDual` | both suites and the cases code generation adds, through the checker, code generation, the built program and the interpreter |
| `arrayeq`, `boolarray`, `elements` | `MCDual` | the three findings of code generation and the shim |
| `front` | `MCFront` | 4 kinds of texts (below) against the reference grammar and the trees they were written from |
| `pipeline` | `MCPipeline` | two calls at once of check, run, build and build of the same file and output, with two process ids, kills and edits; the refinement and liveness |

The properties:

* `Conforms` (interp, sema) - output, end and errors are those the repository's tests
  assert; programs added beyond the tests are ones whose order of effects the
  code's structure decides.
* `SlotStaysInBounds` - the index a compound assignment checked is in bounds at each
  later moment until the unchecked store, whatever the right-hand side does. It holds
  because arrays never shrink and the array, not the variable, is kept.
* `ActivationsIsolated` - two calls on the stack share the globals and nothing else.
* `ReturnHasItsCall` - a `return` on its way up has a call below it.
* `Terminates` - every program of the suite ends.
* `NothingIsSilent` - a child expression without a type implies an error already
  reported.
* `TablesAreTotal` - an accepted program has a type for each expression and for each
  identifier a symbol that was declared under its name.
* `AcceptedIsWellTyped` - an accepted program is well typed by `AnxTyping` with the types
  in the checker's table, no two globals or functions have one name, `main` is there,
  functions that are not void return, and each identifier's symbol is the declaration it
  means by the scopes of the text. The converse is not claimed: the checker rejects some
  well typed programs, such as a local declared twice.
* `OnlyGlobalsStay` - between declarations exactly the globals walked so far are in
  scope.
* `ValuesHaveTheirTypes` - type soundness: variables and intermediate values have their
  static types, to the depth of arrays.
* `OnlyVoidFallsOff` - the checker's account of returns against every execution.
* `NamesMeanTheirSymbols` - the declaration found at run time by name is the one whose
  symbol the checker noted.
* `PanicsOnlyWhereKnown` - no step of an accepted program panics on an operand, a name,
  a call or a target, except in the two ways the findings describe.
* `SlotsMeanTheirSymbols` (dual) - the slot code generation finds by name is that of the
  declaration the checker resolved the name to, at each use.
* `OneTerminatorPerBlock`, `PhisNameTheirPredecessors`, `AllocasInEntry` - the blocks are
  what LLVM's verifier and the comments ask for, at every moment a function is finished.
* `CodegenPanicsOnlyWhereKnown` - an accepted program panics code generation only through
  void data, elements that are structs, or the use of a top-level variable.
* `NativeIsWellDefined` - the built program takes no unset value, touches no absent
  memory, and never comes to `unreachable`, and the shim prints no more than an array
  has. It is not so for a null string and a `bool[]`, which it names: the second is finding 5.
* `SameBehaviour` - both ways of running print the same and end the same, but where a
  gap was met.
* `LexesTheLanguage`, `AcceptsTheGrammar`, `SaysWhatItSays`, `RoundTrip` - the tokens are
  the longest lexemes and nothing is skipped but gaps; accepted means in the grammar; the
  tree, written with the fewest parentheses, is the text again; a written tree is read
  back as the same node table.
* `ReadsItsTokens` - the parser indexes only tokens that exist.
* `Implements`, `LinksItsOwn`, `BuiltIsThere`, `OnlyAcceptedBuildsWrite`,
  `EveryCallAnswers` - the pipeline keeps its contract; cc gets this build's object file;
  success means the program is there unless a rival build took the path; nothing is
  written for what the frontend rejects; every call exits unless it is killed.
* `RejectedRunsNothing` - a program with errors leaves the interpreter untouched and
  exits with 1.

**Bounds.** A program has no input, so one run explores all its behaviours; the
coverage of an instance lies in its programs. For `run`, `AnxOps` enumerates: 6 leaves (a variable of
each type, and null) in each of up to 3 operand positions under every operator,
assignment, index, field, call, ternary and array expression, so every pair of
checker rule and interpreter rule for one operation meets every combination of operand
types. The suites cover what one operation cannot: sequences, scopes, calls, aliasing,
loops. 8 bits are enough for every case in which ints differ: zero, sign, both limits,
overflow, and shift amounts beyond the width. Arrays of arrays and arrays of up to two
cells reach each alias pattern; recursion goes five deep.

`dual` adds to the suites what only code generation sees: returns in all branches,
nested short circuits and ternaries whose operands branch, calls before definitions,
compound assignment with effects, guards, prints of arrays of each type, each known gap.

`front` reads: every writable program of the suites; each of 23 kinds of expression inside
the places of the others (of the infix operators the neighbouring levels, and for the
rest the loosest and tightest), where precedence decides; every sequence of up to 4 (in one
family 3) pieces over six small alphabets of tokens; every string of up to 4 (3) characters
over five alphabets of characters, and some by hand. Lexemes are looked for up to 16
characters (`MaxLexeme`: no text has a longer one), and the reference grammar, which is
recursive, is asked about texts of up to 14 tokens (`MaxTokens`).

`pipeline` bounds the calls that start to two of the four (`MaxCalls`), both on one file and
one output: a rival, a leftover directory and a reused id each need two calls, and a
third meets only states a second can. 8 texts fail at one stage each or not at all, and
there are two that do not fail, so that one program can be told from another. The theorems
have none of these bounds.

**Fairness.** `Spec` of `AnxInterp`, of `AnxRun` and of `AnxDual` has weak fairness of the next-state
relation: a single thread runs on as long as it can step, and nothing blocks. The
relation is deterministic in its choice of action, so no stronger assumption hides in
it. `AnxSema` states no liveness and has none. `FairSpec` of `AnxPipeline` has weak fairness of each
call and of each cc: the system runs every process that can go on, programs run by `anx run`
end, and the C compiler ends, with or without success. There is no fairness of kills, edits
and starts. Without the fairness of cc a build would wait for ever (`cli.rs:180` has no timeout).

## 4. Findings

1. `float_mod`: `1.5 % 1.0` passes the checker (`sema/types.rs:116`) and panics in the
   interpreter, which says ints are guaranteed (`interp/mod.rs:330`). Code generation
   has an instruction for it (`codegen/mod.rs:667`).
2. `globals`: `int x = f(); int y = 2; int f() { return y; }` passes the checker and
   panics at `interp/mod.rs:56` (reads) or `:67` (assignments).
3. `exit`: the smallest int divided by -1, or its remainder, panics in every build
   (`interp/mod.rs:316`, `:327`), and the process ends with 101; `README.md:72` knows
   0, 1 and 2.
4. `arrayeq`: `[1, 2] == [1, 3]` is false under `anx run` and true in the built program, which
   compares as many bytes of the cells as the arrays have elements
   (`codegen/mod.rs:542`, `runtime.c:82`); `docs/P0/ANX-Usage-Flow-v1.md:46` promises
   identical behaviour.
5. `boolarray`: `print([true, false])` is accepted (`sema/types.rs:345` takes any value), and
   `codegen_print` (`codegen/mod.rs:1063`) passes every array to `anx_print_array`, which reads
   8 bytes for each element. A bool has one (`codegen/mod.rs:1357`), so 14 of the 16 bytes read are
   behind the buffer. The shim's comment (`runtime.c:36`) says it "Only handles int[]"; a
   `float[]` stays inside its buffer and is printed as the ints its bits spell.
6. `elements`: `string[] v = new string[1];` passes the checker, runs in the interpreter and
   panics in code generation (`codegen/mod.rs:1360`).

The grammar in `docs/P0` has method calls and identifiers as the only targets, which
neither the later documents nor the code have; the reference grammar is that of
`docs/P1/ANX-P1-Operators-Plan-v1.md` with the code's increments and wider targets.

## 5. Proofs

TLAPS checks eight modules. All theorems hold for every node table, set of names, int
width, float range, build profile, text, set of calls and so on that satisfies the
assumptions at the end of this section; TLC's runs show the same properties on instances.

| theorem | property | of every |
|---|---|---|
| `AnxInterpProofs` `TypeCorrect` | `TypeOK` | program, accepted or not |
| `AnxInterpProofs` `SlotSafety`, `ReturnSafety`, `IsolationSafety` | `SlotStaysInBounds`, `ReturnHasItsCall`, `ActivationsIsolated` | program, accepted or not |
| `AnxSemaProofs` `TypeCorrect` | `TypeOK` | program |
| `AnxSemaProofs` `Speaks`, `ScopesClose`, `TablesComplete` | `NothingIsSilent`, `OnlyGlobalsStay`, `TablesAreTotal` | program |
| `AnxSemaProofs` `AcceptedPrograms` | `AcceptedIsWellTyped` | program |
| `AnxInterpSound` `WellTypedRunsAsWritten`, `WellTypedKeepsTypes`, `WellTypedPanics` | - | program that is well typed |
| `AnxRunProofs` `CompileErrorRunsNothing`, `OnlyWellTypedRuns` | `RejectedRunsNothing`, - | program |
| `AnxRunProofs` `NamesFollowTheirSymbols`, `OnlyVoidReachesTheEnd` | `NamesMeanTheirSymbols`, `OnlyVoidFallsOff` (of `run`) | program |
| `AnxRunProofs` `TypesHoldAtRunTime`, `GuaranteesHold` | `ValuesHaveTheirTypes`, `PanicsOnlyWhereKnown` | program |
| `AnxDualProofs` `BlocksEndOnce`, `OnlyVoidCloses` | `OneTerminatorPerBlock`, `OnlyVoidFallsOff` (of `dual`) | program |
| `AnxPipelineProofs` `OwnObject`, `ProgramDelivered`, `RejectedWritesNothing`, `PipelineImplements` | `LinksItsOwn`, `BuiltIsThere`, `OnlyAcceptedBuildsWrite`, `Implements` | set of calls |
| `AnxFrontProofs` `TokensSuffice` | `ReadsItsTokens` | text |

### The interpreter

`TypeCorrect` (`Spec => []TypeOK`): the state of the interpreter is well typed in every
reachable state of every program the parser can produce - also of programs the checker
rejects, since the interpreter's own bookkeeping does not depend on it. `TypeOK` is
inductive as it stands because it is relative to the state: frames refer to
`1 .. Len(envs)`, values to `1 .. Len(heap)`, and both sequences only grow. The proof
goes

* about values: each operator, built-in and conversion returns a value or a
  listed failure (`BinaryOpType`, `UnaryType`, `IncDecType`, `BuiltinType`, ...);
  ints by the arithmetic of `Wrap` and `Quotient`, bit operations through the choice
  in `IntOf`;
* about states: the sets of frames, environments and cells are monotone in the two
  lengths (`FramesMono`, `EnvironmentsMono`, `HeapMono`); the operands of each construct
  are nodes (`AssignOperands`, `CompoundOperands`, ...); the primitive steps preserve
  the invariant (`HaltStep`, `YieldStep`, `SetCellStep`, `SetVarStep`, `CallStep`, ...);
  then one lemma per action, `InitType`, `NextType`, and the theorem by PTL.

The three safety invariants of the interpreter hold of every program too.
None is inductive alone:

* `SlotSafety` (`SlotStaysInBounds`) needs `SlotsAreTakenAtOnce`: only the innermost
  activation can be a compound assignment with its array and index but without the
  checked cell. Were one waiting below, the value it is answered with would pass for the
  cell. With that, a frame gets its third value only from the check itself, and after it
  nothing matters to the cell but the lengths of arrays, which no step changes.
* `ReturnSafety` (`ReturnHasItsCall`) needs `StatementsBelongToCalls`: below the
  activation of any statement but a declaration there is a function's. A global's
  initialiser is the exception, and why the invariant does not follow from the shape of
  the tree: it runs with no call below it, and cannot contain a `return`.
* `IsolationSafety` (`ActivationsIsolated`) needs `GlobalsEndEachChain`: the globals see
  only themselves, and every environment sees them. A frame pushed for a child sees what
  its parent sees and environments made in this step; a call sees the globals and one
  such environment.

The three share a lemma, `StepShape`: whatever the action, a step halts, begins a
declaration, descends to an operand, enters a statement, calls, pops, changes the values
of the top frame, starts a `return` or unwinds one, and each shape says what it leaves of
the stack, the chains and the cells. One lemma per action shows it has its shape; each
invariant is then preserved shape by shape.

`WellTypedRunsAsWritten` is about programs that are well typed (`AnxTyping`), by whatever table
of types: `NamesMeanDeclarations`, each name read or written is the variable of the
declaration that the scopes of the text give it; and `FallsOffVoid`, a function whose end is
reached is void. The interpreter knows neither scopes nor paths: it makes environments
and looks names up in chains. The invariant is `SoundInv`, found with TLC on the programs
of `interp`:

* `StackOf`: each activation waits for the next one, which is about a node that it can be
  waiting for at this point, and the outermost is about a declaration. It gives an activation
  its place in the text.
* `ChainsOf`: a chain goes down from its environment to the globals, so no environment is on
  it twice.
* `OwnOf`: the environment that an activation has made for itself is not seen by those around
  it. Without it a declaration in a block could change what a name means outside.
* `NamesOf`: along the chain of each activation, the environments hold exactly the
  declarations of the scopes that its place in the text has as far as it has come (`ScopesAt`). The
  globals are the exception, on purpose: the text gives a function the globals above it, and
  at run time it sees all that have been defined, more or fewer. So of them it says only
  that what is there is a global of that name; since a well typed program has one of
  each name, that is enough.
* `FallOf`: no statement that an activation has come past is one that must return
  (`MustReturn`). Such a statement is a `return`, a block with such a statement in it or an `if`
  with two such branches, and none of these comes to its end while its parts do not.

A step is seen through ten shapes (`Moves`, by `StepMoves`), finer than those of `StepShape`:
what they add is which child is begun and in how many environments more.

`WellTypedKeepsTypes` and `WellTypedPanics` are type soundness, the two halves of it by one
invariant: every value has its static type, and a step from such a state does not panic but at
the remainder of two floats and at a global that is not defined yet. That a value has a type
cannot be said of the value alone, since arrays can hold each other and are shared: the
invariant `TypesInv` says that there is a table `ht` of the types of the cells of all arrays
there have ever been, which only grows, and in whose terms `VT` says it without recursion. An
array gets its entry when it is made, and from then on each store to a cell, by whatever alias,
must fit it. Beyond that the invariant has

* `FramesT`: each operand that an activation has is of the type of its expression (`ExprOf` says
  which that is), and the activation above it answers with the type it waits for (`Wants`);
* `EnvsT`, `HeapT`: variables hold what they are declared to, cells what `ht` says;
* `FlowT`: a `return` on its way up carries what the function of the statement it has left
  returns;
* `GlobalsDefined`, with `NamesOf` above: a name is missing only while a global is being
  initialised, so the second panic is the one that the finding `globals` is about;
* `AtRest`: between declarations no `return` is on its way; `Counted`: no activation has
  more operands than it asks for, so that what completes it is the rule of its own kind.

### The checker

`TypeOK` of `AnxSema` is not inductive: what an activation may answer depends on what its
callers expect of it. `TypeInv` adds what ties activations together. `CallsInv`: an
activation has an answer of the right sort for each child it is past, and the activation
above it is about its next child, with the type the rule expects and the scopes it opens.
`ScopesInv`: there are as many scopes as the activations own, one more for the globals (the
heights of the activations are a witness that each step has to produce). `PhaseInv` and
`FunctionsInv`: where pass and item stand, and what a signature is. On it stand

* `ScopesClose`, with `ScopeInv`: the names of the outermost scope are those of the globals
  walked to their end, and statements are only checked inside a function, so a declaration
  deeper down is never in the outermost scope.
* `Speaks`, with `BegunInv`: an activation that is past its first child has said what it says
  at once. Without it `NothingIsSilent` is not inductive: the answer `None` of a bad target or of
  a call with the wrong number of arguments is explained by an error that was reported
  before any of the children was looked at.
* `TablesComplete`, with `SymbolsInv` (a symbol's id is that of a declaration of its name and
  type) and `CoverInv` (while there is no error, all that is below a child that is done with
  has its entries).

`AcceptedPrograms` says that this walk, with its scopes pushed and popped, its expected
types handed down and its answers handed up, decides the rules of `AnxTyping`. Its
invariant relates the two node by node, while no error is reported:

* `NestInv`: the activations are a path down the tree. Since the program is a tree, no node
  is checked twice, and what a table says of a node that is done with is never overwritten.
* `ScopingInv`: the symbol tables of the innermost activation hold, name by name, the scopes
  that `ScopesOf` gives its node, as far as its children are done; between two declarations,
  the globals so far.
* `RetInv`: the return type handed down to a statement is that of its function.
* `HoistInv`, `VarsInv`: the functions known are the builtin ones and those hoisted, each
  under one name; globals have different names.
* `PassedInv`: a condition the walk has passed is a bool.
* `JudgeInv`: all that is below a child that is done with is judged well typed and means
  what the tables say, and the child's answer is its type, and the expected one if one was
  expected, or whether it must return.

`Below`, `ScopesOf` and `MustReturn` are recursive functions over trees. Nothing is proved by
induction on them; the proofs need their recursion equations (`BelowStep`, `ScopesStep`,
`MustReturnStep`), and those need that there is a function that solves them: for the first and
the last the least set closed under the rule gives one; the scopes are laid out from the
root of each tree down, and where a table failed to exist there would be a least node
without one (`Least`).

### The composition

`CompileErrorRunsNothing` needs `VerdictInv`: while there is no verdict "accepted", the
interpreter is in its initial state. `OnlyWellTypedRuns` adds `AcceptedPrograms`: a step of `anx
run` is a step of the checker or leaves what is the checker's alone, so the theorem about
the checker holds in the process, and whatever the interpreter has begun to run is well
typed by the checker's table. This is the premise of every panic "sema guarantees ..." in the
interpreter.

The invariant `Lives` then carries `SoundInv` through the process: before there is a verdict
the interpreter does not move, and after it the program is well typed by `types`, so the
step is one that `SoundStep` covers. `OnlyVoidReachesTheEnd` is what `FallsOffVoid` says, without
the premise. `NamesFollowTheirSymbols` joins the two halves: what the chain finds is what the scopes
of the text mean (`NamesMeanDeclarations`), and what they mean is what the checker noted
(`AcceptedIsWellTyped`).

`Typed` carries `TypesInv` in the same way, and `GuaranteesHold` is then `WellTypedPanics` with
the verdict for the premise. `TypesHoldAtRunTime` says it in the words of `ValuesHaveTheirTypes`, whose
`HasType` goes down an array by recursion. That some function solves that recursion
is itself to be proved (`LevelsExist`: the least set of pairs closed under the rule does); that it
gives the types of `ht` is then proved without an induction scheme, by the least depth at
which it would not (`LevelsTyped`).

The provers take the copies that two INSTANCEs make of one definition for two definitions,
so the module also shows, by expanding both, that the checker and the interpreter of `AnxRun`
are the ones the theorems are about (the lemmas `Same...`, one for each group of operators
and one for each action).

### Code generation

`BlocksEndOnce` and `OnlyVoidCloses` are about `AnxDual`: code generation on what the checker has
accepted. A handler appends blocks, sends the builder elsewhere, emits its operands, which
append blocks of their own, and comes to its blocks later. So neither property is inductive, and
at most moments many blocks are without a terminator. The invariant, `BlocksInv`, says which:

* `BlocksOK`: every block is full - its last instruction, and no other, is a terminator -
  but the builder's, as long as it is open, and those that some activation has appended and
  not come to (`Waiting`). No block waits twice, and none that waits is full.
* `Pending` and `Live` say for each kind of node and each point of its handler which of its
  blocks it has not come to and whether the builder's block is open there. `Running`: the
  innermost activation is `Live` just as long as that block is not full. Without it a handler
  that emits after a `return` could not be told from one that looks at `terminated` first.
* `Awaits`: an activation that waits for a child is ready for each answer that the child can give,
  and the answer `terminated` of a statement is `MustReturn` of it. This is where code generation
  and the checker's account of returning paths, which were written apart, are shown to agree.

Each handler has a lemma that its step is one its point allows (`Does`: what a step of each
kind asks of its activation and leaves of it), and each kind of step a lemma that it preserves
`Running`, whatever the handler. `OnlyVoidCloses` follows where the answer of a function's body is
given: it is `MustReturn` of the function, which `AcceptedPrograms` has for all that are not void.
That theorem is about `AnxSema`; `GivenIsVetted` carries it to the checker in `AnxDual`.

TLC checked an earlier form of `BlocksInv`, with the answers enumerated, on the programs of
`dual`; the form proved quantifies over all activations that a step may lead to, which TLC cannot
evaluate.

### The pipeline and the front end

The pipeline (`AnxPipelineProofs`), for any calls, files, texts, outputs, stems and process
ids: the invariant `IInv` joins the types, `PidsApart` (two live calls have two ids) and
`CallInv`, what each call may rely on: how far a text got says where it cannot fail
(`TextInv`), the object file of a call between its writing and the end of cc is its own
(`ObjectInv`), a cc's state against its call's (`CCInv`), and who holds the output of a call
without rivals (`OutputInv`). `ObjectInv` needs `PidsApart`: a step writes only the directory of
its own id, and `create_dir_all` accepts what is left there, so the argument is that a build
writes its object file before cc looks. From `IInv` follow `OwnObject`, `ProgramDelivered`,
`RejectedWritesNothing` (an action property: a step that writes is one of a build, or of its cc,
and `TextInv` says that the frontend accepts its text) and `PipelineImplements`,
the last by a lemma for each kind of step (`AnxRefines`, `CCRefines`,
`OutsideRefines`, `EditRefines`) that maps it to a step of `AnxDeliver` or a stutter.

The front end (`AnxFrontProofs`), for any texts: `TokensSuffice`. Its invariant is that the
tokens are a sequence, that a list that lexed well ends in `Eof`, and that the parser, which
does not move before, stands at one of them; `Take` never moves past `Eof`.

### What is assumed, and what is not proved

Assumptions: those named in `AnxAst` and `AnxValue` (`IntAssumption`, `WidthAssumption`,
`AstAssumption`, `ProgramAssumption`, `TreeAssumption`, `LiteralAssumption`), each of them what the
parser's output always satisfies (section 2), and in `AnxPipeline` the shapes of its constants
(`CmdAssumption`, `OutputAssumption`, `TextAssumption`, `PidAssumption`, `StemAssumption`). TLC
evaluates them on the instances.

Only model-checked: `Conforms`; of code generation the slots, phis, allocas and panics; `AnxNative` and
the comparison of the built program with the interpreter; the comparison with the grammar. Out of
the prover's reach: `Terminates` and `EveryCallAnswers` (liveness under fairness), facts that
need induction over data (what `ValuesEqual` computes on nested arrays), and anything about
the recursive operators of `AnxBuild` and `AnxLanguage`, which only TLC uses.

## 6. Plan

Every component with state is modelled. What is left, in order of worth:

1. further theorems about `AnxCodegen`, on `BlocksInv`: phis, and slots by name;
2. the shapes `AstAssumption` takes for granted, as an invariant of `AnxParser`;
3. programs enumerated by operation for `dual`, as `AnxOps` does for `run`.

## 7. Not modelled

* Error texts and the formatting of numbers: no property is about them. Lines and
  columns are modelled in the lexer and for parse errors, and dropped from the tree.
* The names of LLVM values and blocks, the optimiser and the machine code: external. So is
  what the linker makes of an ANX function named like a symbol of libc or of the shim.
* Limits of the Rust and native stacks, and of memory (the shim does not look at what malloc
  answers): properties of the platform.
* clap's handling of arguments; two files with one stem in one directory are told apart by
  process ids alone, as in the code.
* `tests/integration.rs` and `tests/cli.rs` drive the built binary as a process; the
  programs of the unit tests are in the suites.
