# Verification of HolyC

HolyC is a compiler and an interpreter for the HolyC language: preprocessor,
lexer, parser and semantic analysis feed a tree-walk interpreter, and an LLVM
code generator whose code runs against a small runtime, compiled ahead of time
or just in time.  Around them are a cache of compiled modules, an interactive
session, a formatter and a language server; a standard library is written in
HolyC itself.

This directory holds TLA+ models of the parts of it that keep state, the TLC
configurations that check them on small instances, and proofs, checked by TLAPS,
of theorems about them for every instance.

    tlc -workers 2 -config MCExecution.cfg MCExecution.tla
    tlapm InterpControlProofs.tla

## 1. The system

| component | state | operations | interacts with |
|---|---|---|---|
| Interpreter, control (`src/src/interpreter/Interpreter.cpp`) | `call_stack_`, `signal_`, `pending_goto_`, `labels_`, `current_func_name_`, `method_cache_`, the C++ stack | `run`, `eval`, `reset`, `execStmt` and the `exec*` functions, `evalCall`, `resolveMethod`, throw, catch | the tree the parser built; the REPL |
| Interpreter, variables and values (same file, `Value.h`) | the frames' `vars` and `static_keys`, `globals_`, `static_vars_`, struct layouts | `execDecl`, `setVar`, `getVar`, operators, field loads and stores | control: who pushes and pops frames |
| Heap (`interpreter/Heap.h`) | table of live blocks | `alloc`, `calloc`, `realloc`, `free`, `size` | `malloc` and the interpreter's builtins |
| Semantic analysis (`sema/`) | `Env`: scopes, shadow stacks; current function and class | `analyze*`, `pushScope`, `popScope`, `define`, `lookup` | the parser's tree, diagnostics |
| Preprocessor | include stack, condition stack, depth of a skipped group, macro table | `produce`, the `handle*` directives, macro expansion | source manager |
| Lexer | position | `next`, `skipWhitespaceAndComments`, literals | source manager |
| Parser | current token, lookahead, nesting depth | `parse*`, `expect`, `synchronize` | lexer, diagnostics |
| Code generator | insertion block, `breakTargets_`, `continueTargets_`, `labelBlocks_`, `locals_`, `globals_` | `lowerStmt`, `lowerExpr`, `lowerDecl` | the runtime's functions |
| Runtime of compiled code (`runtime/holyc_rt.cpp`) | try stack, exception code, variadic buffer, one each per thread | `__holyc_try_push`, `__holyc_throw`, `__holyc_va_store`, ... | the generated code |
| JIT cache (`driver/JITCache.cpp`, `main.cpp`) | files named by key, temporary files | `lookup`, `store` | other compiler processes, the file system |
| Driver and REPL (`driver/main.cpp`) | accumulated input, scan state, one interpreter | read, analyse, evaluate, run | all of the above |
| Formatter (`driver/Formatter.cpp`) | output, kind of the previous tokens, open parentheses | `format`, `emitBlockCommentsBefore` | lexer |
| Language server (`lsp/LSPServer.cpp`) | open documents, one pending parse, `initialized_` | `run`, `handle*`, `flushPendingParse` | front end, the editor |
| Source manager, diagnostics, arena | files, line tables with a query cache, error count | `getLocation`, `report`, `alloc` | everything |
| Standard library (`stdlib/*.HC`) | queue, hash map, vector, stack, list, set, tree | their operations | user programs |

What is hard in it, and hard to test:

* The interpreter turns `break`, `continue`, `goto` and `return` into a signal that
  every C++ activation on the way must pass on, absorb or turn into something
  else, while calls push and pop frames and exceptions unwind the C++ stack past
  all of them.
* Variables are looked up by name at run time, through the frames of the callers,
  while the language promises lexical scope.
* A program has two executions, interpreted and compiled, that are written apart:
  control flow, names, class layouts and operators exist twice.
* Scopes, conditional groups and line tables are kept in two representations that
  must agree.
* The generated code shares one try stack and one argument buffer per thread with
  the runtime, and must keep them balanced on every path.
* The JIT cache is shared by processes that may be killed, and may be stale.
* Loops of the parser must end on any text, most of them after an error.
* The session and the language server outlive every program and every text, and
  what one leaves behind meets the next.
* The same text is scanned by three scanners, which must agree where literals
  and comments end.
* The containers of the library keep redundant fields that must agree.

Only the JIT cache and the pipe between editor and server are concurrent; the rest is
sequential, and the interleavings that matter are those of nested activations and
of long sequences of inputs.  `PROJECT.json` lists the hazards at their lines, and the
properties that would catch each.

## 2. Modules

| module | models |
|---|---|
| `HolyCAst` | statement trees: what the parser guarantees (`WellFormed`), `scanLabels` (`Scanned`, `LabelEntry`), classes of programs, among them what the compiler can take (`Compilable`) |
| `InterpControl` | `run`, `execStmt`, the `exec*` functions, `evalCall`, throw and catch |
| `ControlFlow` | abstract: C control flow with try/catch on a stack of activations |
| `VarStore` | what a program declares; frames' variables, globals, statics and their keys |
| `LexicalScope` | abstract: what variables mean |
| `MethodCache` | how a method call finds its function, and the cache of it |
| `Codegen` | lowering of statements to blocks, and the blocks run with the runtime's try stack |
| `Operators` | the integer operators, interpreted and compiled side by side |
| `ClassLayout` | where fields lie, and what loading and storing one touches |
| `VarArgs` | the runtime's buffer of variadic arguments |
| `SemaEnv` | `Env`: scopes and shadow stacks |
| `NameWalk` | what names stand for in Sema and in the code generator |
| `Preprocessor`, `CondGroups` | directives and includes; abstract: what conditional groups promise |
| `Parser` | the recursive descent, as a stack of what is to be parsed |
| `TextScan` | comments and literals in lexer, REPL and formatter |
| `Formatter` | tokens and comments written again |
| `LineCache` | `SourceManager::getLocation` |
| `JITCache` | lookups and stores of several processes |
| `Repl` | the interactive session |
| `LspServer` | the language server and its editor |
| `StdHashMap` | `hashmap.HC`, with the rehash slot by slot and failing allocations |
| `StdQueue`, `StdVector`, `StdStack` | `queue.HC`, `vector.HC`, `stack.HC`: growing buffers |
| `StdSet`, `StdTree`, `StdList`, `StdSort` | `set.HC`, `tree.HC`, `list.HC`, `sort.HC` |
| `StdRegex` | `regex.HC`, and a matcher that follows every choice at once |
| `KeyMap`, `ItemSequence` | abstract: what the map, and what the queue, the vector and the stack promise |
| `*Proofs`, `CommonLemmas` | theorems; facts about sequences, intervals and least elements that several of them need |
| `MC*` | instances for TLC, with small programs |

An abstract module stands behind every refinement: `InterpControl` and the code that
`Codegen` generates implement `ControlFlow`, `VarStore` implements `LexicalScope`,
`Preprocessor` implements `CondGroups`, the containers implement theirs.

### InterpControl and ControlFlow

`ctl` is the C++ stack.  An element is one active function; `at` is where it will go
on: a return address, and the loop variables (`i`) that survive.  An action is
what the code does from one such point to the next: until it calls `execStmt` or
`evalExpr`, or comes back from it.  The other variables are the interpreter's
fields.  `flow` is history: for every function of the *program* that is active, the
last statement begun.  A frame's return value is identified by the return
statement, so that properties can ask whose value it is.

What is abstracted: the value of a condition (a test may go either way, so each
model contains every run of the program whatever its data), the effects of
expressions on data, arguments (they are evaluated without effect on control),
the frames' variables (that is `VarStore`).  `signal` guards `execStmt`, as in the
code, but not the calls that bypass it (`ExecBody`).  A `#exe` block behaves as a
compound.  The top level of a program is a compound of its statements; top-level
declarations run even under a pending signal, which only a program that breaks
outside a loop can tell.  `reset` and the REPL are in `Repl`.

`ControlFlow` says nothing of signals, frames, labels tables or C++: from the
statement an activation has reached, it gives the statements that may be begun
next.  `InterpControl` implements it under `act <- flow`.

### VarStore and LexicalScope

A step of `VarStore` is one operation the program performs on variables: a
declaration, an assignment, a read, a call, a return, entering or leaving a try or a
catch clause, a throw.  Which operations a program performs is left free, within
what Sema lets it name (`Resolves`): names its body has declared, and globals
declared so far.  A frame holds values and static keys; `calls` is the C++ stack
with the `saved_func_name` of `evalCall`.  `Newest` is the frame in which the walk of
`setVar` and `getVar` ends.  Throwing restores nothing, as in the code.
A name declared twice by one body and an access before the declaration are
rejected by Sema or excluded by `NoCapture`; parameters are locals declared first.

`LexicalScope` keeps the variables of each activation apart, and statics by function.
The refinement takes an activation's variables from the frame pushed for it.

### Codegen, VarArgs

The recursion of `lowerStmt` is the list `todo`: a statement to lower, an instruction
to emit, an insertion point to move to.  `code` is the module, `ins` the block of the
builder, `breakTo` and `continueTo` the target stacks.  When `todo` is empty and the
module verifies, the blocks run: `stack` holds the calls, `tryStack` is the runtime's.
A branch goes to any of its targets.  Debug locations (`mark`) tell which statement was
reached, which is how the run is compared with `ControlFlow`.  What the verifier
would reject is `ModuleVerifies`; running such a module is `"undefined"`.

`VarArgs` has the buffer of a thread, the call that fills it and the reads of the
activations.  A call without extra arguments does not touch it.

### Operators, ClassLayout

A state of `Operators` is a program's variables twice: `vals`, the interpreter's words
with their kinds, and `mem`, the words of the code with the bits they are declared
with.  A step is an assignment with an operator, as evaluated by each.
What LLVM leaves undefined gives any word.  `parted` is set where the two are known
to go apart: an undefined result, a number the declared type does not hold, a sign
that is read differently, a side effect that only one performs.  `ResultsAgree` is
about the sequences of steps before that.  Locals only: the store to a global extends
by zeros (`LLVMCodegen.cpp:1252`) where the store to a local extends the sign.

`ClassLayout` adds members one by one, as both passes do, and starts a derived class
at any moment.  The pieces of earlier classes stay to be compared with.

### MethodCache, Repl, LspServer, JITCache

`MethodCache`: classes are declared, again or for the first time, and methods called,
in any order.  `called` is the call made last.  A chain of bases that is a cycle makes the
call hang, as the loop in the code does.

`Repl`: a line opens a brace, a parenthesis or a comment, closes it, does neither, or ends
with a backslash.  `scan_st` counts braces and parentheses apart, as `scan_line` does, and an open
comment hides what the lines hold; `needs_more_input` goes on while any of them is open.  A
line that closes what is not open leaves a negative count, until the next text.  Literals that are
open at the end of a line are left to `TextScan`.  A text that is complete is one of a few
units, each ending in its own way (value, throw, `break` at top level, `return`,
error), or `Garbage`, which stands for every other text and is wrong.  `last` tells what became of the
text met last, until the next is begun.  The user may end the input anywhere.  From then on every
read gives an empty line, at once; what that does depends on the build (`HCC_HAS_READLINE`, which
CMake sets when it finds the library): with `getline` an empty prompt ends the session, with
`readline` nothing does.  Where the input is a terminal, `readline` asks it again after a
Ctrl+D, so that there one is an empty line and no end.

`LspServer` includes the editor: it opens, edits and closes documents, and its messages
wait in a pipe of bounded length, because a write to a full pipe blocks.  A text is the number of its edit, the editor
sends whole texts.  `Tick` is the passing of 150 ms; `Serve` one turn of the loop.

`JITCache`: a process reads its source and its context, looks the key up, compiles,
writes a temporary file, renames it and runs.  It may be killed between any two steps,
the disk may be full, and anybody may delete a cached file.

### SemaEnv and NameWalk

`scopes` and `shadow` are the two members of `Env`; a declaration is its number, and
`home` (history) remembers the depth at which it was made.  Operations come in any
order `Env` admits; Sema itself calls `defineGlobal` only for the builtins.
`Redeclare` chooses whether a nested scope may declare a name twice.  Sema does not
forbid it, and with `Redeclare = TRUE` `PopForgets` does not hold: `define` pushes
both declarations on the shadow stack, and popScope takes one away.

`NameWalk` walks a text that is chosen as it goes, with Sema opening and closing the
scopes of `SemaEnv` and the code generator filling its flat table `locals`.  For every
use, what the two take the name for can be compared.  `Parted` names the texts for
which they differ: a local of a block that was left, a name declared twice
in nested blocks, two statics of one name, `__except_code` of nested catch clauses, a
field that a later global hides, a function hidden by a method.

### Preprocessor, Parser, LineCache

Texts are chosen as they are read, one item a step.  In `Preprocessor` an item is a
directive, a word or the end of a file; `mode` tells which of the three loops of the
code reads it.  `line` remembers the last item and whether it was taken, which is what
`CondGroups` predicts.

`Parser` keeps the open calls as a stack of what is still to be parsed, a token to
expect or a rule; the tree is left out.  Every loop, every error path and
`synchronize` are there, as is the depth limit.  `StandsStill` names the four places where a
loop goes on at a token that nothing consumes.

`LineCache` answers queries in any order about any file of a few bytes.

### TextScan and Formatter

`TextScan` gives one text, character by character, to the lexer, to the REPL's
`scan_line` and to `trailingComment` of the formatter.  `Parting` names where they go
apart.  `Formatter` draws tokens, newlines and comments from a grammar and writes them
as `format` does; it compares what was written, as the lexer would read it, with what
was meant.  A line between two tokens is known by what the formatter sees of it, whether it begins
with a comment (`starts`) and whether a `*/` is on it (`closes`), and by what the lexer
makes of it, how many comments are open before and after it (`from`, `to`).  The two differ, because
comments nest for the lexer only: the formatter stops copying at the first `*/`.
`Awkward` chooses which of the texts that do not survive are included: `"signs"` behind signs,
`"directives"` followed by a statement, and the `"comments"` of `OpenCopied`: one nested in a copied comment or
begun behind its end (`Reopens`), a copied one nested in a dropped one (`WithinDropped`), one that is
copied and ends on a token's line (`EndsAtToken`), one that is begun on the line of a `#define`.

### The library

One action is one call of a client, because nothing runs beside it.  The exception
is `HashMapRehash`: it calls `HashMapSet` for every entry while the map's entries are
in two tables, so its loop is `StartRehash`, a `CopySlot` per slot and
`FinishRehash`.  A string is a key, and the hash function any function: `_HMSlot`
is modelled by where its scan stops and which tombstones it passes.  A capacity is
any positive number; the code's are powers of two, so its `& (cap - 1)` is `%`.
Memory nobody has written holds `Junk`, which no property lets a client see.

`Crash` stands for indexing the NULL array of a map whose allocation failed.  The
refinement mapping of the map looks for a key in the new table and then in what
is left of the old one; that of the queue reads the ring from `head`.
`StdSort` keeps the active calls of `_I64QSort` with the range each has left; a step
partitions one range, or sorts a short one.  `StdTree` builds trees again and again
in arrays that hold the links of the tree before, which is what `TreeFree` leaves.
`StdRegex` writes a pattern character by character, and its properties match it against every
text; what a matcher could read behind the terminator is part of the text's memory.
`StdList` moves nodes between two lists, the client's hands and the heap.

## 3. Runs

| run | instance | states | result |
|---|---|---|---|
| `Execution` | programs of the shapes of `MCExecution`, interpreted and compiled; three programs of variables; variadic calls; classes; operators | 304598 | passes |
| `FrontEnd` | directives, texts of five tokens, scopes, names, queries, scanners, formatter | 1415368 | passes |
| `Tools` | compilers sharing a cache, a session, method calls, the language server | 330009 | passes |
| `HashTable` | four colliding keys, growth from three slots to six, failing allocations | 20822 | passes |
| `Containers` | the other containers, the sort and patterns, one at a time | 87015 | passes |
| `InterpGoto` | a goto out of a loop | | `GotoReachesLabel` fails |
| `VarCapture` | a local with the name of a global that a callee uses | | `ImplementsLexicalScope` fails |
| `CompiledTry` | a jump out of a try body, compiled | | `ThrowReachesNearestTry` fails |
| `ClassStore` | fields of one, three and eight bytes | | `StoresOnlyItsField` fails |
| `ParseEnds` | texts of a few tokens | | `ParseEnds` fails |
| `SemaNames` | declarations the parser wraps in a compound | | `DeclaredAreKnown` fails |
| `EndOfInput` | a session of a build with readline whose input ends | | `CtrlDExits` fails |

The failing runs each show that the code departs from what its documentation says;
`PROJECT.json`, "findings", quotes both.  The classes of programs and texts of the passing
runs are what remains when those departures are set aside, and they are stated as
operators (`GotoSafe`, `LocalThrows`, `NoCapture`, `NoJumpOutOfTry`, `Compilable`, `Parted`,
`Parting`, `Awkward`, `StandsStill`, `Undefined`, `ReadDifferently`), so the limits of what holds are part of the
specification.

What each passing run asks:

* `Execution`: the walker and the generated blocks both run as the source reads; frames, return values,
  signals and the jmp_bufs of tries are where they should be; modules verify; names are
  lexical; a variadic function reads its own arguments until another call passes some;
  fields are apart; operators give the same words.
* `FrontEnd`: exactly the active lines are taken; an accepted text is balanced, and the parser ends
  or stands at one of four places; lookup is innermost and closing a scope undoes
  exactly it; names mean the same to Sema and to the generated code; messages are on
  their line; the scanners agree; each formatted token is read again as what it was.
* `Tools`: a process runs the module of its own text, a published file is whole, a
  compilation ends; a text is handed over when nothing in it is open any more, and what came
  before neither keeps a correct one from being run, unless a `break` was left, nor has it
  run twice; a method call runs what its class says now; the editor
  shows the diagnostics of a text it sent, never of an older one after a newer one,
  and of the last in the end.
* `HashTable`, `Containers`: each container is what it promises; see the modules.

Bounds.  Interpreted shapes nest a loop, a switch, an if, a try, a label and
calls three deep (`MaxCallDepth = 3`, so that the overflow is reached by recursion),
and their holes take every statement that redirects control; a signal crosses at
most each kind of activation once or twice, and no function looks further than
one activation above it.  Conditions are free, so loops run any number of times.
Compiled programs run with four calls (`MaxDepth = 4`): two that try, their caller and the
one that throws.  Variables: two frames (three give the same result, at a million
states), two functions, two names, two values: one name to collide with, one not to.
Variadic arguments: two slots, up to three extras, three active calls, so a call
fills the buffer and one overruns it.  Classes have four members, among them
bit-fields that share a word, end it and fill all but a part of it.  Operators: words of
three bits and narrow ones of two have a least number, -1, amounts in and out of range,
and overflow; two variables of each type (four bits give the same result).

`SemaEnv` needs three scopes for a scope to lie between the one closed and the global
one; `NameWalk` needs the fourth, because a catch clause in a function opens two.  With four
declarations a name can be hidden and uncovered again, and a function, its parameter, the code of a
handler and a variable of it can bear the same two names.  A text of five tokens opens three bodies within each
other, of any kind, or breaks off inside of one; the depth limit, six, is below what
such a text needs.  Six directives and words in three files, with two macros, reach
a group skipped within a skipped group, an include in each branch and a group left open at the
end of a file.  Files of five bytes have every arrangement of lines.  The scanners' text has
any length, because it is forgotten as it is read; literals count to nine bytes, one more than
a character may have.  The formatter's text has any length, too, with two brackets open and two
lines between tokens, and two comments in each other: enough for one that is nested in a copied or in a
dropped comment, for one behind the end of another, and for one that is still open at a token.

Two processes, two source texts and one context (with two contexts `RunsItsContext` fails)
reach every race of lookup, write, rename and delete; a third process would be in one of
their places.  A session accumulates three lines, so that something is typed between the
beginning and the end of a text; it has a unit for each way to end, and units on two lines with a brace, a
parenthesis or a comment between them.
Three classes and one method make a chain of bases with the method at each end.  Two
documents, one more than the server remembers a change of, four edits and two waiting
messages let a change overtake, replace and follow the pending one.

`HashTable` has keys that share a slot and one whose chain wraps around; three slots
make a rehash move two entries and tombstones, and six are reached with the table
crowded and growth refused.  Fewer keys than the largest table has slots: a table
of 134217728 slots filled to the last is out of the model's and a program's reach.
Two values tell two keys, and the old and the new value of one key, apart.
Queue and stack start at three slots, the limit: they double
once, are refused, and start again with one slot after they were freed.  The set has
six keys for four slots, the tree six for four nodes, the lists three nodes that move
between two heads, and the sort sees every array of up to seven elements of three
values, with ranges of three instead of sixteen left to the insertion sort: enough
for two levels of recursion, empty parts and equal elements.  Patterns have up to four of ten
characters, texts up to three letters; the depth of four is exceeded by a pattern of four
literals, and ten calls by most that repeat.

Parts that share no state are composed into one instance for TLC, a behaviour being
about one of them (`which`), so that the list of runs stays a list of questions.
An instance extends the modules that hold the theorems about its parts, or those the theorems extend, so a run and a
theorem speak of the same definition, and TLC evaluates every assumption the proofs use.

Deadlock is not checked where the system really stops: a compiled program ends, as
does a parsed text; a session and a server end; the scanners stop where they part,
the operators where the two ways of running do, a map without a table crashes, and the bounds on directives, declarations
and edits end the rest.  It is checked in `Containers`.
In `InterpControl` the only way to stop is `Ended`, and `ImplementsControlFlow` says that it is
one of `ControlFlow`'s ends.

Liveness, and why the fairness is justified:

* The parser (`WF(Next)`): it runs alone until it returns.  `EndsOrStandsStill`.
* A compiler process (`WF(Step(p))`): the system schedules it; being killed is a step
  that may or may not happen.  `Terminates`.
* The session (`WF(ReadAtEof)`): at the end of the input a read, by `readline` or by `getline`, returns at
  once, and the loop reads again.  The user's lines are under no obligation.  `CtrlDExits`, which fails: the
  fairness excludes only that the program stops by itself.
* The server (`WF(Serve)`, `WF(Tick)`): it does nothing else, and time passes.  The editor is under none, but
  `KeepsUp` assumes that messages keep arriving: `readMessage` blocks, and what is pending
  is only parsed when it returns.
* The interpreter and compiled programs end only if the program does: no liveness is
  claimed.

## 4. Proofs

`PROJECT.json`, "theorems", lists the results; the lemmas stand before them.  Each
paragraph below names the inductive invariant and says why the property is not inductive
without it.  Two devices recur.  What is true of all numbers of an interval, or of
all nodes of a tree, is shown by a least counterexample (`CommonLemmas`), the nodes of a tree
being numbered parents first, or for ranges of integers by `IntegerInduction`.  And a function that a
definition builds by recursion is used only through a lemma that says it exists and satisfies its
equation (`IterationExists`, `TurnsExist`, `PathsStep`).

### The walker: `InterpControlProofs`

Assumptions: the programs are well formed (each body is a tree, its nodes numbered parents first,
no child met twice), `MaxCallDepth` is positive, and the names
of functions and labels differ from the markers of the model.

*Frames.*  For every set of such programs and every depth limit `TypeOK`, `FramesCoverCalls` and
`ReturnValueInFlight` always hold.  None of
these is inductive.  `FramesInv` adds: the activations belong to the program and
stand at points their statement has (`Fitting`); an activation that is not on top
waits at a point that looks at the signal, unless what it waits for is a call,
which clears the signal (`Waiting`); and with `Return` on its way the top activation
is unwinding (`ReturnUnwinds`).  So nothing is called or thrown while a return value
is in flight, and the value is gone with its frame before anything else begins.

*Whose value.*  `Nested` says how activations stand on each other: each runs for a child of the
statement below it, or is a call that the statement below waits for.  With it
`OwnReturn` is inductive, a value in flight being of the function it is in, and gives `ResultIsOwn`
(`ResultIsOwnHolds`), exceptions included, because a throw takes frames and values away together.

*What is saved.*  `Kept` relates what each activation saved to the activation below:
a statement saves what its parent did, a call one frame more and its own labels; and the
top one finds the interpreter's fields as it saved them.  So the depth saved is the
number of calls below.  It holds where every exception is caught in the call that raises it, and is
`ContextKeptWithoutCrossing` (`ContextKeptHolds`).

*Control flow.*  `ImplementsControlFlowHolds` is the refinement, step by step, for programs of any
size and any depth of calls; `SignalsInFlightHolds` rests on the same invariant.  `Flowing` says what
the C++ stack means for `flow`, the statements last begun.  `Stands` does so for the top
activation at each of its points: a loop about to go on at child `i` means that this child may be begun next; a
statement that has come back means, by the signal it came back with, that what follows it, or
the loop's next round, or what follows the loop, or the label, may be begun (`Came`).
`Waits` says it for the activations below a call.  A step that begins no statement changes
how `Stands` says it, and not what may be begun; a step that begins one begins one
of those.  A function that ends has `flow` shortened to where its caller waited, and there
`Waits` has kept what may follow.  `Going` is the whole invariant.

Hypothesis: `Safe(p)` for every program: it is legal C (`CLegal`), its gotos lead where the label
table can follow (`GotoSafe`), and if it has any, its exceptions stay in the call that raises
them.  It is a hypothesis and not an assumption on the constant because the run `InterpGoto` has programs without it, and
its violation shows that the second part is needed.  The programs of `Execution` that are
compared with `ControlFlow` are exactly the safe ones (`FlowPrograms`).

### The generated module: `CodegenProofs`

`ModuleVerifiesHolds`: for any set of programs of any size, what `Codegen` generates passes the verifier.
That every block has its end cannot be said of the blocks alone while they are being made, because the
insertion point moves away from open ones and comes back; it is a fact about what is left to do.
`Compiling` therefore says that there is a `Path` through `todo`: between any two tasks a state (whether
the insertion block is open, the targets of break and continue, the blocks made so far), such that each
task takes one to the next; that every block is closed, is the one written to, or will be moved to
by a task that is still on the list; and that the blocks which statements apart from
each other may make are apart (the claims).  For each kind of statement, what it is replaced by is such a path again
(`Leads`), and names only blocks that exist or that it makes (`Settled`).  A statement that closes the
block, with dead code behind it, is where `Closes` comes in.  Once generated, the module stays as it
is (`Verified`), and every activation stands at one of its instructions (`Running`).

Hypothesis: the programs are well formed, legal C (`CLegal`) and `Compilable`, which leaves out
the labels that get no block and the labels and throws in places where the compiler leaves a block open
(section 5).  `CompiledPrograms` of the run are such programs.

### Variables, arguments, classes: `ExecutionProofs`

`ImplementsLexicalScopeHolds`: for any functions, names, values and number of frames, `VarStore`
implements `LexicalScope`, and a catch clause sees the code it caught.  `VarsInv` says that the frames are those of
the active calls, in order, and that the name saved by each call is its caller's (`Stacked`); that a frame holds
the names its activation has declared and no others (`OwnNames`), so that the walk to the nearest
frame passes every frame of a caller or stops where the text says; and that the code a clause
has caught is in the nearest frame that has any, or global (`CodesSeen`).  Hypothesis: `Tame(d)` for
every program: no name of a local captures one a callee takes from the globals, no top-level statics, no exception leaves its
call or is raised in a catch clause.  The run `VarCapture` has programs without it.  `VarsAssumption`: `Main`,
the top level and `__except_code` are not among the program's names.

`OwnArgumentsRead`: for any number of slots, values and calls, an activation reads its own arguments as long
as no other call has passed any.  `BufferInv` ties the buffer to the last such call.

`FieldsKeepApartHolds`: for classes of any length and any sizes.  `LayoutInv` adds to the property that everything lies
between the beginning of the class and `off`; that in a run of bit-fields only
unions lie behind the word they share, and no bit-field beyond the bits used; and
that the two passes have come equally far as long as only plain fields came, which is
what the debugger's offsets need.  Aligning, which masks bits, is shown never to go back.
`LayoutAssumption`: sizes are positive, a bit-field has at most 64 bits, a union has members.

### Front end: `FrontEndProofs`

*Scopes.*  When no nested scope declares a name twice (`~Redeclare`), `TypeOK` and
`LookupIsInnermost` always hold and popScope satisfies `PopForgets`,
`PopReveals` and, with both, `ClosingIsExact`.  `EnvInv` is the invariant: the declarations on a name's stack come from
open scopes that bind the name, inner ones higher, and every open scope's binding
is on the stack with only bindings of inner scopes above it.  The last part is what
makes the comparison in popScope always find its binding on top.  It fails without
the assumption.

*Names.*  `NamesMeanTheSameHolds`, for any names and any nesting, under `~Redeclare`: the code generator takes
an identifier for what Sema has checked.  `NameInv` is `EnvInv`, with one kind to every
declaration, and `Walked`: the scopes that are open and the operations on `Env` that are still
to be done amount to the constructs that are open (`Remaining`, `Nested`); the first
scope of a catch clause binds the exception code (`Caught`); and the flat table `locals` has, for every
name, the variable of the innermost scope that has one (`Tables`), unless a declaration of the name has
gone out of scope, which is what `Parted` names.  The comparison of the two is stated only
between operations, and so is not inductive.  The exception code is among the names.

*Positions.*  `PlacedOnItsLineHolds`, for texts of any length and any order of queries: `PlacesInv` says
that lines ascend, and that the remembered line begins at or before the remembered offset
and an answer was right; so a forward scan from the remembered line and a binary search
end at the same line.

*Directives.*  `ImplementsGroupsHolds`, for any macros, files and limits: the preprocessor implements `CondGroups`, and no file is
read inside itself.  `CondInv` says that outside of the loops that skip, every group is active and nothing is skipped;
inside of them all but the last are, and the last waits for a branch or for
its end, as the loop does.  So the depth counted while skipping is the number of groups
above that one.  `MaxInclude` is positive.

*Parser.*  `AcceptedIsBalancedHolds`, for any text and any depth limit: what is parsed to the end
without an error has every brace closed.  `BalanceInv` says that, without an error, the braces opened are those
that the rules on the stack will still close (`Ahead`, which counts a brace that was read and not yet
taken), that a rule takes only first or after the name of a label (`TakesFirst`), and that
`synchronize` is on the stack only after an error (`SkipsNothing`).  Each rule keeps the sum.

*Scanners.*  `ScannersAgreeHolds`, for a text of any length and any limit of a literal.  The lexer skips
escapes and the ends of comments whole, the REPL and the formatter one character at a
time, so at many moments the three are not in the same place.  `ScanInv` says how far apart they may be:
`SkipsTogether` ties what each has still to skip to the mode it is in and to the character
that is next, and on a line without a comment or a quote the formatter's scanner is the
REPL's (`plain`).  It claims nothing after something that `Parting` names was met.

*Formatter.*  `FormattingRoundTripsHolds`, for tokens in any number, brackets nested to any depth and any
number of lines between two tokens.  `FormatInv` has three parts.  `Counted`: `indent_` and `paren_depth_`
are those of the brackets open before the token, so the clamps at zero never act on such a text.  `Neighbours`:
what the grammar, the lines of directives and the texts left out say about two tokens next to each other.
`Written`: the output is such that the token can be written now: it is not within a comment
(a comment that ends the output stands only before a closing brace, which begins a line of its own), it is on the line of a
directive only if the token is, and it does not end in a sign that the token would join.  Hypothesis: nothing `Awkward`
is in the text.  With anything `Awkward` the property fails (section 5).  Between two tokens `CopiedTo` is the
invariant of the lines: either none was copied, or so much was that a lexer of the output is within as many
comments as one of the text is, and the formatter copies on exactly where that is not zero.
The theorem is about tokens.  It says nothing of comments, some of which are dropped.

### Containers: `ContainerProofs` and `StdHashMapProofs`

*Queue.*  For all capacities, limits and values, `TypeOK` and
`RingConsistent` hold, and the ring implements
the queue of `ItemSequence` (`QueueIsFifo`).  The
two together are inductive; the
refinement goes through the elements one by one, with the arithmetic of `%` in
lemmas: unrolling a wrapped ring keeps the sequence, and so does each store.

*Vector and stack.*  Both implement `ItemSequence`, taken from its end (`BuffersAreSequences`, the property of
the run).  The invariants say that the first slots are written and that the length is at most
the capacity.  `VecPush` writes behind a buffer that `VecGrow` has refused to enlarge; the
client therefore keeps to `CapLimit + 1` elements at most (`VectorBounds`), and the push that is refused is shown not
to be reached.  `StackPush` returns first, and needs no such client.

*Set.*  `SetAnswersRightHolds`, for a table of any size.  While nothing is removed, every slot between a
key's home and the key is used (`Chained`, in `SetInv`); storing a key where its search ends leaves every other
search as it was.  Removal breaks chains, so nothing but the key just removed is
claimed after one.

*Tree.*  `TreeIsSearchTreeHolds`, for any keys and number of nodes, in arrays that hold old links.  `TreeInv` says that links lead
to newer nodes (`LinksAscend`), so a search ends; that each node is met by the
search for its own key (`Placed`), so two nodes have different keys; and that each but the root is linked
once (`LinkedOnce`).  A new node becomes the end of exactly the searches that ended at its
place.

*Lists.*  `ListsStayRingsHolds`, for any nodes and heads, and pushing, inserting, removing, popping and freeing in any
order.  The links alone do not say which list a node is in.  `ListInv` therefore says that there is an
assignment of sequences of nodes to the heads such that the links of each head and its sequence follow
one another around, in both directions; that a sequence names no node twice and allocated ones only, and
that two name none in common; and that an allocated node in no list links to itself, so removing it
again does nothing.  Every operation is a change of these sequences.  That the walk from a head ends
at that head follows from them.  `ListAssumption`: the nodes are finite and no node is a head.

*Sort.*  `SortSettlesHolds`, for arrays of any length and any integers: the whole of the property, with
the step of its variant.  `SortInv` says that the array is a permutation of the input (`Rearranged`,
by the places the elements came from), that two elements out of order lie in the range of one active call
(`OutsideOrdered`), that the ranges of two calls are apart (`FramesApart`), and that the range of the call at depth
`k` is at most a `2^k`-th of the array (`FramesFit`), as the larger part is left to the loop and the smaller
one to the call.  The partition is followed through the iterations of its loop.  That the array is in order at the end
is `OutsideOrdered` without calls.

*Hash map.*  For all keys, hash functions and capacities and through
rehashes and failed allocations, `TypeOK`, `StoredKeysAreFound`, `CountersKeepRoom` hold and
the table implements `KeyMap` (`HashMapIsKeyMap`).  `StoredKeysAreFound` is not
inductive: `MapInv` says instead that every slot between a key's home and its entry
is occupied (`Chained`) and that a key has one slot (`OneSlotPerKey`).  Filling a slot
and leaving a tombstone both keep slots occupied, which is why deleting does not
break a chain.  The set of `set.HC` leaves no tombstones, and its chains do break, as
`StoredKeysStayFound` of `MCContainers` states.  `CounterInv` adds that the counters agree
with the slots, that a table that may grow is at most three quarters full, and that a
rehash has counted no more entries than it has copied.  `RefInv` adds that an entry is in one of
the two tables.  The refinement assumes `NotFilled`: a table that cannot grow any more keeps a
slot that is not in use.  Without it `_HMSlot` answers an absent key with another key's
slot.  A program keeps it by storing fewer keys than the largest table, of 134217728
slots, has; the instance of `HashTable` keeps it by its four keys.

### Around the compiler: `ToolProofs`

*Module cache.*  For any processes, texts and contexts and through crashes,
deletions and full disks, a process runs a module of its own text (`OwnTextRuns`)
and what is published under a key is whole (`CachedFilesAreWhole`).  `CacheInv` says of
each temporary file whose it is and that it is whole once its process is past the
write; only such a file is renamed.

*Method cache.*  For any finite set of classes, any methods, and however classes are
declared and declared again between calls: what the cache remembers is what the loop over the
bases would find now (`CacheStaysCurrent`), because whatever changes the declarations empties
the cache.  `MethodsAreCurrentHolds` adds that the loop finds the nearest class along the bases
that has the method, or the last one if none has; a chain that ends visits no class twice.

*Session.*  `TextsAreAnsweredHolds`, for sessions of any length, in both builds.  It states when a text is handed over
and how often what it holds is run, not that it is answered: an expression without a value is run twice (evaluated
and, as nothing was printed, run), and a text behind a pending `break` not at all.  `SessionInv` says that each
of the scanner's counts, and whether it is in a comment, is what the accumulated lines have open (`Scanned`), that
every prefix of them leaves something open (so the first complete line is the last), and
that only a `break` can be pending between inputs.

*Language server.*  `DocumentsAreServedHolds`, for any documents, edits and waiting messages.  `LspInv` says that the texts in the pipe come in
the order of the edits and after all that were read (`InOrder`, `ReadBefore`), that nothing newer than the
document's text is shown or parsed (`ShownAfterRead`), that the last message about a closed
document is `didClose` (`ClosingInOrder`), and that `initialize` comes first (`Introduced`).  So diagnostics
never go back, and a closed document's are not shown again.

### Only model-checked

* The generated code as it runs: `TryStackMatches`, `CodeImplementsControlFlow`.  Nothing here is out of
  reach in principle: `CodegenProofs` says that the blocks fit together, but not yet, for every
  program, which statement each of them stands for.
* `ResultsAgree`: `Operators` needs the bitwise operators, for which no backend has a theory.
* `PatternsMatch`: `StdRegex` is recursive, and what it computes for every text would need
  induction over data.
* Liveness (`EndsOrStandsStill`, `Terminates`, `KeepsUp`), which rests on fairness and
  ENABLED; both are out of the prover's reach.

## 5. Known not to hold

Besides the failing runs, these definitions state what one would expect and what
the code does not give.  They are kept where they belong, unchecked.

| definition | why it fails |
|---|---|
| `Repl!CtrlDExits`, in the build with `getline` too | at the end of the input in the middle of a text the session reads empty lines for ever, as lines of that text |
| `Repl!LoadExecutes`, `SessionRemembers` | a loaded file is not run if the text has errors; an input is analysed without what earlier ones declared |
| `LspServer!FlushesInTime` | the pending change is parsed when the next message arrives, not after 150 ms |
| `ClassLayout!UnionsApart`, `CompiledFindsInherited` | an anonymous union overlaps a field that follows a bit-field; the code generator does not find fields two classes up |
| `JITCache!RunsItsContext` | the key covers neither included files nor `-D`, `-I`, `-g` |
| `VarArgs!ReadsOwn` | a nested call with extra arguments overwrites the buffer |
| `StdHashMap!NeverIndexesNull`, `MCContainers!StoredKeysStayFound` | a map whose allocation failed is indexed; `SetRemove` breaks chains |
| `StdRegex!MatchesAsDocumented` | `.` matches the terminator (`.` is found in `""`), and what follows it may be read behind the text; a class that is followed by `*` must match once and then lets anything pass, and one followed by `+` or `?` is not repeated: the pattern of `docs.html:1101` does not match its text |
| `TextScan!IncompleteIsSeen` | nested comments, `'` and `"` that a newline ends, `\x` before a quote, literals of nine bytes |
| `InterpControl!StateRestored`, with exceptions that leave a call | labels, current function and frames are not restored |
| `ImplementsLexicalScope` over `RethrowPrograms` | a throw in a catch clause finds the outer clause's code |
| `SemaEnv` with `Redeclare = TRUE`: `PopForgets` | both declarations are on the shadow stack, and one is taken away |
| `FormattingRoundTrips` with anything `Awkward` | a copied comment loses its end, and the tokens behind it are part of it, where a comment nests in it or begins behind it, or where it ends on a token's line; `- -x` becomes `--x`; the statement after `#if X` joins its line |
| `ResultsAgree` with `!` among `UnaryOps` | `!` is lowered to one bit (`LLVMCodegen.cpp:1522`), and a store extends it by its sign (1227, 2212): compiled, `I64 x = !0;` is -1, interpreted 1; the test of `operators.HC` prints it by extending with zeros and does not show it |
| `ResultsAgree` with `U8` | a narrow unsigned variable is extended by its sign when it is used in a wider expression |

Met on the way, and not stated as properties: a label behind `break`, `continue` or
`throw`, and a forward goto into a try or a switch, leave a block without terminator
(`LLVMCodegen.cpp:2721`); a throw in a condition emits after `unreachable`; a global with an
initialiser that is no literal starts as zero (2751); a class that is its own base hangs
the interpreter, and a class declared again keeps its old methods; a macro that names
itself overflows the stack of the preprocessor in a condition; `x /= y` with the least
number and -1 kills the interpreter, although `docs.html:1333` says that division is guarded, and the
generated code guards no shift (`docs.html:1332`); the formatter drops `//` comments that stand alone and
comments on the first line; `"hi\x4"` makes the lexer read past the quote.

## 6. Not modelled

* Heap: one table with one update per operation, which ignores pointers it did not hand out and
  fails only with the allocator.  Local arrays and objects are never freed before the end.
* Lexer: numbers, identifiers and the kinds of tokens are functions of the text.
* Sema: types, and the checks that compare them, are functions of the tree.
* Interpreter: floating point, strings, pointers and the table of builtins, which are
  functions of their arguments or calls of the C library; `#exe` blocks and extern calls.
* Code generator: floating point, pointers, debug information; the passes, the linker and
  LLVM itself.
* Runtime: formatting, strings, files, math: calls of the C library.
* Driver: options, and the modes that only call one part after another.
* Language server: answers to hover, completion and the like, functions of the tree; the
  vendored JSON library (`lsp/json.hpp`, half of the lines under `src/`) is not part of the program.
* Standard library: strings and math: loops over their arguments that leave no state.

## 7. Plan

1. Done: control, variables, methods and operators of the interpreter; scopes, names, preprocessor,
   parser, scanners, formatter; lowering of statements, try stack, variadic buffer, class
   layout; JIT cache, session, language server; containers and sort.
2. Proved: the walker, its signals, frames and variables; that modules verify; scopes, names, directives,
   the parser's braces, positions, scanners, formatter; method and module caches, session, server;
   class layout, variadic arguments; the containers and the sort.  Next: `TryStackMatches` and
   `CodeImplementsControlFlow`, from a `Path` that also says which statement comes next.
3. Then: calls of compiled code with default arguments; the strings of the library
   against reference definitions; the server's index of symbols.
