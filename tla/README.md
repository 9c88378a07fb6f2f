# Radian: a verification project

Radian is a functional language whose loops run in parallel when their
iterations are independent, and whose input and output is done by tasks. The
repository holds a compiler (`src/src`, C++), a vendored assembler
(`src/asmjit`), the runtime a program is linked with (`src/runtime`, C), a library
written in Radian (`src/library`) and a test suite (`src/validation`). At this commit
the driver stops at the flow graph of each function: the linearizer is there and
not called, and the assembler is linked in and not used. Paths below are relative to
`src/`.

This directory holds TLA+ modules that model the parts of it where order,
sharing, lifetime and long histories of calls matter, the TLC configurations that
check them, and proofs that TLAPS checks. `PROJECT.json` lists the components,
the runs, which lines each definition models, the hazards, and for every property
one slip in the code that breaks it (a definition that stands right before the
one it varies and is used nowhere else).

## The system

A program is compiled statement by statement into a graph of values. Loops
become calls of small runtime objects; `yield` and `sync` cut a function into
segments, which the library's `core.radian` and `runtime/flowcontrol.c` string
together as iterators and actions. At run time every value is an immutable
object in a zone: a set of pages that is given back all at once. `RunIO` asks the
program's task for its next action in a scratch zone, performs it, sends the
result in, copies what the task still needs to a fresh zone, and destroys the old
one. A `for each` loop without `sync` ranges over a sequence that was wrapped
by `parallelize`: worker threads run ahead of the loop and compute its elements in
the zone that the loop began in.

### Inventory

| component | source | state it keeps | operations | hard behaviour | correct when | modelled |
|---|---|---|---|---|---|---|
| parallel loop engine | `runtime/parallel.c` | worker table (task, zone, lock), wrappers with four slots | queue, process, wait, read | threads with few locks, unlocked reads, lock tests | wrappers look immutable, nobody works twice, nothing is lost, the loop sees what a serial one would | yes |
| serial loops | `src/semantics/blocks/foreach.cpp`, `loops.cpp` | iterator, context tuple | enter, ask, continue, leave | exceptions in each call | the above is measured against it | yes |
| tasks and generators | `runtime/flowcontrol.c`, `library/core.radian`, `src/semantics/segment.cpp`, `blocks/` | nested immutable action and iterator objects | start, decide, send, next | nesting, idle blocks, exceptions | source order; the program gets to its end | control by itself, and with captured variables as part of the compiler |
| program driver | `runtime/io/io.c`, `ioaction.c` | current task and zone | run, perform, abort | responses that are no actions; lifetime of zones | actions in order; no one uses a destroyed zone | yes |
| allocation zones | `runtime/memory/allocator.c` | pages, lists of groups, index of large blocks, overflow pages | create, alloc, destroy | threads under a lock, exhausted indexes, page bounds | blocks do not overlap; pages are found and released | yes |
| collector | `runtime/memory/collector.c` | object graph, forwarders, C stack | copy, collect | sharing, buffers without a tag | the same graph afterwards, each object once | yes |
| maps | `runtime/containers/maps.c` | AA-tree | insert, assign, remove, lookup, contains, size, iterate | rebalancing | a finite function, balanced | yes |
| lists | `runtime/containers/list*.c` | two chunks and a cold storage of chunks; single, empty and reversed forms | push, append, pop, chop, head, tail, lookup, reverse, concatenate, partition, insert, remove, assign, iterate | spills between levels, index arithmetic | a sequence, with amortized cost | yes |
| numbers | `runtime/atoms/numbers.c`, `fixints.c`, `bigints.c`, `rationals.c`, `floats.c`, `relations.c` | none: values of five kinds | arithmetic, bits, compare, literals | ints that overflow into bigints, digit loops, signs | exact rational arithmetic, in one canonical form | all but shifts, and the rounding of floats |
| flow graph | `src/flowgraph` | pool of interned nodes | intern, fold, rewrite, walk | values reached by many ways | one node per value; operands first | what statements and expressions of the model use |
| linear code | `src/linearcode` | instruction list, addresses | linearize | shared nodes, the pattern of a loop | every operand is there before its use; the code means what the graph means | yes |
| scopes and closures | `src/semantics/scope.cpp`, `symboltable.cpp`, `closures/`, `segment.cpp`, `roots/` | stack of scopes, symbol tables, captures, layers, segments | define, assign, resolve, capture, push segment | assignments in branches, loops and segments | a variable reads its last assignment | all but modules and built-in names |
| statements, expressions | `src/semantics` | the scopes above | one operation per kind | order of evaluation, syncs and yields inside, loops run ahead | the compiled function answers and emits what the program says | most kinds, listed in `PROJECT.json` |
| parser | `src/parse` | position, one token of look-ahead, operator tree, stack of blocks | next statement, match, push operator, begin and end a block | errors and how to go on after them, line breaks, missing ends | errors exactly for texts outside the grammar; blocks match whatever the text | yes |
| abstract syntax | `src/ast` | trees | attach an operator | precedence | | as far as the two rows above need it |
| scanner | `src/lex` | position, line | next token | reading ahead by one character, the end of the file, errors inside strings | the longest token at each place, with its text and location | yes |
| symbols, strings, relations | `runtime/atoms`, `runtime/strings.c` | immutable atoms | compare, convert | none beyond text | | no: text |
| tuples | `runtime/containers/tuples.c` | array | lookup, assign, size | bounds | an array | no: an array with a bounds check |
| objects, exceptions | `runtime/closures.c`, `buffer.c`, `exceptions.c` | words of an object | allocate, throw, catch | exceptions absorb calls | | in the modules that need them |
| input, output | `runtime/io/basicio.c`, `callout.c`, ... | none | read, write, call out | | | no: pure I/O |
| unicode tables, driver, error messages | `src/unicode`, `main.cpp` | | | | | no: generated tables, I/O |
| assembler | `asmjit` | | | | | no, see "Not modelled" |
| platform layer | `runtime/platform` | threads, mutexes, pages | | | | external: only headers are here |
| library modules | `library/*.radian` | immutable objects | sequence transformers, sets, queues, text | | | no |

## Modules

Each component has a module; a module that composes two EXTENDS or INSTANCEs
them; an `MC` module only gives constants their values, or puts the instances of
several components side by side in one state machine whose variable `kind` says
which one a behaviour is about. Theorems stand in modules of their own.

| part | modules |
|---|---|
| parallel loop engine | `SourceIterators`, `SerialLoop` (abstract), `ParallelIterators`, `ProgramZones`, `MCProgramZones`, `ParallelIterators_proofs` |
| tasks and generators | `BlockPrograms`, `Segments`, `MCFlow`, `Closure_proofs`, `Segments_proofs`; `MCControl` puts them beside the engine |
| memory | `Zones`, `Collector`, `MCMemory`, `Closure_proofs`, `Collector_proofs`, `Memory_proofs` |
| containers | `KeyedMap`, `PlainList` (abstract), `MapTree`, `TreeMap`, `FingerTree`, `FingerList`, `Closure_proofs`, `Values_proofs`, `FingerTree_proofs`, `FingerList_proofs` |
| numbers | `ExactNumbers` (abstract), `Fixints`, `Bigints`, `Numbers`, `Calculator`, `Values_proofs`; `MCValues` puts them beside the containers |
| compiler | `FlowGraph`, `LinearCode`, `Scopes`, `Blocks`, `Loops`, `SourceProgram` (abstract), `Compiler`, `MCCompiler` |
| front end | `Scanner`, `TokenGrammar` (abstract), `Parser`, `BlockStacker`, `SourceText` (abstract); `MCFrontEnd` puts scanner and parser side by side |

### The parallel loop engine

`SourceIterators` says what the iterators of an ordinary sequence answer, with
every way to answer an exception. `SerialLoop` is the abstract specification: a
loop that asks each iterator `is_valid`, then `current` and `next`, and goes on or
leaves. An element that is an exception does not end it, as it is a value that the body may
have no use for; a next iterator that is one does, and so does a failed assertion of the
body, which the condition is wrapped in (`loops.cpp:98-109`). `ParallelIterators` models `parallel.c`, one access to shared state per
step: `Fetch`, `StoreValid`, `WrapNext`, `LinkNext`, `StoreCurrent` and
`ClearWrapped` are the accesses of `process_iterator`; `Look`, `TryLock`,
`Recheck`, `SetZone`, `SetTask` and `Unlock` those of `queue_iterator`; `TakeTask`,
`ClearZone` and `ClearTask` those of `worker_main`; `Check`, `Walk`, `Progress`
and `Advance` those of `master_do_work`; the others are the loop that reads the
wrappers. `heap[w]` is a wrapper's four slots, `task`, `zone` and `lock` are the
fields of `s_workers`. A zone is named by the loop it serves.

Memory is taken to be sequentially consistent and each access atomic. The C code
uses plain variables, so on a machine or with a compiler that reorders the stores
of `process_iterator` none of this holds; that is an assumption, and the place of
`ClearWrapped` as the last store is what it is about.

`ProgramZones` extends it with `RunIO`: `NextStage` collects the zone in which the
loops so far ran. Collecting does not ask the workers.

### Tasks and generators

`BlockPrograms` gives the shapes of a function with segments: a step, a block, a
loop with its rounds and how it ends, nested as deep as `Depth`. A block is the branch
that is taken, and the rounds of a loop are those that its condition lets through, each
of which may be different. `Meaning` is what the source text is meant to hand out. The
variables that a segment captures from the one before are the compiler's.

`Segments` has what the statements are compiled to. An action or iterator is a chain
of objects, each of which wraps the next one and keeps what is left of its own block
or loop, and answers `response` or `current` with the innermost one's; `object` is
this chain: the innermost `answer`, and the `wrappers` from the outermost in. `Start`
builds the actions (`MakeSubtask`, `TaskRound`) and `Iterate` the iterators
(`MakeIterator`, `MakeSubsequence`, `SequenceRound`), from the same statements; `GoOn`
is `send` and `next`, which come down the chain to the innermost object and, where that
has nothing more, up again. `RunIO`'s main loop runs a task (`Perform`, `Fail`,
`Abort`, `Exit`), a consumer reads a generator (`Take`, `Stop`); `done` is what it got.
A value is a number other than `Result`, which stands for the tuple of variables that
a finished block leaves behind, and `Thrown`, for an exception.

### Memory

`Zones` models the allocator: `page[p]` is what a page holds, with the header
fields of zone, group, overflow and large-block pages; `pc`, `zone`, `size` and
`cur` are the locals of the thread inside `zone_alloc` or `zone_destroy`. Sizes are
counted in words, the structs have their real sizes, pages are smaller than
`PAGE_SIZE`. `page_alloc` and `multipage_alloc` are external: any free run. Nobody
allocates in a zone that is being destroyed; who keeps that promise is
`ProgramZones`' question.

`Collector` models `collect_zone` on every heap in the bounds. `copy_object`'s
recursion is a stack of `copy_closure` calls; `MakeForwarder` overwrites a source
object in place; `IsBuffer` is the guess from the second word. An address that
happens to equal a size is left out, and objects have at least the two words
that the forwarder overwrites, as `alloc_object` sees to.

### Containers

`KeyedMap` is a finite function with the answers of a map; `MapTree` holds the
functions of `maps.c` on AA-trees, recursive functions of trees, and `TreeMap` is a
program that keeps calling them. The functions are defined on the trees no deeper than
there are keys (`Trees`): the keys on the way to a leaf all differ, and the proofs show
that no call leaves this set. An iterator is the sequence of the nodes it will come
back to, the next one first. `compare_to` is taken to order all keys and never to throw.
`PlainList` is a sequence with the answers of a list. `FingerTree` holds the
methods of the four forms of a list, with recursive functions where the C code
recurses or calls itself through a method, defined on lists and chunks nested no deeper
than a list has leaves (`Lists`, `Items`), and with what a loop has come to after so many
turns where it loops; `FingerList` is a program that keeps
calling them. A call of a method is one step: nothing else can see an object
before it is returned, and objects never change afterwards.

### Numbers

`ExactNumbers` is rational arithmetic without limits. `Fixints` has the ints of the
machine, with `HalfBase` for half the number of their values, and the tests
before an operation that would overflow. `Bigints` has the digit loops of
`bigints.c`, each a recursive function over the digits whose value is the C loop's
state after that digit, and what is proved about: sums, differences and comparisons of integers,
by way of an int or of digits. `Numbers` has the other C methods over ints, bigints,
rationals and floats, the dispatch of `METHOD_1`, `normalize` and number literals.
`Calculator` is a program that starts at a literal and keeps calling methods of its
last answer, or of another number with it; beside each answer it keeps what exact
arithmetic makes of it.

Several places in `runtime/atoms` compute something else than a number. `Bigints`
and `Numbers` name each by the condition under which it is reached: `"int_min"` (the least int as
an operand of a bigint operation is taken for a bigint of one digit), `"negative"`
(a negative bigint that shrinks to an int loses its sign), `"carry"` (two full
digits and a carry), `"product"` and `"quotient"` (the loops of multiplication and
division), `"modulus"` (an int modulo a bigint is taken for 0), `"order"` (the
quotient of an int and a bigint gets a denominator below zero), `"literal"` (the
denominator of a literal overflows), `"bit sign"` and `"float minus"`. A computation ends where
it comes to one; with a place in `Reaches` it goes through, and TLC refutes one of
the properties. At one more place, `"float parts"`, an assertion stops the program, so there
is nothing to go through to: a rational on the left of a float, one part of which is a bigint
(`FloatConvertRational`, `floats.c:148`). With `"modulus"` and four-bit ints the quotient of 1 and 121 becomes
1/0.

### Compiler

The compiler reads nothing but statements, so its state is a function of them:
`Compiler` writes a program statement by statement and `Generate` computes the stack of
scopes after each. `Scopes` has symbol tables and how a name is resolved through
functions, branches, loops and segments; `Blocks` evaluates expressions to nodes and
closes functions, methods, objects and branches; `Loops` closes loops, takes out what
can be computed ahead, and decides which loops run in parallel. `FlowGraph` has the
nodes, the rules by which the pool rewrites them, and their walk; a node is its
value, which is what interning promises. `LinearCode` has the linearizer and `Run`, an
interpreter of its instructions (which stands for the code that would be
assembled, and for the runtime).

`SourceProgram` is the other side: an interpreter of the language that has
variables and blocks and knows of no graph, and the rules by which the language
refuses a program. `CompiledMeansSource` compares what the compiled function answers
and emits with what the interpreter says, for all arguments in `Ps` and `Qs`. It and
the other three properties speak of the state just reached and are stated as action
properties, so that they are evaluated once for each statement written.

Two places are named as for the numbers, at `Reached`: `"shadow"` and
`"hoisted loop"`; the violation runs have them in.

### Front end

`Parser` has the engine (`Core::Next`, `Match`, errors and how they are flushed), statements and
expressions over tokens; the operator tree is built as `BinOp` does, attaching to the
right side and moving nodes down. The productions call each other through one
recursive operator, `Parse`, that takes the goal as an argument. `BlockStacker` has the
filter of blank lines and the stack of blocks, as a state machine: a file is
written, then read statement by statement. `SourceText` is the grammar that the
comments of `expressionparser.cpp` and `statementparser.cpp` give, as a predicate on
lists of tokens, and what words a statement stands for.

`Core::Next` does not return as long as there is a token (`parsercore.cpp:97`). With
`NextReturns = FALSE` the model does what the code does; with `TRUE` it does what the
code around it waits for, and everything behind it can be checked. Two more
places are left out of `texts`: `"flush break"`, a line break in an expression
that is being flushed, after which a token too many is skipped, and `"cut off"`, a file that does not end with a
line's end, on which the parser asks for tokens for ever (`MaxStalls` bounds that).

`Scanner` has one step per token; each sub-scanner is an action, its loops are the
longest run of characters of a class, and the character read ahead is given back
or not as in the code. A character is its name and one position wide; letters,
digits and spaces stand for the Unicode classes, and the code points that have a name
of their own are those the files use. `TokenGrammar` says what each type of token looks like in
the words of the comments of `scanner.cpp`, and what line and column a place has. The scanner
accepts several things that these comments do not describe. `Oddities` names
them; `Texts.cfg` leaves them out, and with any of them there TLC refutes `TokensAsDescribed`:
`"float without point"` (an `f` behind any number, as in `0b1f`), `"no digits"` (`0x` is a number without
text), `"point"` (`1.`, `1.2.3`, `5.name`), `"open string"` (the file ends inside), `"line end in
escape"` (the line end is swallowed and all further lines are counted one too low), `"bad
character"` (a malformed one inside a string), `"no character"` (an escape above U+10FFFF meets an
assert), `"last colon"` (it has no text, and so is not a colon) and `"short symbol"` (a symbol of one
letter ends behind its colon, as `ScanSymbol`, `scanner.cpp:474`, sets the end before that letter and
`ScanIdentifier` moves it only for those that follow: the letter is read again as a name, and at the
end of the file the token's end is one too low).

## Runs

`pass` runs explore their instance completely. Where components share nothing but
the machine they run on, one run has them side by side.

| run | what it asks | bounds, and why they are enough |
|---|---|---|
| `par_two_loops` | wrappers are immutable to readers, flattened by one thread, finished only when complete, never lost; tasks are not overwritten and meet their worker's asserts; the loop implements `SerialLoop`; when a zone is collected, only a loop ended early by an exception has workers in it | 2 workers and the master on two loops in a row, in one zone or two: three threads meet at one wrapper, and workers of the first loop are still busy when the second queues. One sequence ends well, the others in each kind of exception, one of them at its third position; the second loop's has at most two positions |
| `control` | every loop ends, every worker comes free; actions in source order, the assert of `Loop_Action_Send`, a task's end is reached; the values of generators in source order | one parallel loop over every sequence of at most three positions; for tasks and generators statements nested twice with bodies of two, longer bodies nested once, loops of at most two rounds, exceptions as operands and conditions |
| `memory` | blocks do not overlap, page headers describe them, pages stay accounted for; a collection keeps the graph and its sharing, and copies each object once | two threads (interchangeable), two zones, four pages in any order; small blocks that fill a page, a large block that fills a page to its last word and one that needs one word more; an index of one slot, so that overflow pages are used. Every heap of at most four objects of at most two slots: a shared object, a buffer, a null slot and an object elsewhere fit together |
| `values` | numbers are exact, canonical and ordered; the map is balanced and answers as a map; a list is a sequence, keeps its shape, and expensive calls alternate with cheap ones | ints of four bits, literals of up to six characters, answers up to 300, so bigints of three digits; operands at both ends of the int range and just past it. Seven keys, trees of three levels, so a removal needs all its skews and splits; one key has two values. Eight leaves: cold storage spills into a cold storage of its own; joins with lists of up to four; values run through a cycle of four, which tells places apart |
| `compile` | the compiler refuses exactly the programs that the language refuses; tables agree with the program's scopes; the code is well formed and means what the program means | twelve families of programs of seven to fourteen statements: branches, while loops, for loops that can be mapped and that cannot, nested loops, functions and recursion, operators, memory of closures, comprehensions, objects, methods and prototypes; called with 0, 1, 2 and with an empty and a two element sequence, so every branch is taken and loops run no, one and several rounds; 40 turns for a loop that does not end |
| `texts` | errors for exactly the texts that are not in the grammar; statements are their words, with the operands that precedence gives; statements are handed out once, in order, in blocks that match; every text comes to an end; tokens are the longest forms that their characters have, with texts and locations | some 190000 texts of six families: operators beside each other, brackets and dots, statement words right and wrong, expressions of several words, blocks well and badly indented, broken lines. Some 23000 files of characters: numerals of up to five characters in every base, strings with every kind of escape and every way to break off, words, signs, comments and both line ends in every order of three, with and without a byte order mark |
| `program_zones_left`, `sync_idle_block`, `finger_full_chunk`, `compile_shadow`, `compile_hoist`, `parse_nothing` | violations, see below | |

The deadlock check is off where a model may stop: in `memory` all threads may wait
for a page when there are no more; in `values` a computation may end with an
exception; in `compile`, `compile_shadow`, `compile_hoist`, `texts` and `parse_nothing` a program or a file
is written and read once. In `ParallelIterators`, `Segments` and
`Collector` an explicit last step stands for the end of the program, so that
deadlock means what it says.

### Fairness

`control` assumes weak fairness of each thread: they are kernel threads, and
an element's computation is assumed to take finite time. No fairness of locks is
assumed, as `queue_iterator` only tries them; no strong fairness either. `RunsToTheEnd`
assumes that the main loop keeps running.

## Where the code and its words differ

Six violation runs show what TLC finds:

- `program_zones_left`: a loop that an exception ends early, where the program
  catches the exception, leaves wrappers in the worker table. `RunIO` goes on to
  `collect_zone` (`runtime/io/io.c:135`) while a worker reads, and allocates in, the
  zone that it destroys, against what `collector.c:170-172` asks of its caller.
- `sync_idle_block`: `core.make_subtask` does not ask the action it wraps whether
  it is running. An `if` branch without `sync`, next to one that has some, or a loop
  that runs no iteration, responds with a tuple, and `RunIO` aborts the program.
- `finger_full_chunk`: `List_concatenate` indexes a four by four matrix with chunk
  sizes from 1 to 4, so a chunk of four items reads a neighbouring row, or past the
  end. In the run a one-item chunk is told to shrink and a full one to grow. Both throw;
  `append` and `push` return an exception they are handed, so it takes the place of the
  cold storages and of the two joined; `alloc_list` (`lists.c:93`) asks that for its size, and
  the assert of `IntFromFixint` stops the program (`StoppedList`), after which it calls nothing
  more. `AnyAction` stands for what lies behind the matrix.
- `compile_shadow`: a branch that declares a variable of its own, with the name of one
  that the other branch assigns, hands its own out as the assigned one
  (`src/semantics/blocks/ifthenelse.cpp:222`).
- `compile_hoist`: of a loop whose body has another loop that depends on the element,
  the inner loop itself is taken out and computed ahead
  (`src/semantics/blocks/foreach.cpp:221`), although a loop may only be called and never kept.
- `parse_nothing`: the `break` at `src/parse/parsercore.cpp:97` leaves the `switch` and not the
  loop around it, so `Core::Next` skips the whole file, and no file has a statement
  or an error.

Met on the way and kept out of the runs:

- `free_overflow` (`allocator.c:67-84`) frees the blocks an overflow page names and
  not the page. `PagesAccountedFor` exempts overflow pages; without the exemption
  `memory` refutes it.
- `List_partition` computes a count with the wrong sign (`lists.c:358`), compares a
  reduced index with a size that was not (`lists.c:426`), and the reversed form flips
  the gap between two elements like an element (`list-reverse.c:172`). `ListReaches` of `FingerList` names
  these calls; `Values.cfg` leaves them out, and with `"head chunk"`,
  `"cold storage"` or `"backwards"` there TLC refutes `PartitionDivides`. What
  `AnswersAsPlainList` says of partition, insert, remove and assign is therefore about
  the remaining indexes; of head, tail, size, lookup and iteration it is about all.
- The places of `Numbers` and of `BlockStacker`, and the oddities of `Scanner`, named above.
- In the compiler, all seen in the model and left out of the families, as no line of
  the repository says what should happen: a `sync` inside a branch of the `if` operator is done
  whichever branch is chosen; two syncs side by side in one expression meet an
  assert; a `yield` in one branch and a `sync` in another are accepted; a recursive
  call by name inside an object leaves `self` out; a setter of a prototype's `var`
  survives when the object declares a `def` of that name; a `result` of the function
  around it, assigned before a lambda or a branch of the `if` operator, makes those "already
  defined"; a lambda directly in an object gets an implicit `self`.
- In the parser: where an expression is missing at the end of a line, the next
  line is read as part of it.

## Proofs

`ParallelIterators_proofs` proves, for any number of workers, loops and sequences:

- `TypeCorrect`: `Spec => []TypeOK`, in particular every reference is to a wrapper
  that exists and `queue_iterator` never leaves the worker table;
- `MutualExclusion`: `Spec => []FlattenedByOne`, no wrapper is flattened by two
  threads;
- `TasksAreReady`: `Spec => []TaskReady`, the two asserts of `worker_main`;
- `TasksHandedOver`: `Spec => TasksNotOverwritten`, a worker's task changes under its
  lock from none to one, or in the worker's own hands;
- `AnswersAreKept`: `Spec => AnswersStay`, the comment's "still works like an
  immutable object": what a reader may have seen in a wrapper is never written again.

It proves what is left of the engine's safety in three parts, each on top of the one
before:

- `WrappersAreUnique` (`Spec => []OneWrapperPerIterator`), the
  comment's "no way to ... end up with two wrappers for the same target", and
  `FinishedWrappersAreComplete` (`Spec => []FinishedIsComplete`), what
  `is_work_finished` is trusted for;
- `WorkersStayInTheirZone` (`Spec => []ZoneOfItsLoop`), also of
  a worker that is still busy with a loop that is over;
- `NoWorkIsLost` (`Spec => []NoWorkLost`) and
  `ParallelLoopsAreSerial` (`Spec => ImplementsSerialLoop`): the loop over the
  wrappers refines the plain loop of `SerialLoop`.

Its last part is about the program around the loops (`ProgramZones`), for any number of
zones: `CompletedLoopsLeaveNobody` (`ProgramSpec => []CompletedLoopsAreQuiet`), so that
`RunIO` need not wait for the workers of loops that reached their terminators.

They use the assumptions on `NumWorkers`, `Sources` and `MaxLoops` that
`ParallelIterators` states, and the step granularity of its actions.

`FlattenedByOne` is not inductive: the master decides on a wrapper by reading the
workers' tasks one at a time, with no lock, while they change. The invariant `IInv`
says why that is enough. A wrapper is private to its maker until it is linked
(`FreshIsPrivate`) and is offered to a worker only before that, so a wrapper the
master reaches by the chain can no longer be given to anyone: the workers it has
looked at stay without it (`MasterAlone`). Two workers never hold one task
(`TasksDiffer`), because a task is stored under the lock by a thread that has tested
it there (`LockOK`) and put away by its worker alone (`WorkerOK`). The rest
(`PlaceOK`, `FlatteningOK`, `AnswersInOrder`, `LoopOK`) says what each program
counter means. `Invariance` has one lemma per action, with one step per conjunct
that the action can disturb.

`AnswersAreKept` needs one invariant more, `SlotsOK` (`SlotsInvariance`): a wrapper in
nobody's hands has no answers yet, and one in somebody's has none in the slots that
are still to come. A thread that fetches a wrapper therefore finds it empty, because
by `IInv` it is the only one to hold it, and every store after that fills an empty slot.

`OneWrapperPerIterator` is not inductive either: nothing in it says why the iterator
that `process_iterator` is about to wrap has no wrapper yet. `ChainOK` does: a
wrapper that is not the first of its loop is in the next slot of the one before it,
or its maker still has it in hand with that one (`OnChain`). A thread about to wrap a
successor finds the next slot of its own wrapper empty (`SlotsOK`) and is alone with
it (`FlattenedByOne`), so the successor has no wrapper. `AnswersOK` and `HandsOK` say
that every slot and every local variable answers for the wrapper's own iterator.

`ZonesOK` says that all a thread has in hand belongs to the loop of the zone it runs
in: the new wrapper of a worker follows its task (`ChainOK`), whose loop is that of
its zone, and the lock keeps others from naming another zone in between (`LockOK`).
`WorkOK` adds what a loop knows of its first wrapper. With these, each step of the
loop's own is the step of `SerialLoop` with the same name, `BeginLoop` and `StartLoop`
together are its `Begin`, and every step of a worker or of the waiting master is a
stutter, because it changes neither the place of a wrapper nor the loop's variables.

`CompletedLoopsAreQuiet` needs to know that a loop at its terminator has seen every
wrapper there is. `LastOK` says that a loop's wrappers have no gaps and that only the
last one may be the terminator, `PastOK` that the loop is through with those before its
iterator, `TakenOK` that a task stays unfinished until its worker has begun it. So
nothing is left to do at the terminator (`QuietLoopsOK`), and no new wrapper appears
afterwards, because making one takes an unfinished one.

`Segments_proofs` proves, for any functions, however deep their blocks and loops nest:

- `TasksInOrder`: `Spec => []PerformedInOrder`, the actions of a task are performed
  once each in the order of the text, all of them before it exits, and all before
  the exception it fails with;
- `GeneratorsInOrder`: `Spec => []SeenInOrder`, the same of what a consumer sees;
- `LoopAsserts`: `Spec => []LoopAssertHolds`, the assert of `Loop_Action_Send`;
- `BusyTasksAreNotAborted`: a program whose blocks and loops all have something to hand
  out is never aborted, so the case of `sync_idle_block` is the only one.

It assumes what `BlockPrograms` and `Segments` state: values are numbers other than
`Result`, and programs are blocks. `PerformedInOrder` speaks of what was handed out
already, and nothing in it says that the rest will come in order. The invariant,
`FlowInv`, does: `done`, followed by the object's answer and by the meaning of what its
wrappers keep, the innermost first, is the meaning of the program (`NothingGetsLost`;
`Shows`, `LeftBy`). An exception in the place of an object hides what would come after
it (`Faithful`). `Start` and `Iterate` answer such an object for every statement
(`StartCorrect`, `IterateCorrect`), and `GoOn` keeps it so: it takes the innermost
wrapper with anything left, and those inside of it have no more to hand out (`GoesOn`). Whatever an
object goes on with was begun by `Start` or `Iterate` (`BegunBy`), which is why a loop
is never the innermost wrapper of a task, and why a valid iterator has a value. For
`BusyTasksAreNotAborted`, every wrapper keeps a block without idle parts (`KeepsBusy`).

`Meaning`, `Start`, `Iterate` and the levels of nesting are recursive functions over
the program. That they are what their equations say is proved first: the first statement
of a block or loop, and the rest of it, are less deep, or a block in place of a loop, or shorter
(`Below`, `Parts`, `BelowWellFounded`).

`Memory_proofs` proves, for any number of threads, pages and zones, any size of a page and
any requests:

- `BlocksStayDisjoint`: `Spec => []BlocksDisjoint`, an allocation belongs to its caller
  alone;
- `HeadersStayTrue`: `Spec => []HeadersDescribeBlocks`, what the collector reads at the
  start of an object's page is that object's zone and size;
- `TypeCorrect`: `Spec => []TypeOK`, where the indexes of large blocks stay in their
  pages;
- `NoPageIsLost`: `Spec => []PagesAccountedFor`, every page in use but the overflow pages
  is among those that `zone_destroy` will come to, in exactly one zone.

It assumes what `Zones` states: a page has an even number of words and more than eight,
a word has at least one byte, and no thread is called like the free lock. Neither
property is inductive, because blocks are lost when a page is given back too early. The
invariant therefore says what `zone_destroy` will free. The groups of a size are a chain
nobody else links to, and the group a thread is about to free is its newest one
(`GroupsOK`, `PlaceOK`); a large block has its pages to itself (`RunsOK`); the indexes
`zone_destroy` has yet to go through are chains too, and name each block once
(`IndexesOK`, of a set of such pages that the invariant says exists). The lock keeps two
threads off one group (`LockIsMine`), nobody is in a zone that is being destroyed
(`AloneOK`), and blocks are cut below all that went before (`BlockOK`). A thread writes
only pages of its own zone, so the places of others stay good
(`WritesDisturbNobody`, `FreesDisturbNobody`). That blocks of different pages are apart
is arithmetic: a run of pages holds its header and its words (`RunFits`), and the page of
another block cannot lie in it (`LaterPageLaterWords`).

`PagesAccountedFor` follows the chains of a zone to their ends with a recursive function,
and what is reachable is not a thing one step changes a little. So `NoPageIsLost` rests on
an invariant, `Held`, that says the same without counting links: any set of pages that has
the newest group of every size of every zone, or of those sizes `zone_destroy` has not come
to, what the threads that walk a chain have in hand, and with a group the one before it,
has all groups; the same for the indexes and the large blocks in them; and every other
page of a run names the block it belongs to. A step keeps this because a set that leads to
all groups in the next state, together with the pages the step gives back, leads to all
groups in this one (`GroupsStayHeld`, `BlocksStayHeld`). Between calls, what `PagesOfZone`
finds in all zones is such a set (`ChainsFound`, `IndexesFound`), so it has all of them.

`Collector_proofs` proves, for any number of objects with any number of slots, each of them
null, a number or an older object:

- `GraphIsTheSame`: `Spec => []SameGraph`, what `collect_zone` answers leads to the graph
  that the root led to;
- `EachCopiedOnce`: `Spec => []CopiesEachOnce`, the comment's "O(n)";
- `CollectorTypes`: `Spec => []TypeOK`.

`SameGraph` speaks of the end alone. While `copy_object` is at work, the invariant
(`Working`) says that an object of the old heap is as it was or a forwarder to its copy
(`OldPart`); that the copies come from different live objects, each of them finished or
under way (`Origins`, of a function the invariant says exists); that a finished copy has in
its slots what the old slots have become (`FinishedCopies`); and that each call
under way is on the slot its caller is at (`Nested`). A closure gets its forwarder only
when its slots are done, and until then a second visit would copy it again. There is none:
the calls under way are on older and older objects (`Calls`), because a slot only
ever refers to an object made before. At the end all live objects are finished, since
the finished ones have the root and all their slots lead to, and the copies are those
that the new root leads to.

These proofs need induction and recursion, which the library states with an operator as
a parameter. `Closure_proofs` states both with sets and functions instead. From
`Induction` follows what
repeating a function that only adds to a set comes to: after as many turns as there are
elements it is closed, and it is the least closed set. `Reach` of `Collector` and `Chain` of
`Zones` are such repetitions. `Recursion` says that a definition that looks only at
smaller arguments, in a well-founded order, has a solution: a function that satisfies it
everywhere. `Segments_proofs` uses it for its four, `Values_proofs` for the functions on
trees, and `FingerTree_proofs` for those on items and lists.

The end of `Memory_proofs` carries the results on zones and collections over to `MCMemory`, whose specification the run
`memory` checks: it implements `Zones` (`MemoryIsZones`) and its other behaviours are those
of `Collector`, so `MemoryTypes`, `GraphSurvives` and `CopiedOnce` hold of it.

`Values_proofs` proves, for any finite set of keys of a map:

- `BalancedThroughout`: `Spec => []Balanced` of `TreeMap`, the tree keeps the levels of an
  AA-tree, which its logarithmic depth rests on;
- `AnswersAsKeyedMap`: `Spec => ImplementsKeyedMap`, the refinement: what `Contents` reads
  off the nodes of the tree goes through the same history as a plain map, and lookups,
  contains, size and loops answer alike.

It assumes that keys are integers (`KeysAssumption`), which stand for any total order. `Balanced`
alone says nothing of the keys, and a removal moves a successor's pair to another place: the
invariant, `IsMap`, is that the tree is a search tree with a right number of pairs at every
node (`IsSearchTree`) and that all its nodes have the levels of an AA-tree (`Shaped`). What
a call does on the way back to the root is an induction over trees (`TreeInduction`), and
it needs more than that the branch has its shape again. After an insertion the branch is
as high as before, or one level higher, and then its root had a right branch on its own
level before and has none now (`IsGrown`): so one skew and one split are enough. After a removal
it is as high as before, or one level lower; and if it is as high, it leans right only if it
did before (`IsShrunk`). A node whose left branch is too low comes out of the three skews
and two splits in one of two shapes, by whether its right branch leans on it
(`LeftGapLow`, `LeftGapHigh`). That no call loses a pair does not depend on the shape:
`Skew`, `Split` and `Rebalance` only put links differently (`SkewSame`, `SplitSame`,
`RebalanceSame`). A loop sees the pairs in order because the nodes an iterator still has to
come back to, each with its right branch, are the rest of the map, the keys of one before
those of the next (`IsStack`, `Walked`). And the functions are what their equations
say (`InsertUnfolds`, `RemoveUnfolds`, `FindUnfolds`, `SpineUnfolds`), because a search tree is no
deeper than it has keys (`SearchTreeSize`).

`Values_proofs` proves as well, for ints of any width (`HalfBase`):

- `AddTest`, `SubtractTest`, `MultiplyTest`: the tests before `Fixint_Add`,
  `Fixint_Subtract` and `Fixint_Multiply` hold exactly when the result does not fit
  an int. The last rests on three lemmas about C's truncating division;
- `IntegersAdd`: the sum and the difference of any two integers is the exact one, in
  canonical form, whichever way it is computed. Otherwise the program is at one of three places, and
  the theorem says when: the least int went by way of bigints (`"int_min"`); the exact
  answer is negative and fits an int, though an operand did not (`"negative"`); a turn of
  `unsigned_add` lost its carry (`"carry"`). It assumes that none of the three is in
  `Reaches`, as in `Values.cfg`;
- `IntegersOrdered`: `compare_to` of any two integers is the order of their values, except
  for two ints whose difference is not an int, and there it is always wrong. The run calls that
  place `"order"`;
- `AddsMagnitudes`, `SubtractsMagnitudes`, `MagnitudesOrdered`: what these rest on, for any
  number of digits. The digits that `unsigned_add`, `unsigned_sub` and `unsigned_cmp` answer
  are those of the sum, the difference and the order of the magnitudes;
- `CarryRight`, `BorrowRight`: a turn of the digit loops of `unsigned_add` and
  `unsigned_sub` keeps the sum and the difference of its digits, except the one
  case of the sum that the place `"carry"` names.

A loop over digits takes as many turns as the longer operand has significant digits, and one
more for a sum. What a loop reads, without the sign and with zeros in front (`Padded`), comes
to twice the magnitude (`TwiceMagnitude`), because zeros in front change nothing
(`ZerosInFront`) and the sign is the lowest bit of the first digit (`FirstDigit`). The state after each
turn is that of the turn before it (`LoopRuns`, `AddIsLoop`, `CmpIsLoop`, `SubIsLoop`), and `SumOfDigits` and
`DifferenceOfDigits` go through the turns from the most significant digit down: the digits from
there up come to the sum, less what lost carries left out, or to the difference, less the
borrow. `CollapseRight` is about what `collapse_small_bigints` takes for an int: with one
digit the value fits, with two it does only if it is the least int, with more never (`TailValue`,
`ValueOfZeros`). A bigint that stands for an int has the int's value and sign
(`FakeRight`), and one in canonical form is beyond every int on the side of its sign
(`BeyondInts`), so its sign decides a comparison with an int.

`FingerTree_proofs` (the methods of the tree) and `FingerList_proofs` (the calls of a program)
prove, for any bound on the length of a list (`MaxLength`) and so for cold
storages nested to any depth:

- `ListWellShaped`: `ListSpec => []WellShaped`, chunks have one to four items, all leaves are
  at one depth, and every size and number of leaves is right;
- `ListImplementsPlainList`: `ListSpec => ImplementsPlainList`, the refinement: the leaves in
  the tree, in the order of the form the list has, go through the same history as a sequence;
- `ListExpensiveThenCheap`: `ListSpec => ExpensiveThenCheap`, which the amortized cost of
  push, pop, append and chop rests on;
- `ListConcatenateJoins`: `ListSpec => ConcatenateJoins`, joining loses and adds nothing;
- `ListAnswersAsPlainList`: `ListSpec => []AnswersAsPlainList`, in every list that a program
  can come to, each lookup, iteration, head, tail, size, partition, insert, remove
  and assign answers as a sequence would.

The first four assume that no call joins lists where a full chunk meets another
(`"full chunk" \notin ListReaches`): there the code goes wrong, as `finger_full_chunk` shows. The last
one assumes that no call is one of the `Troubles`, so it is about the same indexes as in the
run. Both hold of the constants of `Values.cfg`.

The invariant, `ListInv`, is that the list is empty, single, long or a reversed long one, well
shaped, and has at most `MaxLength` leaves (`ListOk`). The proofs go from items to lists.
Every recursive function, on items or on lists, is what its equation says (`LeavesIs`,
`MethodsAre`, `JoinedIs`), by `Recursion` and induction on the nesting. The functions are defined for items and
lists nested no deeper than there are leaves, so each method must be
shown not to leave this set: a list whose items are at level `d` has room above it if `d`
and its leaves together are no more than the levels there are (`FitsAt`, `Room`), and going
to cold storage adds one level and leaves behind at least one leaf (`RoomParts`).
A method is then right at all levels at once, as an item of cold storage is a chunk (`PushRight`, `AttachRight`,
`PopRight`, `ChopRight`): the list it answers is well shaped, and its leaves are those of
the sequence (`Put`). `JoinedRight` is an induction over how often joining calls itself: what
an action of the matrix stores has the leaves of the two ends (`StowedRight`), in chunks of at most three.
Where the rows and columns of the matrix are within its bounds, what lies behind it does not matter (`ActionIs`). Lookups
follow the counts of leaves (`GetItems`, `LookupRight`), and the loops of partition keep the
leaves of both lists together (`MoveTailRight`, `PartitionRight`). Insert, remove and assign are
a partition, a change and a join, so the rest is about sequences cut in two
or three, from either side (`Cuts`, `Turns`, `WholeRight`).

Only model-checked:

- liveness (`LoopsEnd`, `WorkersComeFree`, `RunsToTheEnd`), which is out of reach of the
  prover;
- the numbers' exactness as a whole (`MCValues`): multiplication, long division, bits, powers, rationals
  and literals, whose methods call each other and are RECURSIVE. `Values_proofs` has sums, differences
  and comparisons of integers, and the tests for overflow. `MCValues` itself reaches the RECURSIVE
  operators, so the theorems on maps and lists are about `TreeMap` and `FingerList`, which it
  extends;
- the calls on lists that the code does not carry through (`Troubles`), which
  TLC refutes one by one, as told above;
- the scanner and the parser (`MCFrontEnd`) and the compiler (`MCCompiler`), which are
  functions from texts to tokens, statements and code, RECURSIVE all through.

## Not modelled

- `asmjit`: a third-party assembler, vendored, two thirds of the lines of the
  repository. No file of the compiler includes it at this commit. There is nothing in
  it to model as part of this system; so the lines the models stand for stay a
  small part of all lines, though most of the runtime's and the compiler's logic is
  among them.
- The unicode tables and encodings: generated tables, pure functions of bytes.
- Tuples, symbols and strings: values written once, with comparisons of text.
- Input and output actions, the driver and error messages: wrappers of the
  operating system.
- The library modules, apart from `core`: functions in the language itself, without
  state. The platform layer: only headers are here.
- In numbers the shifts, whose digits are read in the wrong order, and the rounding
  of floats; in the flow graph and in expressions strings, symbols, list and map
  literals, concatenation and lookup; in the collector an address that equals a
  size; in maps a `compare_to` that throws below the root.
- Weak memory: the parallel engine is modelled with sequential consistency.

## Plan

1. Done: the parallel engine and its composition with `RunIO`'s zones, tasks and generators,
   zones, collector, maps, lists, numbers, the compiler from statements to linear code, the
   front end from characters to tokens and from tokens to statements; the proofs above.
2. More proofs: multiplication and long division as sums and differences have been proved, with
   recursive functions in place of the RECURSIVE operators of `Numbers`, then
   rationals in lowest terms.
3. The scanner's tokens as input of `Parser`, statements of `BlockStacker` as input of
   `Compiler`; literals of lists and maps in the compiler, on `MapTree` and `FingerTree`;
   the sequence transformers, queue, stack and set of the library.
