# Formal models of BBASIC

BBASIC is an interpreter of BBC BASIC II, written in C with a lex/yacc front
end.  This directory holds TLA+ models of it, the TLC configurations that check
them, and TLAPS proofs about them.  It covers the *control core* (how statements
are sequenced, how procedures, functions and loops use their stacks, how errors
are caught and how Ctrl-C stops a program), the *symbol table*, the *building and
freeing of a program* with its DATA, the *open files*, the *terminal* against
Ctrl-C, and the *operators and string functions* of expressions.  Section 7 says
what is left out.

## 1. The system

The interpreter is one thread plus one signal handler.  A file is parsed into
statement trees; `program_run()` links them and runs them with
`run_statements()`.  Almost all state is file-scope variables, and a function
call `FNx` inside an expression calls `run_statements()` again on the C stack.

| component | sources | state | operations |
|---|---|---|---|
| run loop | `runtime.c` | `program_counter`, `current_line`, `interrupt`, `error_register`, `error_stmt`, `return_stack` | `run_statements`, `program_run`, `error_set`, `error_clear`, `error_stmt_set`/`_clear`, `runtime_stack_push`/`_pop` |
| statements | `statements.c` | five address stacks (FN, FOR, GOSUB, PROC, REPEAT), `data_ptr`, print column | one `stmt_exec_*` per statement |
| functions in expressions | `expr_fn.c` | (C stack) | `expr_eval_fn` |
| expressions and values | `expr*.c`, `value.c` | expression trees | `expr_eval`, operators, built-in functions |
| symbol table | `symbols.c` | a stack of frames of hash buckets; `@%`, `A%`..`Z%` | push and pop a frame, `pass_arguments`, assign, look up, LOCAL, DIM, CLEAR |
| program building | `runtime.c`, `line_map.c`, `statements.c` | `lines`, line map, `next` links | `line_add`, `build_statements`, `statement_fixup` |
| open files | `file_set.c`, `runtime.c` | list of descriptors with their item pointers | OPENIN/OUT/UP, CLOSE#, PTR#, EOF#, INPUT#, PRINT# |
| DATA | `data_map.c`, `statements.c` | ordered values by line, `data_ptr` | READ, RESTORE |
| terminal | `terminal.c` | saved terminal settings, tty state | `get_char`, `tty_reset` |
| containers | `stack_addr.c`, `addr_set.c`, `pgcommon/` | arrays, hashes | push, pop, insert |
| front end, options, random numbers, colours | `lexer.l`, `parser.y`, `options.c`, `rand.c`, `colours.h` | tables | parsing, getopt, library calls |

### How they interact

* A statement handler evaluates its expressions *before* it acts.  An expression
  may call a function: `expr_eval_fn` pushes a frame (`pass_arguments`) and a
  return address (`push_function`) and runs the program from the DEF.  That
  nested activation shares every stack, the program counter, the line for error
  messages, the error register and the ON ERROR handler with the statement that
  is waiting for it.
* `=` pushes its value on the runtime stack, pops the frame and the return
  address, and returns `STATUS_EXIT`; the nested `run_statements` breaks and
  `expr_eval_fn` pops the value.  `END` returns `STATUS_EXIT` as well.
* ON ERROR stores a *statement* as handler.  Any failing status, in any
  activation, moves the program counter to it, in the activation that failed.
  Nothing unwinds the stacks.
* PRINT# and INPUT# keep the channel number while they evaluate the next value or
  assign the last one, and a function called there may close the channel.
* A READ chooses its item, then evaluates the subscripts of its variable; a
  function called there shares `data_ptr`.
* SIGINT resets the terminal, whatever `get_char` is doing with it, and sets
  `interrupt`, which `run_statements` reads after each statement, but only when
  no error was caught.

### What is hard

Nested activations that share global state; expressions evaluated half-way when
a call fails, ends or is interrupted; a handler that runs in another activation
than the one it was written for; loop stacks found by comparing addresses; a
signal between any two steps.  PROJECT.json lists each hazard with its line.

### What makes each component correct

* run loop: errors are reported, never lost, and with the right line; Ctrl-C
  ends every program; ON ERROR goes on where it says.
* calls: one frame and one return address per pending call; a return takes its
  own; a call gets its own value.
* loops: the stacks hold the loops around the current statement.
* symbols: a name denotes the innermost live binding; a frame takes all its
  bindings with it and leaves what they hid; an operation that fails binds
  nothing.
* program building: lines in order, each once; every link leads to the statement
  that follows in the text (but for one kind of list, section 5); the graph of
  statements is freed whole, each once.
* files: the list holds exactly the open files; the pointer counts the items
  before the offset.
* DATA: READ delivers the data in line order, each once, from RESTORE.
* terminal: raw mode never outlives the knowledge of it, keys are not echoed, and
  a wait ends when its time, a key or Ctrl-C ends it.
* expressions: operators and functions agree with each other and with their
  definitions, at the limits of an integer too.

## 2. Modules

| module | content |
|---|---|
| `Interpreter` | the control core: variables, `Init`, one action per step of the run loop, of the evaluator and of each statement handler, `Spec` and `FairSpec` |
| `InterpreterProperties` | types, invariants, action and liveness properties |
| `InterpreterProofs` | TLAPS proofs about calls, errors, Ctrl-C and loops, for every program |
| `MCInterpreter` | the small programs that TLC runs |
| `OpenFiles` | the list of channels, the descriptors of the process, the file statements; properties at the end |
| `OpenFilesProofs` | TLAPS proofs about the list and the item pointers |
| `MCOpenFiles` | short items and small files for TLC |
| `Values` | integers of a fixed width, fractions, strings, and conversions between them |
| `Names` | what a name says of its variable; subscripts and elements of an array |
| `Symbols` | the symbol table, one action per operation of `symbols.c` |
| `Scopes` | its abstract specification: a stack of functions from names to bindings |
| `Induction` | induction over numbers and functions defined by recursion, as lemmas about sets |
| `SymbolsProofs` | TLAPS proofs: the form of the table, three properties, and the refinement of `Scopes` |
| `MCSymbols` | a few names in one chain, procedures with fitting and unfitting parameters |
| `ProgramBuild` | reading, linking, numbering and freeing a program |
| `ProgramBuildProofs` | TLAPS proofs of its invariants, for texts of any size and depth |
| `Data` | composes `ProgramBuild` with READ and RESTORE |
| `DataProofs` | TLAPS proofs about READ and its pointers, and that `Data` implements `ProgramBuild` |
| `MCData` | two shapes of program under all orders of three line numbers |
| `Terminal` | GET and INKEY, one step per system call, against the SIGINT handler |
| `MCTerminal` | the bytes that matter |
| `TerminalProofs` | TLAPS proofs of the four safety invariants of the terminal |
| `Operators`, `StringFunctions` | the operators of `expr_ops.c`, and functions of `expr_builtin.c` |
| `Expressions` | one evaluation and the laws it obeys |
| `MCExpressions` | all small integers, some fractions and short strings |
| `ExpressionsProofs` | TLAPS proofs of the four laws, for integers of any width and all strings |

`Values` is the base of both `Names` and `Operators`; `Symbols` and `Scopes` share
`Names`, so that the refinement is about chains and frames and not about
arithmetic.  The components meet in three places.  `Data` runs READ on the list
and map that `build_statements` has made, and lets the graph be freed only when
the run is over.  `Interpreter` takes its programs linked, as `LinksFollowTheText`
says they are (`Linked` in `MCInterpreter`).  Its `frames` are the frames of
`Symbols` reduced to their owners: `pass_arguments` pushes, and `ENDPROC` and `=`
pop, in both.

### From the code to `Interpreter`

| TLA+ | code |
|---|---|
| `prog.stmts` | the statements, at addresses 1, 2, ...; `sub1`, `sub2` are `stmt[0]`, `stmt[1]` (THEN, ELSE, the handler of ON ERROR, the statement of REPEAT) |
| `next` | the `next` field of each statement: a variable because ON ERROR relinks its handler |
| `stmt`, `phase`, `status`, `work` | the innermost activation of `run_statements`: the current statement, whether its handler is running, its result, and the expressions it is evaluating, innermost last |
| `suspended` | the outer activations, each inside the evaluation of an expression |
| `fn_stack` ... `repeat_stack` | the `stack_addr` of the same name; an entry is an address |
| `frames` | the frames of the symbol table, each known by its DEF |
| `return_stack` | the values that `=` pushed, each known by the `=` |
| `error_register`, `error_stmt`, `current_line`, `interrupt`, `pc` | the variables of the same name |
| `outcome` | how the process ended; each `ABORT()` the core can reach has its own value |

`Fetch...` is the head of the loop and the part of a handler that precedes its
first evaluation (an early return, or for NEXT the search of the FOR stack).
`EvalLeaf`, `EvalFn`, `CallFails` and `CallFn` evaluate one operand.
`Exec...` is the rest of a handler, taken when its expression is complete.
`CatchError`, `Continue`, `BreakInterrupted`, `BreakStatus` are the four ways in
which `run_statements` inspects a status, `RunOff` is the failing loop test, and
`Leave` is the return to `program_run` or to `expr_eval_fn`.  SIGINT can come
between any two of these steps.

### From the code to `OpenFiles`

`files_list` is the list of `runtime.c`, head first, with `fd` and `ptr` of each
node.  `channels` is the process's table of descriptors and `disk` the file
system: both are external, and behave as `open`, `close`, `read`, `write` and
`lseek` do (the lowest free descriptor, an offset per descriptor, zeros in a gap,
short reads at the end).  `pending` holds the PRINT# and INPUT# statements that
are evaluating an expression: between `PrintStart` and `PrintItem`, and between
reading an item and assigning it (`InputNext`, `InputDone`), a called function
may run any other file operation.  All other operations evaluate their operands
first and are one action each.  `Refused` stands for the failures that change
nothing (standard streams, closed descriptors, wrong mode, wrong type).
`SetPtr` is the loop of `advance_file_ptr`; `SetPtrUnlisted` is the same loop for
a descriptor without entry, where the pointer reads as `STATUS_ERROR` (-3) and
counting an item aborts.  `failed` abstracts the status and the error register.
The functions EOF#, EXT# and PTR# only read and have no action.  A read at the
end of the file leaves the tag byte uninitialised; every value of it ends in
the same error, because the next read is short too.  What happens to an error
(ON ERROR or the end of the program) is a matter of `Interpreter`: here the
program may go on or end after it.

### From the code to `Symbols`

`frames` is the stack of tables, the base table first.  A table is a function from
buckets to chains; a symbol has the fields of `struct symbol`.  `Hash` is a constant:
any function will do, and TLC gets one with collisions.  `residents`, `set_time_value`
are the variables of the same name.  Operations are one action each, with their operands
evaluated: a call, LOCAL, assignment, evaluation, DIM, array assignment and evaluation,
CLEAR, the end of a call and of the program. `result` is the status, the error and the
value the operation gave, `outcome` how the process stopped: `abort` an ABORTF, `crash`
a null pointer followed, `exit` an allocation that the library refuses, `overrun` an
element outside the array.  A name is the sequence of its characters because `symbols.c`
reads kinds off its spelling, and the functions that do are checked with the rest.

Arrays are sized and indexed as the code does it.  `array_size` multiplies into a
`size_t` (modulo `SizeMod`), each factor an int plus one that wraps before it is
converted (`Extent`).  `array_index` divides that size by one dimension after the other
(`RowSizes`) and sums into an int that wraps.  `Allocation` is what `malloc` makes of the
size: refused beyond `Memory` bytes, too small if the number of bytes wrapped as well.
`ElementError` has, beside the errors `array_index` reports, a place outside the
elements (`overrun`), and a place that happens to be -3, which the caller takes for
`STATUS_ERROR` (`unreported`).

`Scopes` states the same operations on a stack of functions: no chains, no hash,
no places.  The refinement maps each table to the function it represents, with
the same `residents`, `result` and `outcome`, so `ImplementsScopes` says that
every operation gives the same answer and the same error as the abstract one.

### From the code to `ProgramBuild` and `Data`

A statement is an address, its `next` field a function; the parser has linked
each list (`Parsed`).  `line_add` is one action per line of the file.
`build_statements` is one action per statement of the two nested loops, with
`line`, `stmt` and `tail` their variables; the recursion of `statement_fixup` and
`update_line_numbers` is inside it (`FixedUp`, `Numbered`, `ItemsTaken`).
`free_internal` recurses on the C stack, which `calls` holds: `Visit`, `FreeSub`
and `FreeStatement` are the head of its loop, a recursive call, and `free` with
the step to the next statement.

`data_items` is the list of values, `data_map` the chains of line and first item. A line
that is entered twice would empty the map (`ItemsTaken`); the lexer lets DATA only end a
line, so it does not happen.  `pending` are the READ statements in progress.  `ReadNext`
chooses the item and assigns it at once, unless the variable has subscripts; then
`Subscripted` does, after any READ or RESTORE that a function in the subscripts
executed. `running = "crashed"` is `value_next` of a null pointer.

### From the code to `Terminal`

`at.main` is where `get_char`, `tty_cbreak` or `tty_reset` is, `at.handler` where
the SIGINT handler is.  The handler preempts: while it runs the program does not.
Each system call, and each store to `tty_state`, is a step.  `tcsetattr` with
TCSAFLUSH throws away what was typed.  SIGINT ends a `select` or `read` that has
nothing to return (`cut`), without restarting it: the handler is installed
without SA_RESTART.  Each typed key remembers whether it was echoed, and stands in
canonical mode for a line.

The fault model is `MaxFaults` calls that go wrong, any of them.  `CbreakFails`,
`RestoreFails` and `UndoFails` are calls that return -1.  `SetInPart` and `PutBackInPart`
are `tcsetattr` returning 0 though it set only a part, which POSIX allows and which the
verification in `tty_cbreak` is there for.  `Verify` compares, and goes to `undo` if the
settings are not as wanted.  The code looks at no result of the undoing call and verifies
no restoring one; `lost` records that one of these went wrong unnoticed.

### From the code to the expressions

`Operators` and `StringFunctions` have one operator per `expr_eval_...` function, on
operands that have been evaluated and have values; `Interpreter` has the operands that
fail.  Floats are exact fractions, and the rounding of doubles is left out.  The
division of two integers with a remainder is formed in single precision: both operands
are rounded (`Single`) and so is their quotient (`SingleQuotient`), to the nearest
number of `SingleMax` steps, ties to even (`Nearest`).  The range of exponents is left
out; no quotient of two integers leaves it.  `Trap` is the signal a processor raises for
an integer division by zero or of the smallest integer by -1.  Counts of characters
become `size_t`, so negative ones become large; `Overrun`, `Endless` and `NoMemory` are
what then happens.

### Abstractions of `Interpreter`

* An expression is the sequence of its operands in evaluation order.  An operand
  is a leaf known by how its evaluation ends (`ok`, `zero`, `str`, `bad` for a
  BASIC error, `mute` for no value and no error) or a function call.  Operators
  evaluate their second operand even when the first failed, as the code does;
  argument lists stop at the first failure.
* Tests (IF, UNTIL, the limit of NEXT, the index of ON) are free choices.
* The lines named by GOTO, GOSUB and ON are resolved beforehand; `NULL` stands
  for a line that does not exist.
* Statements that neither branch nor touch a stack (assignment, PRINT, DIM, ...)
  are all `eval`.  READ, RESTORE and the file statements are among them: what
  they read and write is not here.
* Memory is bounded by `MaxDepth`: a program whose stacks are at the bound when
  the next statement starts ends with `nomem`, as `x_malloc` ends the process.
  The test is made once per statement; a statement may so exceed the bound by
  the calls within its own expression.
* `NEXT` increments its variable with an expression of its own.  That it fails
  because CLEAR took the variable away, or because the sum is not of its type, is a
  choice of `ExecNext`.  A FOR variable that is an array element is left out: reading it
  by its bare name ends in the ABORTF of `Eval` in `Symbols`.
* The uninitialised `status` of `run_statements` (no statement executed) is a
  free choice among the three kinds of status.
* `IsProgram` describes what the parser builds; programs given to TLC are
  linked by `Linked`, which states the result of `build_statements` for
  one-statement lines.

## 3. Runs

`MaxDepth` is 2 to 4: one function inside another, called from a procedure or an
operand, needs depth 3, and one more shows what a handler in the wrong
activation does.  `StringVars = {"S"}` makes one loop variable a string.  No
symmetry is used: addresses are ordered.  The programs are families: each varies
the statements at the interesting places over all combinations.

| run | programs | checks |
|---|---|---|
| `Calls` | `UnhandledPrograms`: no ON ERROR; two functions calling each other with failing or missing results; procedures with every kind of argument; ON, IF, GOSUB; FOR and REPEAT whose limit, step or condition calls a function that opens or closes loops; Ctrl-C at any step | `TypeOK`, `FnDepth`, `FnReturnFindsFrame`, `ValueHandedOver`, `ErrorNeverLost`, `FramePoppedByOwner`, `FnReturnRestoresPc` |
| `Handlers` | `HandlerPrograms`: ON ERROR with handlers that go into a function, out of it, to a subroutine, or back to ON ERROR; handlers set and cleared within a function; Ctrl-C | `FrameBalance`, `HandlerLinked`, `ValueHandedOver`, `InterruptWins` |
| `NestedLoops` | every properly nested program of six loop statements, NEXT with and without its variable (`ProperlyNested`, by an assumption that TLC evaluates) | `LoopStacksAreLexical`, `LoopsMatch` |
| `Endless` | programs that need not end: loops, recursion in PROC, a handler that meets its error again | `InterruptStops` (liveness) |
| `Channels` | two descriptors on one file, opened for update or output; `MCOpenFiles` | `TypeOK`, `ListedAreOpen`, `NewestFirstIsSafe`, `PtrSelectsItem`, `PtrCountsItems` |
| `Scoping` | calls, LOCAL, DIM, assignments, CLEAR and failures in any order, three frames; `MCSymbols` | `TypeOK`, `ImplementsScopes` (refinement), `HiddenIsKept`, `FailureBindsNothing`, `ElementsAreIndexed` |
| `Building` | three lines in any order, statements nested twice, DATA in and out of an IF; READ and RESTORE; `MCData` | `DataTypeOK`, `LinesAreNumbered`, `LinksFollowTheText`, `DataInLineOrder`, `FreedOnce`, `ItemsInOrder` |
| `Keyboard` | GET, GET$, INKEY and INKEY$ with two Ctrl-C, and two terminal calls that fail or set only a part; `MCTerminal` | `TypeOK`, `RawIsKnown`, `NotEchoed`, `NoValueIsExplained`, `InterruptEndsWait`, `WaitEnds` (the last two are liveness) |
| `Evaluation` | every operator and function on every small operand; `MCExpressions` | `TypeOK`, `DivisionAgrees`, `OperatorsAgree`, `StringsAgree` |
| `FnThenError`, `Forgotten`, `LostInterrupt` | one small program each, or the terminal without faults | a rule that the source states and the code breaks; see section 5 |

The first nine runs pass and between them take every action and every disjunct
of the next-state relations.  The last three end in a violation.

`Channels` uses items of two and three bytes (`IntSize = 1`, `FloatSize = 2`;
the code has 4 and 8) and files of at most four, which is two items; bytes
written alone and a double whose bytes look like tags make offsets and items
disagree.  Two descriptors are enough for an entry that is not the head, and for
a descriptor that is used again.  `Modes` leaves out OPENIN, which is OPENUP
without the writing.  One statement of two items is in progress at a time.

`Scoping`: three frames are a caller, a callee and the main program, the least in which
an operation can find a name neither at the top nor at the bottom.  All names but one
share a chain.  Parameters include a resident integer before one that fails, arguments
include one too many, one of the wrong type and one without a value.  `IntMax = 4095`
and `SizeMod = 2^18` stand for 2^31 - 1 and 2^64: a `size_t` holds more than one int,
not any product of them.  Among the DIMs are one with the bound `IntMax`, whose extent
wraps, products that wrap to a size that is made, and ones that `Memory` refuses.  The
`VIEW` leaves out `result`: no operation reads it, so it multiplies states without
adding behaviour; the properties about it are checked on every step.  Deadlock is not
checked because a program ends, aborts or crashes.

`Building`: three lines are the least with a line between two others, and
`Numbers` may repeat.  The two shapes have a list in a list, an IF with two branches
that share their end, an ON ERROR, a DEF and DATA in each position.  `MaxNested = 2`
is a READ in a subscript of a READ; `MaxGiven = 4` lets the program read all
items, fail, RESTORE and read again.  Deadlock is not checked: programs are
rejected, crash or are done.

`Keyboard`: `Keys` are an ordinary byte, the byte 0 that looks like a timeout and
the byte 255 that looks like an error; Ctrl-D is always possible.  One key waits
at a time, which is enough for it to be read, flushed or left for the next call.
Two Ctrl-C meet both `get_char` at work and what the first one left behind.
Deadlock is not checked: the program exits, and GET may wait for ever.

`Keyboard` has `MaxFaults = 2` because one failing call is undone and the second is the
one that undoes it.

`Evaluation`: `IntMax = 15` makes every pair of integers of five bits, and so every
overflow, part of the run.  `SingleMax = 8`, for 2^24, makes half of the integers too
large for single precision; `DoubleMax = 64`, for 2^53, is the largest integer to which
a double is taken to be exact.  `Byte = 4` and `SizeMod = 64` keep the order of the
code's 256 and 2^64 between an integer, a byte and a size.  Deadlock is not checked: an
evaluation is one step.

What the deeper properties say:

* `FnDepth`: every activation still has its return address, counting an `=` that
  is half-way.  It is what keeps `FnReturnFindsFrame` true: the FN stack is
  tested for emptiness *before* the expression of `=` is evaluated, and popped
  after it.
* `FnReturnRestoresPc` and `FramePoppedByOwner`: a function returns to the
  statement it was called from and pops its own frame, with GOSUB and loops open
  inside it.  `FramePoppedByOwner` is a property of these programs, not of every
  program: a GOTO out of a PROC into a DEF FN breaks it, and TLC checks it on
  programs that enter a body by GOTO only where its own kind of return follows.
* `ValueHandedOver`: nothing stays on the runtime stack.  It holds with ON ERROR
  too: in `A = 1/0 + FNa` the handler is taken after the DEF statement, before
  FNa can push a value.  It is not claimed once Ctrl-C meets a handler: Escape
  may be caught between the `=` and the call that waits for its value, which
  then stays on the stack.
* `NewestFirstIsSafe`: the ABORTs of the file code cannot be reached, and no file
  is forgotten, as long as CLOSE# is given the channel opened last
  (`newest_first`, a history variable).  `Forgotten` shows that the condition is
  needed.
* `PtrCountsItems`, `PtrSelectsItem`: `Items` says what a file of n items is by
  cutting it into pieces, not by reading it.  BPUT#, BGET#, failing operations
  and other channels that change what was passed are excluded: they leave the
  pointer behind.
* `HiddenIsKept`: while a local hides a name, nothing the program does changes the
  binding of that name in the frames below, so it is there again after the call.
  Only CLEAR is excepted, which reaches into every frame.
* `FailureBindsNothing` speaks of frames only: a call that fails at its second
  parameter has set the resident integer that was its first, and both
  specifications say so.
* `ElementsAreIndexed`: the subscripts a DIM allows and the elements it made
  correspond one to one, if the bounds are not negative and an int can number the
  elements.  The sizes and places are the wrapping ones of the code; that they come out
  right up to this limit is the property.  Beyond it, `EveryElementIsAllocated` is violated.
* `LinksFollowTheText` compares `next` with `Following`, which reads the text as a
  programmer does.  The end of a list inside a list is the exception, and leads nowhere;
  `NestedLinksFollowTheText`, without the exception, is violated.
* `FreedOnce`: no statement is used after it is freed, none is freed twice, and at
  the end all are.
* `ItemsInOrder`: consecutive items, over statements, failures and retries.  A READ
  or RESTORE inside a subscript is excepted (`nested`); `DataTypeOK` says that the
  null pointer is followed in that case only.
* `RawIsKnown`: settings other than canonical with `tty_state` reset exist only inside
  `tty_cbreak`, so what the exit handler tests is right at every moment it can run.  It
  is claimed until `lost`: `AlreadyCanonical`, without this condition, is violated.
* `NotEchoed`: the key that `get_char` returns was echoed only if Ctrl-C was pressed in
  this very call (`pressed`), whatever came in earlier ones and whatever failed.
  `NeverEchoed`, the comment as it stands, is violated.
* `NoValueIsExplained`: a GET or INKEY without a value comes from Ctrl-C, a call
  that failed, the end of the input or the byte 255; Escape is reported only for a
  Ctrl-C in this very call, so that an `errno` left by an earlier one does no harm.
* `InterruptEndsWait`, `WaitEnds`: under weak fairness of `get_char` and of the
  handler: the process is scheduled, a timer expires, and a handler that has begun
  goes on.  Neither keys nor Ctrl-C are assumed to come.  `WaitEnds` is claimed
  unless Ctrl-C comes in the call; `LostInterrupt` shows why.
* `OperatorsAgree`: `-` undoes `+`, and `*` undoes `/`, where all numbers are ones a
  double holds (`Held`).  A quotient of two integers that is not whole is rounded in the
  code, so `(1/3)*3` is not 1; for it the property says how far off the product may be,
  one part in `SingleMax`, or four if the operands had to be rounded too (`Slack`).
* `DivisionAgrees`: DIV and MOD satisfy the division identity with the sign of the
  dividend, and the operands that kill the process are exactly a fraction
  below one as divisor, and the smallest integer over -1.
* `InterruptStops`: under weak fairness of `Step`.  The interpreter is a running
  process and none of the modelled steps waits for input, so a step that is
  possible is eventually taken.  Ctrl-C itself is never assumed.

## 4. Proofs

`InterpreterProofs` proves, for every set of programs that satisfies
`IsProgram`, every `MaxDepth`, and every choice of string variables:

| theorem | property |
|---|---|
| `TypeCorrect` | `TypeOK` |
| `FramesBalanced` | `FrameBalance`: one frame per pending PROC or FN |
| `CallsKeepTheirReturn` | `FnDepth` |
| `FramesAreThere` | `FnReturnFindsFrame` |
| `ValuesAreHandedOver` | `ValueHandedOver` |
| `HandlerReturnsAfterOnError` | `HandlerLinked` |
| `ErrorsReachTheUser` | `ErrorNeverLost` |
| `CallersGoOn` | `FnReturnRestoresPc` (action property) |
| `EscapeWins` | `InterruptWins` (action property) |

and for every such program that is `ProperlyNested`, with any number of loops at any
depth:

| theorem | property |
|---|---|
| `LoopsAreLexical` | `LoopStacksAreLexical` |
| `LoopsAreMatched` | `LoopsMatch` |

`SymbolsProofs` proves, for every hash, all names, procedures, arguments and
arrays, and any number of frames:

| theorem | property |
|---|---|
| `ChainsAreWellFormed` | `TypeOK` |
| `HiddenBindingsAreKept` | `HiddenIsKept` (action property) |
| `FailuresBindNothing` | `FailureBindsNothing` (action property) |
| `TableImplementsScopes` | `ImplementsScopes`: the refinement of `Scopes` |
| `ElementsHaveSubscripts` | `ElementsAreIndexed` |

`ProgramBuildProofs` proves, for programs of any number of lines, in any order,
with statements nested to any depth:

| theorem | property |
|---|---|
| `ProgramsAreWellTyped` | `TypeOK` |
| `LinesComeInOrder` | `LinesAreNumbered` |
| `LinksAreTheText` | `LinksFollowTheText`, with its exception for lists inside lists |
| `DataComesInOrder` | `DataInLineOrder` |
| `AllIsFreedOnce` | `FreedOnce` |

`DataProofs` proves, for all programs and READs, however deeply nested and however
many:

| theorem | property |
|---|---|
| `ItemsComeInOrder` | `ItemsInOrder` |
| `ItemPointersAreTyped` | `DataTypeOK` |
| `DataImplementsBuild` | `DataSpec => Spec`: the theorems about `ProgramBuild` hold of `Data` |

`OpenFilesProofs` proves, for all files, values, limits and bounds:

| theorem | property |
|---|---|
| `EntriesCanBeClosed` | `ListedAreOpen` |
| `NewestFirstLosesNothing` | `NewestFirstIsSafe` |
| `ChannelsAreWellTyped` | `TypeOK` |
| `PointerCountsItems` | `PtrCountsItems` (action property) |
| `PointerSelectsItem` | `PtrSelectsItem` |

`TerminalProofs` proves, for all bytes that keys can send and any number of keys,
of Ctrl-C and of calls that fail or set only a part:

| theorem | property |
|---|---|
| `TypesAreKept` | `TypeOK` |
| `RawModeIsKnown` | `RawIsKnown`, that is until settings are put back in vain and unnoticed |
| `KeysAreNotEchoed` | `NotEchoed` |
| `NoValueHasAReason` | `NoValueIsExplained` |

`ExpressionsProofs` proves, for integers of every width, floats as exact fractions, every
single precision, all strings and every size of a byte and of `size_t`:

| theorem | property |
|---|---|
| `ResultsHaveTheirTypes` | `TypeOK` |
| `DivisionIsConsistent` | `DivisionAgrees` |
| `OperatorsFitTogether` | `OperatorsAgree` |
| `StringFunctionsFit` | `StringsAgree` |

**Assumptions.**  They are those of the modules (`ProgramsAssumption`,
`BoundsAssumption`, `SymbolsAssumption`, `TextsAssumption`, `KeysAssumption`,
`TerminalBounds` and the like), which TLC evaluates on every run.  Six deserve a
word.  `TextsAssumption` says that a text is a tree, as a parser makes it: each
statement is made at one place of one list (`OnePlaceEach`), none contains itself
(`Grounded`), lists have statements and DATA has items (`parser.y`), and nothing
follows a DATA in its list (`DataEndsLine`), since the lexer takes the rest of the
line for items (`lexer.l:155`).
`SymbolsAssumption` says that the names of variables and of procedures differ,
which the lexer sees to, and that the initial value of `@%`, 2314, is an integer of
the width assumed.
`CasesAssumption` says what operands are (`Operand`): integers of the width, floats in
lowest terms, strings without a zero byte whose length is an integer.  It says
nothing of the types an operator wants; a wrong one gives an error.
`WidthAssumption` and `SizesAssumption` say that integers fill some number of bits,
64 at most, that a byte divides them and that `size_t` has at least as many
values: true of `int32_t`, `char` and `size_t` wherever the program can be built.
`SizeAssumption` says the same of the `size_t` of arrays, that it has every value of an int
twice.  `SingleAssumption` says that single precision
holds the integers up to 5 at least, which bounds the products of three roundings
(the code has 2^24).

**Induction and recursion.**  The theorems of the library on induction take an
operator as parameter, which the provers cannot instantiate, and nothing can be
computed with a recursive function before it is known to exist.  `Induction`
therefore states both about sets and functions.  A set of numbers with 0
and with the successor of each of its members has them all (`InductionUpTo`); a function
that answers at once for some arguments and passes others on to its own answer
exists if following them comes to an end (`TailRecursionExists`,
`CollectionExists`).  That a chain of `next` ends is then the well-foundedness of the
text, and not something assumed of the algorithm.

**Types.**  `TypeOK` is not inductive: `Exec...` reads the first item of `work`,
`CallFails` the item below the top, `Resume` the interrupted operand of the caller.
`TypeInv` adds that a busy activation has work of the kind its statement starts with,
that the item below a call's arguments still has that call, of a function, as an operand
to be evaluated (`WorkOK`), and the same of every suspended activation (`Waiting`).

**Frames.**  `FrameBalance` is inductive given the types: `CallKinds` shows that
four actions move frames and return addresses and the others end the program or
leave both alone.

**Depth.**  `FnDepth` needs three things: types, that the handler stays unset
(`HandlerOff`), and that `=` never returns "ok" (`ReturnLeaves`).  `Owed` counts the
return addresses still needed; each action is shown not to lower the FN stack below it.
Frames and depth together give `FrameIsLeft`: when `=` or ENDPROC is about to pop there
is something to pop, hence no underflow.

**Values, handler, errors.**  `ValueStep` follows the one value from `=` to the
caller.  A handler must not come between the two; that is `ErrorPlace`, which
says that with a handler, and before Ctrl-C, an error is set only at a failing
statement or at the DEF of a function called although an earlier operand of its
caller had failed.  `HandlerLinkedStep` rests on the handler being a GOTO or GOSUB node,
which is not an ON ERROR: clearing the old link cannot cut the link of the
statement it comes from.  `LastIsCurrent` says that without a handler the last
error is never cleared.

**Callers.**  `ReturnsKept` says what the FN stack holds for each suspended
activation: the `next` of the statement it was suspended in.  It is claimed only while
nothing under evaluation has failed (`Sound`): a function called after a failed operand
stops at its DEF, its return address stays on the stack, and the caller fails
anyway.  Without ON ERROR `next` never changes, so an address that was right when
it was pushed is right when `=` pops it.  `=` pops before its caller goes on;
in between, the address is in `pc`, and the invariant speaks of
`Append(fn_stack, pc)`.  `EscapeWins` needs no invariant: the proof
goes through the steps that can end a program.

**Loops.**  `LoopStacksAreLexical` finds the end of a loop by counting, which is
how a reader checks the text and no way to reason about it.  The proof has the function
`end` that `ProperlyNested` provides.  `LoopInv` says that each stack holds,
in increasing order, the loops of its kind around the current address, those that begin
before it and end at it or after it.  `AroundPlain`, `AroundOpen` and `AroundEnd` say how
that set changes from one address to the next; `EndBalances` (a bijection of opens and
ends) and `NothingElseBalances` (an injection that misses one) show that counting finds
`end`.  The hypothesis on the program is not empty: TLC evaluates
`NestedAssumption`, that every program of the run `NestedLoops` satisfies it.  Nor
can it be dropped: `RepeatInRecursion` in section 5 loses a loop with a call.

**Symbols.**  `IInv` is about frames alone: each table is well formed, and all but the
base table hold variables only.  The proof of the refinement does without chains after
its first part: `Scope(t)` is the function a table represents, and there is a lemma for
each operation of the code that says what it does to that function (an insertion at the
head of a chain binds one name, a search finds what is bound, `clear_buckets` unbinds
the simple variables).  `variable_add_frame` stops at the first argument that does not
fit, so its result is a recursive function in both specifications, and the two are shown
equal step by step over the parameters. The same lemmas give `HiddenIsKept`: an
operation changes the innermost binding only.

**Elements.**  The theorem is about arrays whose bounds are natural numbers below the
largest integer and whose elements an int can number; the code tests neither.  First the
wrapping arithmetic is undone: for such bounds each extent is the bound plus one, the
partial products are at most their total, so none wraps, and the quotients in `RowSizes`
are the products of the remaining extents.  The rest is arithmetic.  The subscripts up to
place i leave the interval of `Row(dims, i)` places from `Offset` on, each interval inside
the one before (`RowsAreNested`), so that a place is in the array, no sum wraps and no
place is -3; two places are equal only if all subscripts are (`SamePlace`); dividing a
place by one row after the other finds its subscripts (`EveryPlace`).  That an array has
`array_size` elements is an invariant that the refinement of `Scopes` reduces to what DIM
and assignment do to the base scope.

**Channels.**  `Inv` is the conjunction of the two properties of the list and `IsList`,
which says that the list is a sequence of entries.  One lemma per operation of the list
says what it does to the set of listed descriptors; the steps then only move descriptors
in and out of sets.  The crux is `RemovedList`: what CLOSE# leaves was listed, and it
leaves all the rest only if the channel was the head.

**Item pointers.**  `Items` cuts a file into pieces, whereas the code reads a tag and
skips.  By induction over the items, skipping n times from the start ends where the n-th
piece ends, whatever bytes follow; so a file that starts with n items has one such place
only, and PTR# finds it.  `PtrCountsItems` is an action property: a step of PRINT#
appends a piece or replaces one, and the cut up to there stays valid, which needs
`ChannelsAreWellTyped` for the entry and the pending statement.

**Lines and links.**  The invariant says how far `build_statements` has come.
`Passed` are the statements of lines before `stmt` in the order of the text, `Comes`;
`Progress` says that `tail` is the last of them.  `Links` then gives the whole
of `next`: each list is linked as the parser left it, the end of a line leads on if the
next line was begun, the end of a list of sub-statements leads on if the statement
it belongs to was passed.  A list inside such a list is not fixed up, which is
`NestedLinks` of section 5.  `NumbersKept` says the same of line numbers.  When
`stmt` is null all statements of lines are passed, and `Links` is
`LinksFollowTheText`.  `line_add` keeps the lines sorted because the place found is
the first with a larger number, and it is refused if the number is in the map.

**DATA.**  `Collected` says of a set of lines that their items are in `data_items` and
that the map has one entry for each, the first of its items; `DataKept` says this of the
lines of which `build_statements` has passed the DATA (`Taken`).  Where the items of a
line are is the number of items in the lines with a lower number.  The step from one
DATA to the next needs the order of the lines (`DataBefore`: when it is reached, the
DATA of exactly the lower lines are passed) and `DataEndsLine` (a second DATA in a line
would find the line in the map).

**Freeing.**  The graph shares the ends of its lists, so `free_internal` meets
statements more than once.  `Visits` says that each call at work is the only one at
its statement, which is visited and not freed; `LeadsOn` that everything a freed statement
leads to has been reached, that is visited, or is the statement a call in progress
is about to visit.  At the end no call is left, so what is reached is
visited and freed, and the first statement is reached: all is freed,
by induction along the lines and down the lists.

**Terminal.**  None of the four invariants is inductive.  `SavedWhenUsed` says that
there are settings to go back to wherever they are used, `StateFollows` that
`tty_cbreak` works only on a terminal that was reset and that `tty_state` is
stored only after the terminal was changed; with them `RawIsKnown` is preserved
by the handler at every position of the program, and by every fault but those that set
`lost`.  `Quiet` follows a key from the flush in `tty_cbreak` to `read`.  `MarkedByFailure`
says that a terminal still marked raw between two calls is one that could not be reset,
which is why the next GET fails; `Explained` adds where EINTR comes from.  Ctrl-C in
canonical mode may echo, hence `pressed` in `Quiet` and in `NotEchoed`; a call begins
with `pressed` false.

**READ.**  `RunsWhenBuilt` says that the list of items is final while the program
runs.  `OneWaits` is the crux: unless READs are nested, the item that waits
for its subscripts is the one `data_ptr` is still at, so that the step of
`data_ptr` after the assignment goes from that item to the next.

`DataInv` adds what the pointers are: `data_ptr` is an item or null, and the map
holds the first items of lines.  A READ of which every item was there when it was chosen
can follow a null pointer only if another READ, in its subscripts, took the
last item, which is `nested`.

**Expressions.**  What an evaluation gives depends on the operator and its operands
alone, so the invariant (`Evaluated`) is only that it has been made, and the proofs are
about the operators.  *Types*: an outcome is a value of its type or a failure
(`Proper`), function by function; what runs away does so for a negative count.
*Division*: truncation follows from the uniqueness of quotient and remainder
(`DivisionIs`).  *Strings*: a cut is a subsequence, and a negative count becomes larger
than every length as a `size_t` (`SizeIs`); `FirstPlace` shows that `strstr` from one
place on finds the least of the places MID$ would.  *Bits*: `SumBelow` adds the weights
of a set of bits; an induction over the places gives back an integer from its bits
(`BitsAre`) and the sum of two integers from OR and AND (`SumsAgree`); as the results
differ by multiples of the number of all integers, they wrap to the same one
(`SameWrap`).  *Floats*: the fraction that `value_float_new` makes is the one with the
least denominator (`LowestIsLeast`, by the division algorithm), hence the only one
(`LowestIsUnique`), so that equal quotients are equal floats (`SameFloat`); undoing +
and / is then cross-multiplication.  *Rounding*: `Nearest` is off by at most half a step
(`NearestIs`), and keeps the integers up to `SingleMax` (`SingleIs`); the quotient is
that of two rounded operands rounded once more (`SingleQuotientIs`), and
`ThreeRoundings` bounds the product of the three errors. *Order*: of two byte strings
that differ, the first place where they do decides (`StringsAreOrdered`).

Only model-checked:

* `FramePoppedByOwner`: it holds of the programs of its run and not of every
  program, as section 3 says.
* Liveness: `InterruptStops`, `InterruptEndsWait` and `WaitEnds`, since the prover
  does not handle fairness.

`HandlerFree` in a theorem is not a
convenience: `HandlerReturns` shows that the conclusion is false with ON ERROR.

## 5. Where the code differs from what it says

Sixteen configurations end in a violation, each of one property that states what a
comment, an assertion or the README says (the line is in the last column).  The first three
are runs of PROJECT.json, which quotes the lines; the others are run by hand, `tlc -config
X.cfg M`.

| configuration | module | property | what happens | line |
|---|---|---|---|---|
| `FnThenError` | `MCInterpreter` | `ErrorAtItsLine` | an error after a function call has the function's line | `runtime.c:191`, `README.md:63` |
| `Forgotten` | `MCOpenFiles` | `OpenAreListed` | CLOSE# of the older of two channels takes the newer one out of the list too; CLOSE#0 then leaves it open, and PRINT# or INPUT# on it aborts | `file_set.c:98`, `statements.c:750` |
| `LostInterrupt` | `MCTerminal` | `TimedWaitEnds` | Ctrl-C between the key and `read` flushes the key, and INKEY waits for a line without a limit | `terminal.c:63` |
| `HandlerReturns` | `MCInterpreter` | `FrameIsThere` | a handler that reaches `=` in a nested function aborts the interpreter: "stack frame underflow" | `statements.c:932` |
| `EndInFn` | `MCInterpreter` | `ValueIsThere` | END inside a function aborts: "runtime stack empty" | `expr_fn.c:79` |
| `SilentFailures` | `MCInterpreter` | `ErrorReported` | GET at end of input, a function without `=`, and an empty program can end in an internal abort, since no error code was set | `runtime.c:682` |
| `HandlerToNowhere` | `MCInterpreter` | `InterruptStops` | Ctrl-C cannot stop a program whose handler fails, because the flag is read only when no error was caught | `runtime.c:205` |
| `LocalAfterError` | `MCInterpreter` | `LocalOnlyInside` | an error in a PROC, caught, leaves its return address, and LOCAL is accepted at the top level | `statements.c:1298` |
| `LocalResident` | `MCSymbols` | `LocalIsSafe` | LOCAL of a resident integer follows a null pointer | `symbols.c:479` |
| `ClearedArrays` | `MCSymbols` | `ClearForgets` | CLEAR keeps arrays | `README.md:49` |
| `WrappedArray` | `MCSymbols` | `EveryElementIsAllocated` | the size of an array wraps, and the array has fewer elements than subscripts; DIM A(65535,65535,65535,65535) has none | `symbols.c:1043` |
| `NestedLinks` | `MCData` | `NestedLinksFollowTheText` | the body of a REPEAT in an IF is not linked to the next statement, so the program ends after it | `runtime.c:137` |
| `EchoedKey` | `MCTerminal` | `NeverEchoed` | Ctrl-C between `tty_cbreak` and `select` puts the echo back, and `get_char` waits on | `terminal.c:63` |
| `KeysLikeNone` | `MCTerminal` | `OnlyWithoutInput` | the byte 0 looks like a timeout and the byte 255 like an error | `terminal.c:67` |
| `SilentUndo` | `MCTerminal` | `AlreadyCanonical` | when `tty_cbreak` fails and cannot undo its change, the program exits with a raw terminal | `terminal.c:129`, `143` |
| `NegativeCount` | `MCExpressions` | `CopiesAreLimited` | STRING$ with a negative count asks for about 2^64 copies | `expr_builtin.c:1645` |

Two more configurations end in a violation when they are run, though no line of the
source says the opposite:

| configuration | module | property | what happens |
|---|---|---|---|
| `RepeatInRecursion` | `MCInterpreter` | `LoopsMatch` | a recursive PROC inside REPEAT loses a loop, with no GOTO |
| `NestedReads` | `MCData` | `ItemsOnce` | a function that READs in a subscript of a READ gets the item that the outer READ assigns too |

Others are in the models without a configuration: a function called in the limit
of a NEXT that leaves a FOR open makes NEXT pop the wrong entry; a step without
a value is dereferenced (`NextAborts`), because NEXT tests the limit twice; reading
a variable where only an array has the name aborts (`Eval`); DIM A(-3,-3) makes four
elements that no subscript reaches (`array_size`); a negative length in MID$ writes
beyond the copy (`expr_eval_func_mids`); an item that PRINT# or INPUT# leaves half-way puts
PTR# out of step; a GET after a terminal that could not be reset fails at once.  Of most
of these the
source does not say what should happen instead.

## 6. Plan

Done: the control core, files, symbols with their abstract specification, program
building and DATA, terminal, expressions.  Worth doing next:

1. An abstract set of open files that `OpenFiles` refines while `newest_first`
   holds.
2. The growable array of `stack_addr.c` refining a sequence.
3. The print column: PRINT, COUNT, TAB and POS against functions called in a print
   list.

## 7. Not modelled

* PRINT and INPUT: layout and line input.  They appear in `Interpreter` as
  statements that evaluate expressions and may fail.
* The elementary functions, RND, and conversions between numbers and text (STR$,
  VAL, `@%`): library calls and wording.  EOF#, EXT# and the function PTR# only read.
* The lexer and the grammar: tables for generators.  `IsProgram` and `Parsed` say
  what they build.
* Options, colours, random numbers: no state of interest.
* The containers of `pgcommon`: hashes are functions to buckets; the array of
  `stack_addr.c` is a sequence.
* Memory: except where the program's data decide it (DIM, STRING$, deep calls),
  an allocation succeeds.
