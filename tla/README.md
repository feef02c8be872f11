# Alopecurus in TLA+

Alopecurus is a small scripting language: a compiler to register bytecode, an
interpreter, coroutines, an incremental garbage collector and a C API of
`alo_*` functions over a value stack. This directory models the parts of its
implementation (`src/src/*.c`) whose correctness depends on the *order* of
things: collector steps between operations of the program, coroutines that run
on each other's behalf, finalizers called in the middle of a collection, hash
chains that are cut and joined in place, registers and jumps that a one-pass
compiler hands out and patches, a backtracking matcher, a sort whose comparator
is a script. TLC checks the models on small
instances; TLAPS proves the central ones for every instance.

## 1. The system

Everything runs in one operating-system thread. There is no preemption, but
there is plenty of interleaving, because control leaves the code at known
points: an allocation may start a collection, a collection may call a
finalizer, a finalizer is a program, a program may resume a coroutine, a
coroutine may yield, and an error may leave all of them at once by `longjmp`.

| component | files | state | operations |
|---|---|---|---|
| collector | `agc.c` | colours, gray lists, white bit, step, list being swept, finalizer lists | `gcstep`, `aloG_step`, `aloG_fullgc`, barriers, `aloG_checkfnzobj` |
| memory | `amem.c`, `abuf.c` | debt and base counters, buffer stack of a thread | `aloM_realloc` with its emergency collection, `aloB_*`, `alo_buf*` |
| threads and calls | `astate.c`, `ado.c` | frames, value stack, status, caller, C-call depth, error label | `aloD_call`, `aloD_pcall`, `alo_resume`, `alo_yieldk`, `aloD_throw`, stack growth |
| closures | `afun.c` | open captures of a thread, reference counts | `aloF_find`, `aloF_close` |
| tables | `atab.c` | slots with relative links, `lastfree`, `length` | find, put, remove, iterate, resize, trim |
| lists, tuples | `alis.c`, `atup.c` | array and length | get, put, add, remove, trim |
| strings | `astr.c` | intern table, address cache | intern, remove, grow, compare, hash |
| tag methods | `ameta.c` | negative cache in the `reserved` bits of a table | fast lookup, invalidation |
| interpreter | `aeval.c`, `avm.c` | program counter, frame | one action per instruction |
| compiler | `alex.c`, `aparse.c`, `acode.c` | token, function state, registers, jump lists | scanning, parsing, code generation |
| chunks | `asave.c`, `aload.c` | bytes | save and load of a prototype |
| debug information | `adebug.c` | line tables | line of an instruction |
| API | `aimpl.c`, `aaux.c` | the stack of the calling thread | `alo_*`, `aloL_*` |
| libraries | `a*lib.c` | what they keep in the registry (loaded modules), cursors | pattern matching, modules, coroutines, io |

How they interact. The program (C code through `aimpl.c`, bytecode through
`aeval.c`) moves references between the stack of the running thread and heap
objects; stores go through the barriers of `agc.c`. Each object creation passes
an allocation point that may run `aloG_step`; any allocation that fails runs
`aloG_fullgc` with kind *emergency* at once. `gcstep` reads what the program
wrote: the references of tables, lists, closures, and the stacks and `caller` of
threads. At the end of a cycle it calls finalizers through `aloD_prun` and
`aloD_callnoyield`, which run program code again.

What is hard, and what makes each part correct:

* *Collector.* The program runs between any two `gcstep`s and in `callfin`.
  Correct: it frees nothing the program can still reach, no live object ever
  points to a freed one, nothing waits for a sweep that has already passed, and
  a full collection leaves only what is reachable.
* *Finalizers.* They are programs that run inside the collector; they may
  allocate, start a collection, stop the collector, throw. Correct: the flags
  the collector keeps (`gcrunning`, `gckind`, `fgc`) come out as they went in,
  each object is finalized once, in order, and a cycle comes to an end.
* *Tables.* Chains share the slot array, so inserting or removing one key
  moves another. Correct: what was put and not removed is found, an iteration
  that removes as it goes misses nothing, and a table that is not full has a slot.
* *Coroutines.* `alo_resume` and `alo_yieldk` keep the status, caller and depth
  of two threads and the global `trun`; errors cut across. Correct: the resumed
  threads form a chain, and every switch returns to the thread it came from.
* *Compiler and interpreter.* Code is emitted while the source is read, so the
  registers, jumps and captures of an expression are decided before what follows it
  is known. Correct: a program does what its text means; operands stay in the frame;
  a capture is shared by all who see the variable and closed when it goes.
* *Chunks.* What is loaded is what was saved, and a cut file is refused.
* *Patterns.* The matcher goes back to labels that hold less than the state at their
  time. Correct: the match found is the first of the ways the pattern can match.
* *Sort, map and folds.* They call the script while elements are only on the stack.
  Correct: no element is lost, whatever the function answers or does.
* *Memory stack, strings.* Addresses change when a block grows; counters decide who
  frees. Correct: no address into the old block survives, nothing is freed twice or
  leaked, and equal short strings are one object.

`PROJECT.json` lists every component with its status, and the hazards with the
properties that watch them.

## 2. Plan

Modules, in order; the ones in bold exist.

1. **`Reachability`, `AbstractHeap`, `AloGC`** - the heap, the incremental
   collector and every operation of the program on references.
   **`AloGCProofs`** - their theorems.
2. **`GCFinalize`** - finalizer calls, nesting of collections, the collector's
   control flags, `aloG_step` and `aloG_fullgc` as a call stack.
   **`StackProofs`, `GCFinalizeProofs`** - their theorems.
3. **`AbstractMap`, `AloTable`** - the chained table refines a map.
   **`AloTableProofs`** - its theorems.
4. **`Coroutine`** - `alo_resume`, `alo_yieldk`, `aloD_throw`, `aloD_pcall`,
   status, caller and depth. **`CoroutineProofs`** - its theorems.
5. **`Instructions`, `CodeGen`, `Compiler`, `SoundCode`, `Machine`, `Meaning`, `Chunk`,
   `ProgramLife`** - from a syntax tree to code, to a file and back, and its execution,
   against an evaluator. **`MachineProofs`** - the theorems about the interpreter.
6. **`Patterns`, `Subjects`, `Matcher`, `PatternMeaning`, `StringLibrary`** - the pattern
   compiler, the matcher and the calls around it, against the ways a pattern can match.
   **`MatcherProofs`** - the theorem about the matcher.
7. **`ListLibrary`** - sort, map, filter and the folds. **`ListLibraryProofs`** - the
   theorems about sort and about the iterations.
8. Theorems of 1 to 7 are proved (section 5). To come: lists that sort splits into runs
   and merges, and that what the code generator emits is sound.
9. `MemStack`, `InternTable`, `StackGrowth` - blocks that move, counters that free;
   `WeakTable` - the clearing passes of `gcatomic` over tables (2 with 3);
   `TagCache`, `ModuleLoad` - the remaining components with a state of their own.

Abstract specifications: a heap, a map, the meaning of programs and of patterns
(done); a set of strings for the intern table, a LIFO of buffers for the memory
stack (not yet).

## 3. The modules, their runs and what they show

A module `X` has a module `MCX` that TLC runs, and the operators marked *Fault*
in `X` are wrong versions of the definition below them, each the kind of slip one
makes in that code; `PROJECT.json` lists which property catches which.

### 3.1 `AloGC`: the collector and the program

State. `color` is the mark byte of each object (`free` for memory without an
object), `ref` everything it refers to as one set: table entries and metatable,
captured values, list elements, the stack of a thread below its top. `gray`,
`grayagain`, `fnzable`, `tobefnz` are the linked lists of `agc.c` as sets, so
every traversal order is covered; `tosweep` is the part of the list under sweep
that `G->sweeping` has not passed. `full` counts the four `gctill` loops of
`aloG_fullgc`. `trun`, `caller`, `status` are the coroutine switches.

Actions. `GCStep` is one call of `gcstep`, with an alternative per step;
`FullGC` is the entry of `aloG_fullgc`. The mutator's actions are the reference
changes behind the API and the instructions: creation (`New`, `NewThread`,
`InternString`), loads and pops, stores with their barriers (`SetField`,
`SetMetatable` with `aloG_checkfnzobj`), the stores the code makes without a barrier
(`ListAdd`, `CaptureStore`, `CloseCapture`, `XMoveTo`) and the switches of
coroutines. Any of them may fall between two collector steps; while a full
collection is under way the mutator runs only as a finalizer does (`MutatorRuns`).

Two specifications. `Spec` is everything the program does. The run `GCLost` shows that
under it the collector frees live objects, because some operations lack a barrier
(section 4). `SafeSpec` is `Spec` without exactly those steps that hide a white
object behind a black one (`Hides`, `HidesStack`); the same operations are
allowed whenever they hide nothing. Everything else about the collector is
checked, and proved, under `SafeSpec`.

| run | question | instance |
|---|---|---|
| `GCTables` | does the collector refine `AbstractHeap`, keep its lists straight and free everything unreachable in an emergency, with tables, data, metatables, finalizers, full and emergency collections | 1 thread, 2 tables, 1 raw datum, sweeps of 1; 738k states |
| `GCThreads` | coroutines: is anything reachable freed, does the tri-colour invariant hold | 2 threads, a string, emergency collections; 137k states |
| `GCStores` | is `IInv` kept by list and capture stores | 1 list, 1 closure; 222k states |
| `GCLost` | the finding of section 4 | 2 threads, 2 tables |

Bounds. `MaxSweepCount` is 1 instead of about 130: a sweep that stops after every
object has all the borders a longer batch has. One object of each kind beside
the roots suffices for lost objects (one holder, one victim), and two kinds meet
in one run where the code treats them differently. `FullKinds` and `Finalizers`
restrict the largest runs.

### 3.2 `AbstractHeap` and `Reachability`

`AbstractHeap` is the promise: the collector frees objects no chain of references
reaches from the roots, and changes nothing else; the program never sees a freed
object. `AloGC` implements it with `alloc` the objects that are not free and
`roots` the main thread, the registry and the running thread. `Reachability`
defines reachability as the least closed set, so that it can be reasoned about
without recursion.

### 3.3 `GCFinalize`: the collector called from itself

State: the C stack as a sequence of activations (program, `aloG_step`,
`aloG_fullgc` at its n-th `gctill`, `callfin` with its counter, a finalizer with
the saved `fgc`, `aloG_clear`), the flags `gckind`, `gcrunning`, `fgc`, the counter
`nfnzobj`, the lists `gfnzable` and `gtobefnz` in their order, and the bit
`aloG_final`. Marking and sweeping are one step each. `ProgramOps` and
`FinalizerOps` say what the program and the finalizers do in a run: register
objects, allocate, ask for a full collection, run out of memory, switch the
collector on or off, throw, close the state.

| run | question |
|---|---|
| `Fin` | everything at once: flags restored after a finalizer however it ends, the collector not entered from itself, full collections and closing leaving nothing unfinalized, every incremental step and every emergency collection returning (`StepReturns`, `EmergencyReturns`); 242k states |

Some of this holds only until a finalizer does a certain thing. The history variable
`did` records what finalizers did, and the properties name the exception they need
(`NoReentry`, `FullFinalizes`, `AllFinalized`): each exception is a
finding, and each is necessary.

Bounds: two objects, a stack of 10 activations (two or three nested
collections), `nfnzobj` modulo 4 instead of 2^64, which keeps the overflow to 0,
work of at most 2. `FairSpec` assumes that loops of the collector run when they are
in control (they are sequential code) and that a finalizer returns (strongly fair,
since it may run collections meanwhile): a finalizer that loops for ever is the
program's own doing. `nfnzobj` starts with any value, because `alo_newstate` does
not set it.

### 3.4 `AbstractMap` and `AloTable`: tables

`AbstractMap` is a map in which a pair is set, a key is removed, or all are. `AloTable`
is `atab.c`: `tab` is the table with its `capacity`, `length`, `lastfree` (an index) and
entries `at`, each with a key, a value and the relative links `prev` and `next`; `off`
is the offset of an iterator. `MoveEntry`, `LinkAfter`, `Place`, `Resize`, `Remove` are
`movety`, `addety`, `putety`, `resizetable`, `remety`, statement by statement where links
change, and the actions are the functions of `atab.h` that change a table. A key is a
model value with a hash; `SlotOf` is the search by which the table is read, so the
refinement (`map` is what the search finds) says that lookups see a map.

Under `Spec`, which is the code, a removal from the middle of a chain breaks it
(`TableMiddle`); `SafeSpec` leaves these removals out. The history variable `moved` tells
that a moved head has left a slot behind `lastfree`; `Insert` has no step where the
code would dereference the NULL of `newety`.

| run | question |
|---|---|
| `Table` | is the table a map, are links mutual, is every entry found and counted, is each free slot found until one is lost, does iterating with removal miss nothing; 26.5k states |
| `TableMiddle` | finding of section 4 |

Bounds: four keys, three of which share a chain of a table of 4 slots and two of which
do in one of 8 (a chain of three has a head, a middle and an end; a fourth key
occupies slots of the others), two values, sizes up to 8, so that a table grows, is
trimmed by halves, and meets its limit.
### 3.5 `Coroutine`: coroutines, calls and errors

`Coroutine` is `ado.c` from `aloD_prun` on, with `alo_callk` and `alo_pcallk` and the
coroutine library. Two kinds of stack make it up. `frames[t]` are the frames of a
thread above `base_frame`, with the flags that decide who continues them: `kfun`, and
`ypc` (`fypc`). They survive a yield. `cstack` is the C stack that all threads share: an
activation is what `aloD_call`, `aloD_pcall` or `alo_resume` keep in C locals (the saved
`nccall`, `nxyield`, `errfun` and depth of frames) and lose when a yield or an error jumps
over them. `Jump` and `Yieldk` cut `cstack` at the innermost label of the running
thread; `BackTo` is what happens when a frame is left: to the caller on the C stack, to
`unroll`, or out of `alo_resume`.

| action | code |
|---|---|
| `Precall` | `OP_CALL`, which needs no C stack |
| `Callk`, `Pcallk`, `MetaCall` | calls from C with or without a continuation, protected, and of metamethods |
| `Return`, `Leave`, `BackTo` | `aloD_postcall`, the rest of the caller, `unroll` and `postpcc` |
| `Throw`, `Handle`, `Jump` | `alo_error`, the error handler, `aloD_throw` with `recover` |
| `Resume`, `Enter`, `Yieldk` | `aux_resume` and `alo_resume`, `resume_unsafe`, `alo_yieldk` |

Functions do anything they may at any time. `ctl` names the piece of code in control,
or how the process ended: `abort` (a panic), `recursion`, `badcont`, `lost`.

| run | question |
|---|---|
| `Coro` | do the threads in control form a chain of `caller`s in status `Run` that leads to the main thread, do `nccall` and `nxyield` count what is on the C stack however it was left, can what is suspended be continued, does an ended coroutine stay ended; 2.4M states |

Bounds: the main thread and two coroutines, interchangeable (`Symmetry`), so that one
can resume the other; 2 frames a thread besides error handlers, enough for a call
inside a protected call or a yield with a continuation; `MaxCCall` is 3 and
`ExtraErrCall` 1 instead of 200 and 25, so that the limit is met by calls, by resumes
and by error handlers; 1 value left on a coroutine. The run does not check for deadlock:
the process may abort. Data that does not decide control is left out: values, hooks
(which only a C host installs), stack growth, and that a stale `errfun` may point to
something that is no function.

### 3.6 `Compiler` to `Machine`: what becomes of a program

`ProgramLife` follows a program from its syntax tree to its end. It composes

* `CodeGen` (`acode.c`): registers, constants, jump lists that are linked through
  the offsets of pending jumps, conditions, and the forms of an expression that is not
  in a register yet. A function state and an expression are passed from operator to
  operator as the code passes `afstat_t*` and `aestat_t*`.
* `Compiler` (`aparse.c`): each production calls the generator in the order in which the
  parser reads the tokens, so code is emitted before what follows is known, as there.
  `broken` is a failed assertion and `error` a call of `aloX_error`.
* `Instructions`, `SoundCode` (`aop.h`, and what `aeval.c` takes for granted of its code): the
  instructions, and when the operands, ranges and ways on of a function are right.
* `Machine` (`aeval.c`, `ado.c`, `afun.c`): one action, `Step`, executes the instruction of
  the running frame or lets a native go on. The stack is shared by all frames and keeps
  stale values, `top` is `T->top`, `cells` are captures, open or closed.
* `Chunk` (`asave.c`, `aload.c`): a prototype as bytes and the reading of them, field by
  field; the file may end anywhere (`CutIt`).

`Meaning` is the abstract side: an evaluator of syntax trees without registers, jumps,
instructions or captures. What the compiler makes of each program and what it means
are constants that `MCCompile` fills, so that TLC computes each once.

| run | question |
|---|---|
| `Compile` | for 297 programs and 2 inputs: do the values handed to the host, the results, the globals left and failure agree with the meaning (`BehavesAsWritten`), does no assertion of the compiler fail and does it refuse what it should and no more (`Accepted`), is code as compiled sound: operands and ranges in the frame, jumps patched, open numbers of values taken by the next instruction (`CodeSound`), are open captures variables of live frames, shared (`CapturesInFrames`), does the interpreter stay in the code, the stack and the captures of its function, with `T->top` where the next instruction wants it (`StaysInFrame`), is what is loaded what was saved, and is loading stopped by an assertion only at a constant of exactly the longest short length (`LoadedAsSaved`), is a cut file refused (`TruncationRefused`), does every program end (`Halts`); 62.5k states |

Programs are families: a shape of statement with every combination of operands of a
kind (`Tests`: conditions of conditions, as tests and as values; `Loops`: the three
loops, plain and named jumps out of them, also from inside another loop, their `else`; `CallPrograms`: parameters too
few and too many, rest parameters, open results, tail calls, calls by the host;
`Closures`: captures shared, nested, closed by a return or by the end of a body; `Moves`: values of every form to
targets of every form; `Strings`: constants from the empty one to longer than a byte counts,
also in an inner function; `Failing`, `BadPrograms`). The programs leave out what section 4 lists, since the
property would only say again that the code does not do it.

Bounds. `MaxStack` (32768 in the code) is 40 and `FastConsts` (65536) is 60, more than the
programs use, except for the one with too many variables; `StackSize` is the stack the machine needs.
`ByteMax` is 5 instead of 255, so that names of 3 to 6 characters lie on both
sides of the border of a short length. `MaxIStrLen` is 3 instead of `ALO_MAXISTRLEN`, with
constants of 2, 3 and 6 characters: below, at and above the border of a short string. `IntSize` and `SizeSize` are both 3 bytes: on a
machine where `size_t` is wider than `int`, loading does not work at all (section 4).

Fairness: `WF_vars(Execute)`, the loop of `aloV_invoke` goes on until it returns.

Abstracted: floating-point arithmetic, metatables, conversions between types, names (they
are tokens), line information beyond one entry, and natives, for which two stand:
`echo` logs its arguments and returns them, `apply` calls its first argument with the rest.

### 3.7 `Matcher`: patterns and the functions that use them

`Patterns` is the compiler of patterns, from an expression to instructions in an array
in which entries are inserted, erased and later folded by relative jumps, with what an
erased entry leaves behind the end; `c_trim` cuts that off. `Subjects` has the tests of
characters and the plain search. `Matcher` gets the compiler as the constant `CodeOf`, so
that its theorem is about any code of the right form (`Formed`); the run gives it
`Compile`, and TLC evaluates on all patterns of the run that what it makes is formed
(`CodeAssumption`). `Matcher` runs a call: `Run` is one instruction of
`match()`, which pushes labels with a position and one counter, or goes back to one, or a
round of `find`, `match`, `replace` or `split` around it; the calls without a pattern
(plain replace and split, reverse, trim, byte, repeat) have actions of their own.
`PatternMeaning` is the abstract side: the sequence of all ways in which a pattern matches
at a position, preferred ones first, and the meaning of each call; `StringLibrary` puts the two
side by side.

| run | question |
|---|---|
| `Text` | is the match found the first of the ways, with its groups (`FirstWay`), do program counter, labels, counters and positions stay in the code and the subject, and positions behind the begin of the attempt (`StaysInside`), does a call return what it is for and fail only when it should (`Returns`), does it come back (`Halts`); 201k states |

Bounds: subjects are all texts of up to 3 or 4 characters over two letters (up to 5 for
plain calls; over letters, digits, blanks and line ends where classes and limits
matter), patterns are one construct in another beside a third. A subject of 4 lets a loop
take three turns and still leave something for what follows. `SeqMax` and `BufMax` are 4
instead of 256, so that words and results exceed them; `Many` stands
for `INT32_MAX`, more than any subject has. Left out as in 3.6: patterns that section 4 lists.

Fairness: `WF_vars(Run)`; loops of the library go on. Compiling is one step.

### 3.8 `ListLibrary`: functions that call a script

`st` is the stack of the thread above the two arguments, `work` what is left to do of
the calls in progress: qsort of a part, a partition at its two positions, a merge, an
insertion with the bounds of its search. A task either asks the script (`Asks`), and the
answer picks the action that goes on, or is expanded. Where the script is asked it may
also throw (`Throw`) or append to the list it is asked about (`AppendByScript`).

| run | question |
|---|---|
| `Lists` | does sort neither lose, invent nor double an element of a list it does not merge, with a comparator that answers anything, throws and appends (`NothingLost`); is a list it does not partition in order (`InOrderWhenShort`); does it end whatever it is told (`Ends`); do map, filter and the folds return what their names say although the list grows under them (`Meaning`); 253k states |
| `SortLong` | finding of section 4 |

Bounds: the thresholds for partition and merge are 5 and 10 in `Lists` instead of 40
and 128, so that lists of 5 to 7 elements are partitioned and those of 11 are searched for runs
and merged; `SortLong` has the real ones. A comparator is either the natural order or
answers anything each time it is asked. The script appends one element at most and
removes none: an in-place filter trips an assertion of `alo_triml` if the list has
become too short. `foldr` is not run on one element (section 4).

Fairness: `WF_vars(Next)`; the library is sequential and a comparator returns.


## 4. Findings

In the runs `GCLost`, `TableMiddle` and `SortLong` TLC shows the code reach a state
that a comment of the code excludes. The others are exceptions that a property of
a passing run must make, or inputs a passing run leaves out because the property
fails with them.

* *Lost objects.* `propagate` blackens suspended coroutines, which run again without
  being rescanned (`GCLost`). Appends to lists (`aloI_add`) and assignments to
  captures have no barrier and lose objects the same way (`Hides` in `AloGC`).
* *Finalizers.* A finalizer that throws leaves `gcrunning` set (`agc.c:742`).
  `nfnzobj` can reach 0 and stay there (`agc.c:760`), and a full collection then
  never returns. An
  emergency collection inside a finalizer clears `gcrunning` while the outer
  collection goes on, against "stop re-run GC when it is running" (`NoReentry`), and
  leaves the outer full collection at `Pause` with finalizers uncalled
  (`FullFinalizes`). A finalizer that registers an object while the state is closing
  leaves it behind, against the assertion of `aloG_clear` (`AllFinalized`).
* *Tables.* Removing an entry from the middle of a chain writes the link with the wrong
  sign (`TableMiddle`). Removing the head of a chain loses a free slot, and a later
  insertion into a table that is not full dereferences NULL (`atab.c:342`,
  `FreeUnlessMoved`).
* *Coroutines.* Metamethods are called without forbidding yields even by C functions
  that cannot be continued (`ameta.c:58`, `ContinuableUnlessBare`); what follows is a call of a null
  continuation (`badcont`, against the assertion at `ado.c:438`). Steps of the model that show more, without a run of
  their own:
  - a new coroutine that is given arguments is "already dead": `alo_resume` compares
    the top of its stack with that of a coroutine without arguments, but `aux_resume`
    has moved them there before (`Dead`, `ado.c:534`); `thread.resume` documents that it
    moves the arguments and runs the function. `resume_error` takes them from the
    stack of the resumer once more.
  - the counterpart: a coroutine that has returned, resumed with exactly one argument,
    passes the check and calls the nil below it (`Enter`).
  - when `nccall` is `ALO_MAXCCALL` the call of an error handler raises the same error,
    which calls the handler again (`recursion`): "error in error handling" is not reached.
    A handler that fails itself gets there in 200 steps.
  - `alo_resume` at the limit raises the error on the thread that is not running yet,
    which has no label: the process aborts although the resumer is protected (`abort`).
  - `recover` leaves `fypc` set: a continuation that fails is found and called again,
    for ever if it always fails; and `errfun` is not set back to `oef` when a protected
    call ends by its continuation, so that the handler is called for later errors, even
    of a coroutine that has returned (`EndedStaysEnded`).
* *Compiler.*
  - `break` and `continue` inside an `if` in a loop whose body makes closures do not close
    the captures (`fixjmp` decides by a `firsttemp` that has changed since,
    `acode.c:26`), and the variable of `for (j in ..)` is not closed from one round to the next.
  - `return x, v...` and `local x = 1, v...` use a wrong count, `n:m` assignments with
    fewer values than targets a wrong register; so does a spread that is the value of an
    assignment, the sole value returned or the last of several.
  - `x = a .. b` with an existing local `x` never moves the result there.
  - an operator assignment to `t.q[i]`, or with a call as operand, leaves registers
    allocated: a later assertion fails.
  - `do { .. continue .. } while (c)` goes on without the test.
  - `(a && b)` or `(a || b)` as an operand loses its jumps; a second `?.` in one chain
    loses the first jump.
  - `priorities[]` (`aparse.c:118`) has a row for `::`, which is no operator, so the
    operators after it have the priority of a neighbour: `a > b && c` reads as `a > (b && c)`.
  - `>` and `>=` of two constants are folded into the right operand, and the left one
    remains as the value (`acode.c:1053`).
* *Interpreter.* Code that `SoundCode` excludes, and steps for which `StaysInFrame` makes
  an exception; the compiler emits all of it for some program:
  - a variadic function called with fewer arguments than it has parameters
    gets a negative number of extra ones (`aeval.c:584`): `SoundCode` wants variadic
    functions that use these without other parameters.
  - for a fixed number of extra arguments (`x, y = rest`) the generator sets the count in
    `C` of `LDV`, and the interpreter reads it from `B` (`aeval.c:584`).
  - `CAT` leaves `T->top` right above its result, unless a step of the collector resets it
    to the top of the frame (`Collected`); what the
    making of a function then pushes there goes into a register that may be in use
    (`f(a .. b, x, fun() {})`).
  - for the same reason an open number of extra arguments may be copied past the stack:
    `LDV` makes room for them above `T->top` (`aeval.c:589`) and writes them from its register
    on. In `f(a .. b, x, y, rest...)` the top is below that register (status `overrun` of `Machine`, which
    `StaysInFrame` excludes; `SoundCode` wants no open `LDV` in a function with `CAT`).
  - a tail call of a native in a function called by another abandons the caller
    (`aeval.c:963`).
  - `aloD_rawcall` fills missing arguments with nil, and moves arguments of a variadic
    function, before it checks that the stack has room (`ado.c:313`).
* *Chunks.* The saver writes `int` counts (`asave.c:127`) where the loader reads
  `size_t` (`aload.c:167`): where these differ in size nothing loads. A constant of exactly
  `ALO_MAXISTRLEN` characters is saved as a short string and loaded as a long one
  (`aload.c:131` has `<` where `aloS_new` has `<=`, `astr.c:176`), against the assertion "too
  short to store in heap" (`astr.c:138`), which stops the load (`LoadedAsSaved`). Without
  assertions the string is a heap string of the length of an interned one, and equal to no
  string that was made in the program (`avm.c:216`). Functions inside a
  function are read before its source is, and get none (`Kept`). Without debug
  information the names of captures stay uninitialised (`aload.c:154`), and the
  collector follows them.
* *Patterns.*
  - greedy `{m,n}` does not count: `RE_REPX` tests the counter and never raises it
    (`astrlib.c:400`). Loops that count share one counter with the ways they go back to, so
    with a choice in their body they lose matches or find wrong ones.
  - a loop over something that may match the empty text does not end, nor do `replace` and
    `split` with a pattern that matches it, nor plain `replace` of an empty target.
  - groups are not put back when the matcher goes back, nor set before the first time.
  - `\W` and its kind do not negate (`astrlib.c:260`), `[a-z]` is always refused, `[^..]` matches at
    the end of the subject without moving on; a set that begins with a literal `-` is read
    as a range, past its end (`astrlib.c:267`).
  - a literal backslash in a word of two or more characters is stored bare
    (`astrlib.c:605`) and read back as the begin of a class (`astrlib.c:298`).
  - folding jumps reads an entry that has already moved (`a|{2}b`); a group in a counted
    loop is compiled twice, with two numbers.
  - `\0` in a pattern is looked for with `*(s++)` (`astrlib.c:357`) and found behind the end of
    the subject, and the position is past `send` then; `CodeAssumption` excludes it.
  - `$$` in a template repeats text; `^` in `split` matches at each piece.
  - plain `replace` tests the subject instead of the target ("replace target cannot be
    empty."); `repeat` copies too much unless the count is a power of two or one
    more, and divides by zero for an empty text; `byte` takes the length as an index.
* *Sort and folds.*
  - `partition` exchanges the pivot with an element that is not below it: lists of 40
    elements and more are not in order (`SortLong`).
  - `mergeaux` leaves its basis on the stack when all of the left part is below it, and
    later merges take it for an element: lists above 128 elements, sorted ones included,
    can lose elements (`NothingLost` is about the others).
  - `foldr` of one element calls its function with the arguments exchanged.


## 5. What is proved

TLAPS checks every theorem and every lemma below; nothing is assumed but the named
assumptions on constants, which TLC evaluates in the runs.

### 5.1 `AloGCProofs`: the collector

This module proves, for every set of threads, tables,
data, strings, lists and closures, finite or not, and every sweep batch, from the
assumptions `KindAssumption` (the kinds are disjoint, the main thread and the registry
exist):

* `Inductive`: `SafeSpec => []IInv`. `IInv` is the conjunction of `TypeOK`,
  `StringsHoldNothing`, `ListsAllocated`, `NoDangling`, `TriColor`, `GrayLinked`,
  `PropagateHasGray`, `DeadAwaitSweep`, `MarkedAwaitSweep` and `ActiveChain`. None of
  them is inductive alone. Safety of the sweep needs that `Atomic` condemned nothing
  that a survivor refers to, which needs that every object marked before it has marked
  references (`TriColor`) or is in a gray list (`GrayLinked`); that the next cycle starts
  from white objects needs `MarkedAwaitSweep`; that switches return to a thread that
  exists needs `ActiveChain`.
* `TypeCorrect`, `NothingLiveDies`, `NoReferenceDangles`, `TriColorKept`,
  `GrayListsSound` follow from it.
* `FullCollects`: `SafeSpec => FullCollectsAll`. An emergency collection runs without the
  program, and a second invariant, `FullInv`, follows it through the calls of `gctill` in
  `aloG_fullgc`. The first ends the cycle that was on its way, which says nothing of
  garbage: an object may have died after it was marked. The second begins a new
  one; all through the third every marked object, then every object that is not condemned, is
  reached from the main thread, the registry, the running thread and `tobefnz` through
  such objects (`Found`). So what is allocated when the collection returns is reached.
* `ImplementsHeap`: `SafeSpec => HeapSpec`. A collector step is `Free` or leaves the
  heap alone; a mutator step is `Program`, because `IInv'` keeps everything live
  allocated.

The proof of each step lemma has one step per action and one per conjunct the
action disturbs; facts about least closed sets come first in the module.

### 5.2 `StackProofs` and `GCFinalizeProofs`: nested collections

`StackProofs` has what the next proofs need of a stack that is a sequence: the part
`Under` each activation is kept when one is pushed, replaced or popped; and that a set of
numbers that is not empty has a least one, the form in which inductions are done here.

`GCFinalizeProofs` is about every set of objects, every stack and counter limit, and every
choice of `ProgramOps` and `FinalizerOps`, from `CountAssumption` and
`OpsAssumption`. `IInv` is `TypeOK`
and

* `StackOK`: each activation is right for what is under it. A finalizer is under `callfin`
  or `aloG_clear`, `callfin` under a step or a full collection; a finalizer has saved in
  `oldgc` what the program has set, unless it runs in another one; a collection is
  on top of another only after a finalizer did what the properties name.
* `FlagsOK`: `fgc`, `gcrunning`, `gckind` and `gcstep` are right for the stack as a whole,
  and the lists are empty when `aloG_clear` has passed.

`StateRestored` speaks of the moment the program is in control. Its proof needs to know
what the flag is while any number of finalizers and collections are on top of one
another, and what each of them will restore: hence one predicate for each
activation, kept by a push because `Under` does not change, and by a pop because
it held of the smaller stack. Theorems: `Invariant`, `TypeCorrect` (an interrupted loop of a full
collection is one that `gctill` can go on with), `StateIsRestored`, `NotReentered`,
`AllAreFinalized`, and the action property `FullIsComplete`.

The theorem says more than the run: finalizers of `Fin` do not ask for a full
collection. The proof showed that one that does enters the collector again after an
emergency collection, also without switching anything on; `NoReentry` names that case.

### 5.3 `CoroutineProofs`: threads over one C stack

For every set of threads, every `MaxCCall`, `ExtraErrCall`, number of frames and of
arguments, from `ThreadAssumption` and `LimitAssumption`. `IInv` is `TypeOK`, `ContinuableUnlessBare` and,
while the process is alive, `CInv`:

* `ChainOK`: each activation was started by the thread that runs above what is under it,
  and keeps in its locals what the counters were there (`nccall`, `nxyield`, `depth`);
  exactly the threads with a `resume`
  activation, and the main thread, are in status `Run`;
* `WaitOK`: a thread that waits for one it has resumed has its frames and counters of that
  time, and is its `caller`;
* `DepthOK`, `CountOK`: `nccall` is the length of the C stack, unless a call has just
  failed at the limit, and `nxyield` the number of activations that forbid to yield;
* `FramesOK`, `BaseOK`: every activation's frames are still on its thread below
  the function it called, and only the host program runs without a frame;
* `ContOK`, `ProtectorOK`: frames that lost their C caller have a continuation; a frame that
  `recover` may go back to is below all activations that forbid a yield.

The last is the reason a jump is right: `aloD_throw` takes counters from the locals of the
activation with the innermost label and cuts frames to its depth, and a yield takes none;
that both leave counters equal to what is on the stack needs the saved values right for
*all* activations below, and no protector in the way. Theorems: `Invariant`,
`TypeCorrect`, `ChainIsKept`, `DepthIsCounted`, `BoundariesAreCounted`, `SuspendedIsContinuable`
and the action property `EndedIsEnded`: all the properties of the run `Coro`.

### 5.4 `AloTableProofs`: chains in an array

For every set of keys and values, every hash and every `MaxSize`, from `TableAssumption`,
under `SafeSpec`: without removals from the middle of a chain, after which the run
`TableMiddle` finds `FoundByKey` false. `IInv` is `TypeOK`, `FreeUnlessMoved`, `DueAhead` (a key
that an iterator owes is ahead of it) and `TableOk`:

* `Chained`: there are ranks for the slots such that each used slot is a head in the
  place its hash leads to, of rank 0, or behind another of the same hash, whose rank is
  one less, and links are mutual. The properties do not mention ranks. But that links
  are mutual excludes no circle off the head, in which keys would not be found;
  with ranks an entry is as many steps from its head as its rank says.
* `Once`: each key is in one slot; and `length` is the number of keys, so that
  `aloH_ensure` grows the table before the slots are used up.

The proof goes from the array up. `MovedIs`, `InsertedIs`, `DroppedIs` say what `movety`,
`addety` and `remety` make of each entry; `MovedLinks`, `InsertedLinks`, `DroppedLinks` where links
lead then; after that new ranks are given (`RankAt`, and one more for all behind an insertion),
so that chains are kept by `PlaceIs`, `RemoveOk` and `ResizeOk`. Each operation on tables has
a lemma with the pairs it leaves (`InsertTable`, `RemoveTable`, `UpdateTable`, `EnsuredOk`), from which
both the invariant and the refinement follow.

`SlotOf` and `Resize` are recursive functions, of the number of steps and of the slots of the old
array. Such a function is a `CHOOSE`, so `SearchExists` and `LayingExists` show that one
exists, by a least counterexample (the induction theorems of the library take an
operator). `SearchSound` and `KeysAreFound` are least counterexamples too, over steps and ranks.

Theorems: `Invariant`, `TypeCorrect`, `ChainsAreKept`, `AllAreFound`, `FreeIsKnown`,
`AllAreYielded`, and `ImplementsMap`: `SafeSpec => MapSpec`. These are all the properties of the
run `Table`.

### 5.5 `ListLibraryProofs`: elements on the stack, lists that are read and written

For every list, every comparator and all thresholds, from `CallsAssumption`,
`ExtraAssumption` and `ThresholdsAssumption`, about the lists that sort does not split into
runs (`Short`). `SortInv` says that the list has the elements it was given and that the call
on top and those that wait are right (`WorkOK`):

* `Waiting`: a range that waits, or a partition that is to begin, is inside the list as it was
  when sort was called; the list never gets shorter, whatever the comparator appends;
* `Inserting`: there are positions (`src`) the elements on the stack come from, each
  once; these and the positions still to be taken (`todo`) are the positions `back` that
  will be written; the search has its bounds in the stack;
* `Rising`, `Falling`: the scans of a partition are in its range, and the pivot, and the
  element found, on the stack are the ones still in the list.

`NothingLost` alone is not inductive, as the list is overwritten from the stack: what
`PutBack` writes is a rearrangement (`WrittenBackMoves`) because `src` and `back` are the
same positions, which needs that the five samples are different ones (`PivotInserting`).
A rearrangement keeps how often each value occurs (`MovedOccurrences`): a bijection
between two sets, with `FS_Bijection` and no induction.

`OrderInv` adds, for lists below `InsertThreshold` in their natural order, that the stack under
the top is ordered and the top not below what its search has passed (`Placing`), so that the
search keeps it in order where it ends.

`EachInv` is about `map`, `filter` and the folds, with any list and any function that appends to it:
the elements still to be read are in the list as they were at the call (`Unread`: behind
those read, when the result goes to the same list), and the result is the answer for as
many elements as have been read (`SoFar`). The answers are defined by `FoldLeft` and
`FoldRight` of the community modules, whose recursion goes over sets of positions and chooses
the last or the first. `FoldExists` shows that it has a solution, by a least counterexample over the
number of positions, and `FoldedLeft`, `FoldedRight` and `FoldedKept` turn it into a tower
(`Tower`): what is folded of k elements, for every k, from what is folded of k - 1.

Theorems: `NothingIsLost`, `ShortListsAreSorted` and `AnswersAreMeant`. The first holds also of
lists that are partitioned, where the second does not (section 4). The third supposes that
`foldr` is not called on one element (`NoFoldrOfOne`), as the run does, since it fails there.

### 5.6 `MatcherProofs`: labels of the past

For every subject, every table of classes without the end, and every code that is formed
(`ClassAssumption`, `SubjectAssumption`, `CodeAssumption`). That `Compile` makes formed code of
*every* pattern is not proved, it is recursive over trees; TLC evaluates it for
the patterns of `Text`, and section 4 names one that breaks it, a pattern with `\0`.

`IInv` says of a match in progress (`MatchOK`) that the place in the code, the position,
the counters and all labels (`Labels`) are inside, and of the calls around it that an attempt
begins inside the subject (`AttemptOK`). Two parts `StaysInside` does not mention make it
inductive: having gone back, the label last taken is still there above the top, since
`RE_REP` and `RE_REPY` read its counter after it was popped; and at `RET` the whole match has
`s` as its end, since only `END 0` leads there, from which `replace` and `split` go on. Theorem:
`MatcherStaysInside`.

### 5.7 `MachineProofs`: the interpreter trusts its code

`aloV_invoke` checks no operand. The theorems say what it may be trusted with: for every set
of prototypes that is sound (`SoundFunctions`: `SoundCode` of each, and each function made is
one of them), every stack size and limit of registers, every plain table of globals and every main function of the
set, from the assumptions on constants of `Instructions` and `Machine`.
`SoundFunctions` is not idle: `CodeSound` is the same formula, and TLC checks it of what
the compiler makes of each program of `Compile`. So the two together say that these
programs stay inside; the theorem alone says what a change of the compiler has to keep.

`IInv` speaks of a running machine:

* `FramesOK`: each frame lies above the one below it, inside the stack, its function is in the
  set and its `pc` in the code; and `Called`: the instruction before the `pc` of each
  frame but the last is the call or the iteration that made the next one, which wants the
  results that frame is to leave and has its register where that frame begins;
* `CellsOK`, `HeapOK`, `StackOK`: every value in a register, a capture, a table or a list
  refers to an object or a function that exists, and a function has as many captures as
  its prototype wants, each with a cell;
* `TopOK`: what the next instruction takes of an open number is between its register and `T->top`;
* `CapturesOK`: open captures are captured registers of live frames, one for each.

`StaysInFrame` is not inductive: a return goes on with the frame below, at an
instruction whose registers the returning function has never seen, and a call runs a function
found in a register, a capture or a list. So all frames and all values have to be right, not only the
running one; and that the last result ends where the caller's next instruction looks for
it needs the instruction that called. That extra arguments stay on the
stack (`NoOverrun`, `ExtraFits`) is no part of `IInv`: the code makes room from `T->top` only, and it is enough
because in sound code the top is the top of the frame where such an `LDV` begins. The
slots the stack has beyond its size for error handlers are not counted. TLC checked `IInv` on the states
of `Compile` before the proof. Theorems: `InterpreterStays` (`StaysInFrame`) and `CapturesStay`
(`CapturesInFrames`).

### 5.8 What is only model-checked

* Liveness: `StepReturns`, `EmergencyReturns`, `Halts`, `Ends`. The
  prover has no rule for fairness and `ENABLED`.
* What recursive definitions compute for every input: the compiler, the evaluator and the
  chunks, `Patterns` and `PatternMeaning` use `RECURSIVE` operators over trees. So
  `BehavesAsWritten`, `Accepted`, `CodeSound`, `LoadedAsSaved` and `TruncationRefused` are
  checked on the families of programs, `FirstWay` and `Returns` on all short subjects.
* Of `ListLibrary`: lists that sort splits into runs and merges, which can lose elements
  (section 4). What is true only under `Spec` and not `SafeSpec`.

## 6. What is not modelled

Besides the components of `PROJECT.json` without a module: in `AloGC`, weak tables,
prototypes and fixed objects, and collections nested in finalizers (these are
`GCFinalize`); `callfin` calls one finalizer a step there, its counter being in
`GCFinalize`. A thread that ended has status `dead` in `AloGC`; the code has
`ThreadStateYield` and tells by the empty frame stack. The memory debt that decides *when*
a step is taken is left out: steps may be taken at any allocation. In `SetMetatable` the object
leaves the list that is swept; that the sweep then goes on to the next living object, when it stood
at this one (`agc.c:831`, `sweeptolive`), is left out. `CaptureStore` stores to the capture of one
closure at a time, where the code stores to all that share it.

In `AloTable`, keys are compared by identity and have a constant hash: `__eq` and `__hash` metamethods, which
may change a table in the middle of a search (`atab.c:221`), are left out.

In 3.6 to 3.8: the scanner and the text of patterns (both start from trees), `match`, `if` with
`local` patterns (`aparse.c:1481`) and
the sugar of classes, metamethods and conversions inside instructions, yields inside an
instruction, hooks, long strings and numbers as bytes, formatting and packing, and the
functions of the libraries that are loops over one container without a call back. A word or a
set of a pattern is a sequence of items in the model: the text it is stored as, where a class takes two
characters and counts as two against the limit (`astrlib.c:544`), is not decoded again when it is matched, and what
goes wrong there is listed in section 4. `sort(nil)` with the nil written out has one slot more
on the stack than `sort()` (`alislib.c:533`), and is not called in the model.
`amodlib.c` is not modelled: what could go wrong there is in paths and files, besides
a module that is found in `__loaded` before it has run.
