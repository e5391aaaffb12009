# Verification of Jule

Jule is a compiled language. This repository holds its compiler
(`src/julec`, written in Jule), its standard library (`std`), whose package
`std/jule` is the compiler's front end, and the C++ headers every compiled
program includes (`api`), its runtime. The TLA+ modules here model the parts of
the three that keep state other code relies on, model-check them on small
instances, and prove what matters most for instances of every size. All
paths below are relative to the repository's root.

Contents: [Inventory](#inventory), [Modules and code](#modules-and-code),
[Runs](#runs), [Fairness](#fairness), [Proofs](#proofs),
[Deviations](#deviations), [Not modelled](#not-modelled), [Plan](#plan),
[Running it](#running-it).

## Inventory

### The runtime, `api/`

Everything here runs inside the compiled program, on any of its threads.

| component | state | operations | what makes it correct |
|---|---|---|---|
| `Ptr` (`ptr.hpp`) | `alloc`, and a shared atomic counter `ref` | make, copy, assign, destroy, with a recursive free | the counter is the number of pointers; freed once, when the last one goes; an assignment stores its right side |
| `Slice` (`slice.hpp`, `append` and `copy` in `builtin.hpp`) | a `Ptr` to the buffer, window start, length, capacity | alloc, copy, slicing, append, assign, assign nil, destroy | every window inside a live buffer; buffers counted, and freed when the last slice goes; `append` is concatenation |
| `Any`, `Trait` (`any.hpp`, `trait.hpp`) | a `Ptr` and a type | box, copy, assign, cast, compare, swap, call a method on a trait | as `Ptr`; the type describes the data; a value boxed as `any` never changes |
| `Map` (`map.hpp`) | a hash table | lookup, set, delete, clear, copy, compare, loops | a function from keys to values; a loop visits each key once |
| `Str`, runes, UTF-16 (`str.hpp`, `utf8.hpp`, `utf16.hpp`) | bytes | index, slice by copy and in place, convert, compare | the conversions undo each other; an index in range or a message |
| functions, `co`, deferred blocks, exceptionals, panics (`fn.hpp`, `defer.hpp`, `exceptional.hpp`, `panic.hpp`) | the stack of scopes | call, return, fail, defer, start a thread, panic | deferred blocks run once and in reverse; a caller takes the outcome of the call |
| environment (`env.hpp`) | none | conversions of what the system gives | |

Memory management is by reference counts that several threads change at once.
Slices release in two steps (`Slice::dealloc`, then the destructor of the `Ptr`
member) with a counter that is loaded first and decremented later. Assignment
releases the old value before it reads the new one. These are the places where
an order nobody tested matters.

### The standard library, `std/`

| component | state | operations | what makes it correct |
|---|---|---|---|
| `sync::WaitGroup` | the atomics `taskN`, `waitN` | `Add`, `Done`, `Wait` | `Wait` returns when all tasks are done, and not before |
| `sync::Once` | the atomic `done`, a mutex | `Do` | the action runs once, and has finished when any `Do` returns |
| `sync::Mutex`, `sync::atomic` | wrap `std::mutex`, atomics | lock, unlock; one access each | mutual exclusion |
| `thread::Thread` | a counted handle of a native `std::thread` | spawn, copy, `Wait`, `Detach`, `Active`, dispose | the native thread lives as long as it is denoted; its end never ends the process |
| containers (`internal::dynar`, `vec`, `queue`, `stack`) | heap, length, capacity | push, pop, insert, remove, slice, fit | each is its abstract sequence; no access outside the heap |
| `process::Cmd` | the child's pid | `Spawn`, `Wait`, `Kill` | one child per spawn; failures of the child reach the parent |
| `net`, `fs`, `sys`, `time`, `env`, `io` | handles | wrappers of system calls | no use of a closed handle |
| `conv`, `encoding`, `unicode`, `strings`, `bytes`, `maps`, `slices`, `math`, `flag` | none | pure functions | the function they document |

### The compiler, `src/julec` and `std/jule`

The compiler is one thread that passes a package through stages: flags, lexer,
parser, importer, type checker (`sema`), optimiser, ordering of definitions,
C++ generation, the C++ compiler. It stops at the first stage that reports
errors.

| component | state | operations | what makes it correct |
|---|---|---|---|
| type checker: cycles | `Struct.Depends`, `TypeAlias.Refers`, the recursion of checks, instances and kinds already built | a depth-first walk over declarations | every recorded relation is without a cycle; only packages with a cycle are rejected; it ends |
| ordering (`obj/order.jule`) | the list of definitions | exchange sort by dependency | dependencies come first |
| dead definitions (`opt/deadcode/define.jule`) | the table of live definitions, the lists of traits | mark from entry points, sweep file by file | everything referenced from a live definition stays, nothing else does |
| appends and loops (`opt/scope.jule`, `obj/cxx/scope.jule`) | statement lists | rewriting | same behaviour |
| dead statements, other expressions | statement lists | rewriting | same behaviour |
| importer | registered packages, the current module path | import a package and what it uses | a package is read once; import cycles are reported |
| lexer, parser, generator | position, trees, text | sequential | outputs a tree, C++ text |
| driver (`compile.jule`) | flags, files | the pipeline | stops on error, leaves no half-done output |

The checker and the walk of the optimiser are sequential, but their order of
work is that of the references in the program: each step sees only what was
recorded before it. A cycle must be found from whichever reference closes it,
and a definition must be kept whichever reference comes first.

### How they interact

Generated code calls `Ptr` and `Slice` for every reference and slice value;
boxes (`Any`, `Trait`) are built on `Ptr`; `Thread`, `Mutex` and `Once` keep
their native objects behind `Ptr` handles; WaitGroup and Once are built on the
atomics and share their fields through `&` references passed to `co` calls.
The front end gives the driver an IR; the optimiser removes definitions from it
and rewrites statements; the ordering sorts what is left; the generator prints
it in that order, with the calls of the runtime that Calls, Items and Maps model.

## Modules and code

Comments in a module name what a definition stands for; `map` in
`PROJECT.json` gives the lines.

### Threads of the program

- **WaitGroup** models `std/sync/waitgroup.jule` together with its client: a
  main thread that adds and starts tasks, tasks that call `Done`, threads that
  `Wait`, and *strays*, threads that call `Done` without an `Add`. Each atomic
  access is an action. `AddFetch` is the `fetch_add` up to the next access (with
  the panic and the early return), `ClearLoad` and `ClearCas` are the clearing
  loop, `WaitLoad`, `WaitRegister`, `WaitSpin` are `Wait`. `BatchAdd` chooses
  between the two usages of the repository: one `Add(n)` before the tasks start
  (the header's words), or `Add(1)` before each (`tests/concurrency`).
  **JoinSpec** is what it promises: calls of `Done` take effect one by one, and
  waiters leave when there have been enough.
- **Once** models `std/sync/once.jule`: the relaxed load (`FastPath`, `SlowPath`),
  the mutex, the second check, the call of `f`, the store, the unlock; an `f` may
  call `Do` again (`Reentrant`). **OnceSpec** is the promise: at most one action,
  finished before any `Do` returns. `holder` is the `std::mutex` that
  `std/sync/mutex.jule` wraps, an external part modelled from that use.
- **ThreadHandle** models `std/thread/thread.jule` and `thread.hpp`: callers
  spawn, copy, assign, `Wait`, `Detach` and dispose `Thread` values. `native` is
  the state of the `std::thread` object (external; joining, detaching and
  destroying it as C++ defines them: destroying a joinable one terminates the
  process, and what is done through a deleted one is undefined, `Dangling`). The
  `drop()` that ends each call is `Ptr::dealloc` access by access: the test of the
  pointer (`Drop`), the `fetch_sub` (`Subtract`), and the clearing (`Forget`) or
  `__free` (`Delete`), each of which may find the pointer that the call has tested or
  null. Overlapping calls on one native thread are recorded in `raced`, those on
  one value in `clashed`. A value is copied or assigned only while no call is under
  way on it; `SelfWaits` lets a routine wait for its own thread.
- **Calls** models what a call meets on its way back, in the C++ that
  `obj/cxx/scope.jule` and `expr.jule` generate with `defer.hpp`,
  `exceptional.hpp`, `fn.hpp`, `misc.hpp` and `panic.hpp`. A thread is a stack of
  frames (functions, blocks, deferred blocks while they run); leaving a frame
  runs its deferred blocks, each of which may call and defer in turn.
  A `ret` with an expression assigns the named result before it returns it
  (`setResult`). `seen` is what the last caller took, against what it should have taken.

### Memory

- **RefPtr** models `api/ptr.hpp`: variables of several threads and the pointer
  field in every cell are *slots*. `Assign` is the self-assignment test and the
  `fetch_sub`; `Free` is `__free` with the recursion into the cell's own pointer;
  `Finish` is `__get_copy`, which reads its source only now. Programs are
  race-free on their own data: a field is assigned only by a thread to which no
  other thread's variables lead (`Exclusive`), variables belong to one thread.
  Counters are still changed by all threads at once, through `Copy` and `Assign`
  of shared cells.
- **Slice** models the ownership of `api/slice.hpp` and `append`: a handle keeps
  `ref` and `alloc` of its `Ptr` apart because `Slice::dealloc` clears only one of
  them. `Dealloc` is the load of the counter and what follows; `AssignFinish` and
  `LeaveFinish` are the second step, the drop of the counted reference.
- **Items** models what slices and arrays hold: slicing, `append` in place and
  with a new buffer, `copy`, `clone`, `push`, conversions of arrays, and the
  statement that the optimiser puts in the place of an append. Each operation is
  a function from one memory to the next, so that a property can ask of every
  reachable memory what any further operation would do. `Kinds` of items: trivial
  ones (which `std::copy` moves as bytes), classes (one after the other, smearing
  overlaps), maps (which `std::move` empties) and boxes (which become nil when one
  is assigned to itself, `EachToItself`). `PushedTo` is that statement of the
  optimiser as `pushToSlice` writes it: `PushStart` grows the slice, then each
  `PushExpr` evaluates its expression in the memory it finds. An expression is a
  value, an item of a slice, or one that tells whether a slice is empty; it has
  no effects.
- **Boxes** models `any.hpp` and `trait.hpp` on top of the pointer operations of
  `ptr.hpp`: boxing a value or a pointer, both casts, assignment with its release
  first, comparison through the fields, `std::swap`, and the end of a variable.
  `SetField` and `GetField` through a trait are its methods, which the wrappers that the
  generator writes (`object.jule:906`) call on the boxed object itself.
  Objects hold boxes themselves, so that there are cycles.
- **Maps** models `api/map.hpp` with `clone` and `maps::Equal`, and the loop that
  is generated for `for k, v in m`, over a copy or, with `--opt-copy`, over the map
  itself. A table is a sequence of entries, the order of its iterators; a new
  entry may come anywhere (external: the hash table of the C++ library). `NaN`
  stands for keys that are not equal to themselves.

### Text

- **Runes** has the conversions between runes, UTF-8 and UTF-16 as operators, with
  the tables and bit operations of `utf8.hpp` and `utf16.hpp` in arithmetic.
- **Text** is a value of a program that is a string, a slice of runes or a slice
  of units, edited and converted from one to the other (`str.hpp`), with the
  panics of an index out of range and the printing of that index (`error.hpp`).

### The compiler

- **TypeOrder** models the checking of structures and type aliases for cycles
  (`std/jule/sema/type.jule`, `sema.jule`) followed by the ordering of what is left
  (`src/julec/obj/ir.jule`, `order.jule`). What a declaration refers to is chosen
  when the walk reaches it, so that one run covers every package of the size.
  `Refer` is a reference that counts for cycles, with `checkIllegalCycles` (its
  recursion `checkCrossCycle` is `Reaches`) and the descent into the declaration;
  `Mention` is one under a pointer, slice or array, which only descends. The
  ordering starts from any non-empty set of structures, since dead code removal
  need not leave a closed one (DeadDefines, `SweepSound`).
- **DeadDefines** models `opt/deadcode/define.jule`. `setReferencesAsLive` is
  recursive: its `agenda` is what is left to do, in order. `MarkOwner` is the
  detour of a method to its structure, which is then marked without its other
  methods (`byMethod` remembers these); `RemoveDeadsFile` sweeps one file,
  functions and structures before traits. What a definition refers to is chosen
  when the walk reads it.

`MC_` modules give values to constants that a configuration cannot write and
add symmetry sets for TLC, only in runs that check safety.

Definitions named in a comment as *Wrong* are variants of the definition below
them, each with a plausible mistake. No specification uses them; they serve
to see that a property notices the mistake (`mutants` in `PROJECT.json`).

## Runs

"States" are distinct states. Each run has to end without an error.

| run | instance | states | shows |
|---|---|---|---|
| `waitgroup_batch` | 3 tasks, 3 waiters, 1 stray, counters modulo 8 | 4,554 | no `Wait` returns before enough `Done` calls (`NoEarlyReturn`); `Add` panics exactly on one `Done` too many (`PanicExact`); WaitGroup implements JoinSpec (`JoinSpecHolds`); the clearing loop ends, and waiters that spin in time are released (`CallsReturn`) |
| `once_calls` | 3 threads, 1 of them reentrant | 287 | Once implements OnceSpec (`OnceSpecHolds`); every `Do` returns unless `f` calls `Do` (`DoReturns`); then nothing moves again (`ReentryDeadlocks`) |
| `thread_calls` | 3 callers, 3 values, 2 native threads, counters modulo 4 | 708,177 | until two calls overlap on one value, the counter is exact and the native object lives exactly as long as a value counts on it (`CountExact`); without overlapping calls the process is never terminated and a joined thread has ended (`UsedInTurn`) |
| `calls_unwinding` | 2 threads of up to 3 and 2 frames, 2 deferred blocks | 1.35 million | deferred blocks run once (`DeferredOnce`) and in reverse (`RunsInReverse`), whichever way scopes are left; which result a caller takes (`OutcomeTaken`) |
| `refptr_sharing` | 2 threads of 2 variables, 3 cells | 14,001 | exact counters (`CountExact`), nothing dangles or is freed twice (`NoDangling`), everything unreachable and acyclic is freed (`Reclaimed`), assignments store their source (`AssignTakesSource`) |
| `slice_sharing` | 2 threads of 2 variables, 2 buffers, lengths to 2 | 1.33 million | exact counters, no dangling buffer, windows inside buffers (`WindowInBuffer`), which buffers are freed with their last reference (`FreedWithLast`) |
| `items_windows` | 2 slices of up to 2 items, buffers of up to 4, an array of 1, four kinds of items | 81,470 | windows are sound and show initialised items (`WindowsSound`); `append` is concatenation and spares other slices (`Appends`), `copy` and `clone` store their source (`Copies`), with their exceptions; the optimiser's push of one or two items is the append when it assigns the slice appended to and no item is evaluated late, and never with another target (`PushIsAppend`) |
| `boxes_sharing` | 2 pointers, 2 `any`, 1 trait value, 3 objects | 41,324 | boxes count, point to what they say, leak nothing (`MemorySafe`); assignments and swaps (`AssignsAndSwaps`); comparison is an equivalence that ends on cycles (`EqAgrees`); a value boxed as `any` never changes, while methods of traits change what those box (`ValuesFrozen`) |
| `maps_loops` | maps of up to 3 and 1 entries, 2 keys and NaN | 49,273 | lookups and comparison agree with the function that a table stands for (`ReadsAgree`), every operation changes that function as it says (`AsFunctions`), loops visit what they should (`LoopsVisit`) |
| `text_forms` | 21 runes, 17 bytes, 10 units at the ends of every range; 3 bytes and a rune, 2 runes, 3 units | 153,823 | the forms of a text agree, and an index is checked, cut at and printed right (`FormsAgree`); order and equality of strings (`OrderAgrees`), each with the losses of the code |
| `types_package` | 3 structures, 1 alias | 49,083 | recorded references are acyclic (`DependsAcyclic`), rejected packages have a cycle (`RejectsOnlyCycles`), what the order is in general and that it is right on shallow dependencies (`Ordered`), termination (`Ends`) |
| `dead_defines` | 2 structures, 1 trait, 7 functions, 1 variable, 2 files | 216,957 | what is marked is the least closed set (`MarkExact`), what the sweep leaves (`SweepSound`), marking ends on cyclic references (`Terminates`) |

Why the bounds are enough to meet the interesting cases:

- *WaitGroup*: one task finishes last, one is between its `fetch_add` and its
  return, one has not started; a waiter is in each of its three steps at the same
  time. `Modulus` stands for 2^32. It must exceed the numbers of tasks and waiters,
  and 8 lets the counter of tasks wrap when a stray makes it negative.
- *Once*: one thread inside, one waiting for the mutex, one on the fast path.
- *ThreadHandle*: three values of one native thread, and a third caller that
  interferes with the overlap of two. `Wrap` stands for 2^64; it must exceed the number
  of values, and lets a counter that is decremented twice wrap.
- *Calls*: three frames are a function, a block in it and a deferred block or a
  call in that; one deferred block assigns the named result, one does not; the
  second thread shows what main's end leaves undone.
- *RefPtr*: three cells make chains of two frees and cycles of two; two variables
  per thread let a thread keep one reference while it drops the other.
- *Slice*: two buffers tell "same buffer" from "another buffer", `MaxLen` = 2 gives
  proper windows, an append in place and one that reallocates (a capacity of 4).
  Buffers are used once, so that a leaked or freed one stays visible.
- *Items*: lengths to two and a capacity of four give overlapping windows, appends
  with and without spare capacity, and growth of a slice that is not empty. Two
  pushed items are one that is evaluated after the other; a longer list has no
  other kind of pair. The properties look one operation ahead, to items beyond these
  lengths.
- *Boxes*: three objects make a chain and cycles; an object with a list field by
  value is what comparison crashes on.
- *Maps*: three entries leave a loop something before, at and behind its iterator;
  a second entry for NaN beside a key proper.
- *Text*: every comparison in the code has a value on each side of it.
- *TypeOrder*: cycles of length one, two and three, through an alias or not; every
  subset of three structures is sorted.
- *DeadDefines*: a trait implemented in its own file and in a later one, a structure
  with a second method, a static one, calls and types in cycles, and a definition
  that can be met first through every kind of reference.

`CHECK_DEADLOCK FALSE` is set in every run because each program may end: all
threads returned, the process panicked or was terminated, the compiler is done,
or the finite supply of cells, buffers and native threads is used up.

Some properties deserve a remark:

- `NoEarlyReturn` counts the `Done` calls that took effect, strays included,
  because a stray `Done` is indistinguishable from that of a task.
- `CallsReturn` has the part of "`Wait` returns" that the code keeps; the rest
  is refuted (see [Deviations](#deviations)).
- `AssignTakesSource` holds in `refptr_sharing`, where no assignment has a source
  inside the object that its destination holds.
- `OrderedAs` says what `orderCommon` computes on every list: structures without
  dependencies in the list first, then the others in reverse. `ShallowOrdered`
  is when that is the documented order, `DependenciesFirst` the documented order.
- `FormsAgree`, `Appends`, `Copies`, `LoopsVisit` and `AssignsAndSwaps` state what the
  operation promises, with the inputs on which the code departs from it spelled
  out: they fail if the code were better, too, so that the exceptions stay exact.
- `Closed` in DeadDefines leaves out the methods of structures in `byMethod`: that is
  the rule of the code. `SweepSound` says what follows for a trait's calls.
- `FVisible` of Once (what `f` wrote is visible after `Do`) does not hold under the
  relaxed load of the fast path; no document promises it in so many words, so no
  run checks it.

## Fairness

- *WaitGroup*: weak fairness of each thread's next step. The operating system
  schedules the threads of a live process; tasks end, since without that no
  `Wait` could return. Strays need not call `Done`, and finish `Add` once they did.
- *Once*: weak fairness of each thread inside `Do`; nobody is forced to call it.
  `Lock` is enabled only while the mutex is free. Weak fairness is enough because
  the first unlock follows the store of the flag: nobody new queues up.
- *TypeOrder*, *DeadDefines*: weak fairness of the compiler's next step; it is one
  thread that does nothing else.
- The others are checked for safety only. Their programs may stop where they like.

## Proofs

Proved with TLAPS (SMT, Zenon, LS4) for every value of the constants that
satisfies the assumptions of the module.

**SyncProofs**, WaitGroup (finite sets of tasks, waiters and strays, tasks and waiters
fewer than the modulus). The invariant says: the count `taskN` and the calls of
`Done` that took effect add up to the tasks added, until the process panicked, and
then there were more calls than tasks (`Counted`), which is `PanicExactHolds` for any
clients; `waitN` is at most the number of registered waiters, which is why it
never wraps. With batch adding (`Usage`, the one assumption of the next two
theorems), whoever clears, has been cleared or has returned is proof that as many
calls of `Done` took effect as there are tasks (`ClearedIsDone`). This needs the
count: only the `Done` that reached zero enters the loop, and after a single `Add`
zero is final, which is what the incremental usage lacks. Theorems:
`WaitGroupInvariance`, `PanicExactHolds`, `NoEarlyReturnHolds`, and
`WaitGroupImplements`, the refinement of JoinSpec. Strays are allowed in all of them.

**SyncProofs**, Once (any set of threads, any reentrant ones): the holder of the mutex
is exactly the thread between its lock and its unlock, each place in `Do` determines
the state of the action (`Knows`), the flag implies that the action has finished,
and a free mutex with the flag unset that it has not begun. Theorems:
`OnceTypeCorrect`, `OnceImplements` (OnceSpec), `ReentryDeadlocksHolds`.

**RefPtrProofs** (any finite sets of threads, variables, cells; any shape of the
heap, cycles included): `CountExact` and `NoDangling` are inductive together with
`PendOK` (an assignment under way owns its destination, which is empty) and
`UnusedOK`. The lemmas `ClearSlot` and `SetSlot` say how the set of pointers to a
cell changes with one slot; `LastOwner` and `NoOwner` turn counts into
sets. `TargetFree` shows from `Exclusive` that two assignments never have
the same destination. Two further invariants rest on it. `SInv`, under
`SelfAdvance = FALSE`: the source of a running assignment still denotes what it did
(`Settled`), and no other thread reaches the field that is assigned (`Private`); what
a thread reaches is defined as the least closed set, so that a step keeps a cell out
of reach by keeping some closed set without it. `LInv`, for every program: a live
cell without a pointer is about to be freed by some thread (`NoLeak`). Once nothing
runs, each unreachable cell therefore has a pointer from another one; on those
that a given cell `c` does not lead to, choosing such a predecessor is an
injection of a finite set into itself, hence onto, and the preimage of `c` shows that
`c` was on a cycle (`LostIsCyclic`). Theorems: `Invariance`, `CountExactHolds`,
`NoDanglingHolds`, `AssignTakesSourceHolds`, `ReclaimedHolds`.

**SliceProofs** (any finite sets of threads, variables and buffers, any bound on
lengths). `IInv` is `TypeOK`, `CountExact`, `AllSound`, `GoneOK` and `PendOK`. `Sound` is
the shape of one slice value: nil, or a window inside a live buffer that it
counts, or what `x = nil` leaves, a counted reference without a buffer. `GoneOK`: a
buffer that is not live has no counter. `PendOK`: between the two steps of a
release, its slice points to no buffer and belongs to the releasing thread. That is what the split of `ref` and `alloc` is about: the
first step may free the buffer because it read a counter of one, and no other
slice can have come to point to it since. Theorems: `Invariance`,
`CountExactHolds`, `NoDanglingHolds`, `WindowInBufferHolds`, `FreedWithLastHolds`.

**ContainerProofs**, Items (any number of slices, any values, items, lengths and capacities).
Properties of Items ask of every reachable memory what any operation would do next,
so most of the proof is one lemma for each operation on any good memory. `Good`:
every slice is nil or a window of initialised items of its buffer (`Fits`), and only
maps and boxes are emptied (`Clean`). Fills and copies in loops are characterised without their
recursion (`FilledIs`, `StdCopyIs`: what each item is afterwards, with the smearing of
overlaps), by a least item at which the loop would differ. A new buffer is there
because there are more buffers than slices (the pigeonhole principle). `Extended`,
`Lengthened` and `Pushed` say what the steps of an append leave, for one in place and
one that reallocates alike. A push and the append that it replaces both satisfy
`Pushed`, with the items that each of them has evaluated; two memories that do so with
the same items look alike. That the items are the same is `SameReadIs`: what a push has
changed when it comes to its last expression is the length of the slice, the item behind
its end and, where maps have moved, what the old buffer held, and an expression that
reads none of these is not `Late`. Theorems:
`ItemsInvariance`, `WindowsSoundHolds`, `AppendsHolds`, `CopiesHolds`, `PushIsAppendHolds`.

**ContainerProofs**, Maps (any maps, keys, values and sizes). A table with at most one entry
for a key that equals itself (`Unique`) stands for exactly one function (`Stands`), which
`Content` picks. What adding, removing, revaluing and relinking entries does to that
function is proved of tables alone; each operation is one of these, and together
that is `AsFunctions`. `maps::Equal` looks one way only: that the keys of the other map are
all found too is the pigeonhole principle on the places of the keys (`NoMoreKeys`), and
fails with NaN. For loops the invariant has a tally for each key (`Tallied`): the
entries the iterator has passed are no more than the visits, and the visits with the
entries ahead no more than there were at the beginning. Freeing an entry maps the
places that are left into the old ones without collision (`Shift`), so that neither
grows; at the end nothing is ahead. An entry that is added ends the tally, which is why
`LoopVisits` excludes it. Theorems: `MapsInvariance`, `AsFunctionsHolds`, `ReadsAgreeHolds`,
`LoopsVisitHolds`.

**BoxesProofs** (any finite numbers of variables and cells, any shape of the heap).
Every theorem has the hypothesis `SwapSame = FALSE`, that the program does not swap two
equal pointers: one that does loses a share, and `MemorySafe` is false of it
([Deviations](#deviations), 6). The
invariant (`Good`) has two parts. `Sound`: every cell is counted by the slots that hold it,
and a deleted cell holds nothing. `Shape` has two ghosts, chosen anew after each
statement: `val` says which cells were made for an `any` that holds its value, and `rank`
how many cells were made before each. No pointer and no trait leads to a cell of `val`,
the type of an `any` says whether it does, and a value boxed as `any` holds only such
values of smaller rank.

Release and comparison are recursive functions, proved by induction on the number of
their steps (`UpTo`, which follows from the well-founded order of finite sets). Each
step of `Release` leaves a heap that is sound but for one slot, the one that is due;
it deletes a cell or is the last, so that as many steps as there are cells are enough
(`PartStep`). What it leaves is said without its recursion (`Settles`): every slot is
as it was, but for the fields of cells that were deleted on the way. An assignment then is
one write (`Writes`), whatever it released, and every statement is built of such writes:
`WriteKeeps` says that one keeps the invariant unless it is into a value boxed as `any`, and each
statement shows that it is not, `SetFieldStep` because it goes through a pointer or a
trait. That is
`ValuesFrozen`. `Reclaimed` is `LostIsCyclic`: of the live cells that no
variable leads to, leave out what a cell `c` leads to; each of the others is held by
another of them, and following the holders permutes a finite set, so that `c`, were it
one of them, would hold one of them. `AnyEq` compares pairs: two different values
lead to values of smaller rank, so that it ends, on cycles too (which need a pointer,
where it stops), and what it answers at a level is an equivalence if it is one below
(`LevelAgrees`). Theorems: `Invariance`, `MemorySafeHolds`, `AssignsAndSwapsHolds`,
`EqAgreesHolds`, `ValuesFrozenHolds`.

**RuntimeProofs**, Calls (any finite sets of threads and deferred blocks, any depth of at least
one frame). Every deferred block that a thread has met waits in exactly one place of
its stack or has run, not both (`WaitOK`, `KeptOK`); along the stack and within one
frame, what waits is in the order in which it was met. A frame that is being left
remembers what its result was when it was set, and what deferred blocks can have
made of it since (`FrameOK`). `RunDeferred` takes the last of the innermost frame, hence
the last that the thread met and that still waits: that is `RunsInReverse`. Theorems: `Invariance`, `DeferredOnceHolds`,
`RunsInReverseHolds`, `OutcomeTakenHolds`.

**RuntimeProofs**, Text (any runes, bytes, units and indexes, texts of any length). What is
proved is mostly about the conversions and not about steps: the invariant is `TextOK`
with `PanicOK` (every part of a message is an index and its text), and both properties
follow from it for whatever value the program holds. The recursive functions of the
model exist and are what they say by `RecursionExists`, which needs no more than a
rank that falls with each call; `Backwards` and `UpTo` are the inductions. `DecodeIs` says
what the decoder does at a position without its tables: a rune of one, two, three or
four bytes, or an error of one byte, each by the arithmetic of its bytes; `PushIs` says
which bytes are written for each range of runes.

- *Order.* Where both strings are well formed, the first byte that differs lies in a
  rune of each; that the greater byte belongs to the greater rune is `WindowOrder`, one
  case for each two widths, and `ByteOrder` carries it along the common prefix.
- *There and back.* What is read at a position looks only at the bytes behind it
  (`Behind`) and at no more of them than its width (`SameView`), so that the runes of a
  string put together of the encodings of some runes are what each of them is read as
  (`PushReads`, `AllRead`); `PushBack` is the same from bytes to runes and back. A cut
  keeps every boundary because bytes inside a rune are no first bytes (`MiddleIsNone`).
- *UTF-16* is alike (`PairIs`, `UnitsBehind`, `ReadUnitsOf`); the bit that the `|` of
  `utf16_decode_rune` loses is `LostIs`. That the array of `utf16_encode` is long enough,
  by counting the runes above `SURR_SELF`, is `RoomSuffices`.
- *Messages.* `NumberGrows`: a digit at the end of a number is ten times the number and
  the digit.

Theorems: `TextTyped`, `OrderAgreesHolds`, `FormsAgreeHolds`.

**ThreadHandleProofs** (any finite sets of callers, values and native threads). The
invariant has two parts. `CInv` (types, what a caller's step says of its
operands, exact counters, native objects live as long as a value counts on them) holds
until two calls overlap on one value, whatever else overlaps: a value whose reference
its call has given up but not yet cleared is counted by the step of that call
(`Leaving`), and is one call's alone. `SafeInv` holds while calls have not overlapped and
no active thread is overwritten or waited for by its own routine (`Orderly`): at most one call uses a native thread
(`Alone`), and it still finds what it tested (`Found`), so that no join comes late and
no joinable thread is deleted. Theorems: `Invariance`, `CountExactHolds`,
`UsedInTurnHolds`.

**CompilerProofs**, TypeOrder (any number of structures, any aliases, any references).
Reachability is defined by closed sets, so that no recursion is involved.
`PassedIsAcyclic`: a reference `o -> d` with `o` not reachable from `d` keeps an
acyclic relation acyclic; given a set `S` through `d`, the set closed under
references that separates `d` from `o` cuts out of `S` a part whose minimal element
is minimal in `S`. `ReportedIsCycle`: otherwise the declarations between `d`
and `o` are a set in which everything refers to another. The
invariant adds that the stack is well formed and that recorded references are
references of the package. The two loops of `orderCommon` have their own part,
`OInv`: the list is always a permutation of what was to be sorted; what lies behind
position `n + 1` has its place (`TailOK`); the rest is as it was declared but for the
structure that is being carried (`HeadOK`), which is the first of those with
dependencies (`CarryOK`). When the loops end nothing is carried (`DoneOK`), so that
the list is the one that `OrderedAs` describes. Theorems: `Invariance`,
`DependsAcyclicHolds`, `RejectsOnlyCyclesHolds`, `OrderedHolds`.

**CompilerProofs**, DeadDefines (every program: any definitions, methods, files and references).
A marking is right only when it is over; what holds on the way is that the
definitions that are live or still on the agenda (`Have`) are enough and not too
many. `Pending`: what a live definition needs is in `Have`. `Needed`: `Have` lies in every
closed set. `Marked`: what is marked without a look at its receiver has a live one
or none. `Unread`: only live definitions have been read, so that reading one
later cannot break a set that is closed. `PushKeeps` proves the step of `pushLive`
once for all kinds of definitions; each action supplies what comes after it. For the
sweep, `SweepOrdered` (nothing is removed while something is listed), `FilesLeft` (what
the files swept so far have lost) and `ListsLeft` (a trait's list keeps what is left, and
what it keeps too much of lies in later files). With an empty agenda, `Pending` and
`Needed` are the two halves of `MarkExact`. Theorems: `DeadInvariance`, `DeadTypeCorrect`,
`MarkExactHolds`, `SweepSoundHolds`.

Every invariant of a run, and every action property and refinement but liveness, is a
theorem. Only model-checked is liveness (`CallsReturn`, `DoReturns`, `Ends`,
`Terminates`), which the prover does not do. TLC and the proofs use the same
definitions: recursion in a module with proofs is by functions.

## Deviations

What the models show of the code that a reader of it might not expect. Where a
configuration is named, TLC prints the execution.

Concurrent programs:

1. *An early `Wait`* (`WaitGroup_early_return.cfg`). `Wait` "blocks until all tasks are
   done (task count becomes zero)" (`waitgroup.jule:59`). With `Add(1)` before each
   `co`, as `tests/concurrency/main.jule:20` does it, a `Done` that brought the count to
   zero and is still in its clearing loop (`:44`) clears a registration that came
   after the next `Add`.
2. *A lost wake-up* (`WaitGroup_lost_wakeup.cfg`). `Wait` reads `taskN` (`:68`), the last
   `Done` finds no waiter to clear, `Wait` registers and spins for ever.
3. *A terminated process* (`ThreadHandle_overwrite.cfg`). Assigning over the only value
   of an active thread destroys a joinable `std::thread` (`thread.hpp:29`); "it
   automatically detaches when destroyed" covers the destructor only. A routine that
   waits for its own thread ends the process too, since `join` throws (`SelfWaits`).
4. *Two calls on one Thread*. `Wait` and `Detach` end with `Ptr::dealloc` (`thread.hpp:22`),
   which tests the pointer, subtracts and clears it in separate accesses (`ptr.hpp:178`,
   `:184`, `:186`). Two calls on one value that both pass the test subtract twice, and
   the native thread is freed while another value denotes it: `CountExact` speaks of
   programs until two calls overlap on one value (`clashed`).

Memory:

5. *A source that is gone* (`RefPtr_self_advance.cfg`). In `x = x.next`, with `x` the only
   owner, `operator=` frees the object before it copies from inside it
   (`ptr.hpp:306`).
6. *A swap that loses a share* (`Boxes_swap.cfg`). `std::swap` of two pointers to one
   object moves the share out and assigns it back with an assignment that does
   nothing, because the addresses are equal (`slice.hpp:356` swaps so): the counter is
   one too small, and the object is freed under a pointer.
7. *A leak* (`Slice_leak.cfg`). `x = nil` on a shared slice forgets the buffer and keeps
   the counted reference (`slice.hpp:157`); if that is the last to go, the buffer is
   never freed.
8. *Self-assignment* of an `Any` or a `Trait`, also of one field through two pointers,
   gives nil (`any.hpp:156`, `trait.hpp:210`): the exception in `AssignStoresSource`.
   `std::copy` does that to every item when it copies to where the items are, as in
   `copy(s, s)` and `append(s[:0], s...)` of `[]any` (`builtin.hpp:91`, `:108`): the
   exceptions in `Copies` and `Appends`.
9. *Values that traits share*. Copies of a trait that boxes a structure by value share
   one object, and its methods are called on that object (`object.jule:941`,
   `trait.hpp:130`): what a `mut self` method writes, every copy shows. `ValuesFrozen`
   is about values boxed as `any`, which have no methods.
10. *Overlaps*. `append` in place and `copy` to a later part of the same buffer smear
    items that are not trivial (`builtin.hpp:91`, `:105`); `insertAsNext` of the parser
    (`scope.jule:201`) does that to a list of statements with spare capacity.
11. *Emptied maps*. An `append` that grows moves the maps out of a buffer that other
    slices still share (`builtin.hpp:73`); `append(x, x...)` gives empty maps.
12. *Small ones*: `slices::clone(nil)` is not nil; slicing an array to nothing is nil.

The compiler's output:

13. *A push to the wrong slice*. The optimiser turns `x = append(y, v)` into a push to
    `y` whatever `x` is (`opt/scope.jule:374`).
14. *Items evaluated late*. The items of that push are evaluated one by one after `y`
    has grown and those before them are pushed (`expr.jule:1157`): with spare capacity
    or without, `x = append(x, a, len(x))` stores the new length and not the old, and
    `x = append(x, y[0])` of maps stores an empty one when `y` shares the buffer that `x`
    outgrows. `Late` is the exact condition.
15. *Loops over the live map*. With `--opt-copy` a loop walks the map itself
    (`obj/cxx/scope.jule:76`; slices `:138`): its body can free the entry that the
    iterator is at.
16. *An error that is nil*. `error(e)` with a nil pointer looks like success to the
    caller (`expr.jule:1074`, `exceptional.hpp:22`).
17. *Chains out of order* (`TypeOrder_chain.cfg`). The exchange sort looks whether a
    structure has dependencies in the list, not where they are (`order.jule:37`), and
    reverses chains.
18. *Methods that are gone*. A structure first met through one of its methods keeps
    only the methods that are referred to (`define.jule:103`): the wrappers that the
    generator writes for its traits (`object.jule:928`) may call others. A structure
    kept for a static method loses the types of its fields (`define.jule:222`). A
    trait's list may name structures that a later file loses (`:247`).
19. *A cycle that passes*. A structure that refers to an alias records nothing
    (`type.jule:807`): with an alias `A` of `S1`, `S1` holding an `S2`, `S2` a pointer to
    `S3` and then an `S3`, and `S3` an `A`, nothing is reported. Nor does a field that is
    an array by value record anything (`type.jule:1257`), so that `struct S { a: [2]S }`
    passes. `DependsAcyclic` therefore speaks of the recorded references.

Values:

20. *Reading adds a key*, also through a map that is immutable (`map.hpp:155`).
    NaN keys are added and never found (`:118`). All keys that are not strings hash
    alike (`str.hpp:413`).
21. *Text*: U+07FF is written in three bytes that the decoder rejects, and so is what
    stands for numbers above U+10FFFF (`utf8.hpp:401`); a surrogate pair of every
    second plane from the third on is joined wrongly (`utf16.hpp:49`); a panic at
    index zero prints no digit (`error.hpp:36`).

The configurations named here are not among the runs of `PROJECT.json`, which all
pass; the passing runs have these deviations as exact exceptions of their
properties or as constants (`NilAssign`, `SelfAdvance`, `SwapSame`,
`OverwritesActive`, `SelfWaits`, `BatchAdd`).

## Not modelled

- *Memory order*: accesses are sequentially consistent. The code asks for relaxed
  order in most places (`ptr.hpp:142` too, so that freeing is not ordered after the
  last writes of other owners), so every behaviour of the models is one of the
  code, and the deviations are real; what holds here holds for the interleavings.
  Once keeps track of what relaxed order leaves unordered (`seesF`).
- *Uncounted pointers* and compilation without reference counting (`--disable-rc`):
  nothing is counted there.
- *Initialisers of global variables* are ordered by direct references only
  (`eval.jule:612`); they are checked by a copy of TypeOrder's algorithm.
- *Generics*, in TypeOrder and DeadDefines: a definition has one instance. An alias of
  TypeOrder refers to one declaration; one of a function, a tuple or a map can refer to
  several. Packages linked from C++; test compilation without a `main`, which reads the instances of
  nil (`define.jule:175`).
- *Conversions of numbers, tables, numeric code, wrappers of system calls*: they keep
  no state of their own, or the system's.
- *Lexer, parser, the text of generated code*: sequential, text in and text out.
- *Containers* (`dynar.hpp:36`, `vec.jule:176`), *processes* (`cmd_unix.jule:94` and `:100`: a child
  whose environment cannot be set returns the error to its own copy of the caller), *sockets* (`tcp_conn.jule:44`),
  the *importer* and the *driver* have hazards of their own; none is covered yet.

Every component and its status is in `PROJECT.json`, and under `hazards` what in
the modelled code is hard to test, with the line where it bites and the properties
that cover it.

## Plan

Done: WaitGroup, Once, RefPtr, Slice, ThreadHandle, TypeOrder; then Text, Boxes, Items,
Calls, Maps, DeadDefines.

Next, modules:

1. *Containers*: Dynar with Vec, Queue and Stack as three clients, each implementing
   its abstract sequence by a refinement mapping.
2. *Imports*: the import walk with its cycle check, registration and module path,
   against reachability in the import graph.
3. *Cmd*: spawn, kill and wait with fork, the close-on-exec pipe and exec that may
   fail at every step.
4. *Driver*: the pipeline with a failure at every stage and what is left on disk.
5. *Scopes*: dead statements with labels and gotos; the lexer's nesting of
   comments and literals.
6. TypeOrder and DeadDefines composed, so that what is ordered is what the sweep left.

Abstract specifications worth stating: a heap of values without counters, which
RefPtr implements up to when it frees; a sequence for each container; the set of
packages of a program for the importer.

Theorems worth proving: that Boxes implements a heap without counters.

## Running it

    tlc -config WaitGroup_batch.cfg WaitGroup
    tlc -config WaitGroup_early_return.cfg WaitGroup
    tlapm SyncProofs.tla

`PROJECT.json` lists module and configuration of each run. The longest,
`items_windows`, takes two to three minutes; every proof module is done in
minutes. The configurations of [Deviations](#deviations) go with the module of their
prefix, those of RefPtr, Slice, ThreadHandle and Boxes with its `MC_` module, and end
with a counterexample.
