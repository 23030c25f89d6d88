# libcxxext: TLA+ verification project

libcxxext is a C++23 library (error handling, arithmetic, containers,
threading, text) together with the Python programs that build and check it.
This directory holds TLA+ modules translated from that source, TLC
configurations that check them on small instances, and theorems about them
that TLAPS checks for every value of the constants.

Paths below are relative to the repository. `tlc -config X.cfg M` checks the
module `M` under `X.cfg`; `tlapm M.tla` checks the proofs in `M`.

## The system

| Component | Source | State | Operations | Talks to |
|---|---|---|---|---|
| `sys::once` | `sys.Threading/Once.h` | two atomic flags, `initialized` and `busy` | `call_once` (two overloads), `wait`, `is_completed` | the caller's function; used by mutex and condition variable |
| `sys::ordinary_mutex` | `sys.Threading/Mutex.h` | a lazily created handle, a `once` | `lock`, `try_lock`, `acquire`, `try_acquire`, `release`, guard, destructor | `once`, tinycthread through `sup/MutexHandle.h` |
| `sys::cond_var` | `sys.Threading/ConditionVariable.h` | a lazily created handle, a `once` | `wait`, `wait_until`, `notify_one`, `notify_all` | `once`, the mutex's handle |
| `sys::ordinary_semaphore` | `sys.Threading/SemaphoreEx.h` | counter, mutex, condition variable | `acquire`, `release`, `access` and its guard | mutex, condition variable |
| `sys::managed_thread` | `sys.Threading/ThreadEx.h` | OS handle, heap functor | `ctor`, `join`, `detach`, move, destructor, trampoline | thread handle, the functor's own thread |
| `sys::result` | `sys/Result.h` | tagged union: ok, error, empty | construct, move, assign, swap, `move`, `expect`, `err` | every call that can fail |
| guards | `sys/ResourceGuard.h`, `sys/Destructor.h` | resource pointer, armed function | move, swap, release, destruction | mutex, semaphore, thread |
| `inplace_queue` | `sys.Containers/InplaceQueue.h` | ring of slots, head, tail, `full` | `enqueue`, `try_dequeue`, iteration | its elements |
| `inplace_vector`, `inplace_set`, `inplace_string` | `sys.Containers/*.h` | slots and a size | push, pop, clear, insert, erase, find | the lifetimes of elements |
| `inplace_atomic_set` | `sys.Containers/InplaceAtomicSet.h` | an array of atomics | `exchange`, `exchange_weak` | threads |
| integers and casts | `sys/Integer.h`, `sys/Numeric.h`, `sys/BitTwiddling.h` | none | wrapping and saturating arithmetic, casts, bits | |
| code points and strings | `sys.Text/*.h` | a string, an iterator | decode, encode, repair, case, trim, split, join | generated Unicode tables |
| lock files | `workflows/lib/lockfile.py` | a file, its `flock`, the process's list of locks | acquire, release, release all | every process of a checkout |
| stamps and installations | `workflows/lib/exec.py`, `workflows/tools/*.py` | stamp files | stamp, look, cache update, install | lock files, sub-processes |
| findings | `workflows/all_findings.py`, `pylint.py`, `docgen.py`, `cpplint.py`, `cppcov.py`, `cppfmt.py` | a file and a stamp per check | run a tool, write its file, judge, stamp, report | stamps, sub-processes |
| scheduler | `workflows/all_push.py` | passed, failed, pending and running checks | the scheduling loop | a thread pool, `checks.json` |

Threads meet in the first four components and in the atomic set; processes
meet in the lock file and the stamps. `once` is below everything lazy: a mutex
or condition variable creates its handle in the first call that needs it, under
its `once`, and a creation that fails is retried by the next call. A semaphore
is a counter under a mutex, with sleepers on a condition variable. Results
carry every failure upwards, and guards undo things on the way out. Every check
the scheduler runs is a process that may install tools under the lock file.

What is hard, and what makes each part correct:

- **once**: callers race through a check, a spin and a re-check with relaxed
  and stale reads; functions fail and are retried. One function at a time, none
  after a success, and whoever is told of completion sees what was written.
- **mutex, condition variable**: creation, locking, unlocking, waiting and
  signalling may each fail. Callers' holds are the handle's; no wake-up is lost;
  a failure leaves everybody able to go on; waits end under the mutex.
- **semaphore**: a notification that fails after the counter was raised, a lock
  that fails before it was lowered. Permits are conserved and never stranded.
- **managed thread**: a thread may end before its creator has stored its handle
  or destroy the variable that owns it; detach and join may fail. One owner
  per handle, functors destroyed once by their thread or, if it could not be
  created, freed, nobody joins himself.
- **containers**: full and empty rings look the same to the indices; elements
  live and die out of step with sizes; exchanges interleave slot by slot.
- **result**: moves that throw half-way, in an order chosen by size.
- **guards**: cleanups that move from guard to guard. Each runs once, whoever
  holds it at last.
- **integers**: the lowest value, zero, shifts by the width, promotion to `int`,
  bounds that floating point rounds. Nothing is undefined, everything is exact.
- **lock file**: unlocking, closing and removing are three steps, opening and
  locking two; processes are killed. One holder, no waiting for the dead.
- **scheduler**: needs that failed, are unknown or cyclic; results out of order.
  Checks run once, after their needs, and the verdict is true.
- **findings**: a check replaces its file at one time and its stamp at another,
  and is killed or run again in between. What the report calls ok is ok.
- **text**: boundaries between encodings' ranges, a size cached by an iterator
  that has since moved, separators that touch or overlap, casing contexts
  carried along a text in both directions.

## Modules

| Module | Models | Notes on the correspondence |
|---|---|---|
| `OnceSpec` | the promise of `once` | from the comments, but every step is one the code takes: enter, begin, fail, succeed, return |
| `Once` | `Once.h` at its atomic accesses | `pc` names the access a thread is at; views model the memory orders (below) |
| `Mutex` | `Mutex.h` over `OnceSpec` | `handle`, `owner`, `depth` are tinycthread's record (external); `guards`, `manual` are what callers hold |
| `CondVar` | `ConditionVariable.h` over `OnceSpec` | clients toggle a predicate under the mutex; spurious wake-ups are actions |
| `ManagedThread` | `ThreadEx.h` | variables, OS threads and functors are apart, a functor as counts of what was built, destroyed and freed; every thread may act on every variable nobody else uses |
| `Threading` | the two above side by side | a behaviour picks one |
| `SemaphoreSpec`, `Semaphore` | `SemaphoreEx.h` | a counter between 0 and the highest value of its type, one action per step between calls into mutex and condition variable |
| `BoundedFifo`, `InplaceQueue` | `InplaceQueue.h` | indices modulo `Capacity` and the flag `full`; a dequeued slot keeps `Junk` |
| `QueueIterator` | its iterators | signed offsets, and sums of type `size_t` that wrap at `2^Width` before they are reduced to a slot |
| `InplaceVector` | `InplaceVector.h` | `cell[i]` is the object alive in slot `i` or raw memory, one cell past the end included, as `pop_back` reaches it |
| `InplaceSet`, `InplaceAtomicSet` | the two sets | a compare-and-swap is one step; a weak one may fail anywhere |
| `Result` | `result<T, E>` of two object types | storage and status move apart; every move of an object may throw before or after it |
| `BareResult` | the results without a union | of `void`, and of nullable values, where null is the error |
| `Guards` | `ResourceGuard.h`, `Destructor.h` | the three classes with the operations each has; `ran` counts runs of each cleanup |
| `Containers` | all of these side by side | a behaviour uses one; the composition shares the constants |
| `PkgmgrLock` | `lockfile.py`, `exec.py`, installation | one action per system call; files are numbered, as the path may lead to another file than the one opened |
| `Findings` | the checks with findings, `all_findings.py` | the three orders in which they write, judge and stamp; time passes and stamps expire |
| `AllPush` | `all_push.py` | the main thread and the pool's slots; the workflow is any graph |
| `Workflows` | the three above side by side | a behaviour picks one |
| `Char` | `Char.h`, `codepoint_view` | bit operations written as arithmetic |
| `Codepoints` | `CodepointIterator.h`, `invalids_replaced` | a walk that overshoots stops short of the end for ever |
| `Casing` | the casing of `StringEx.h`, the tables of `data/` | the tables are exact for U+0000..U+017F, the marks U+0300..U+036F and the characters it names, the contexts are folds over the text |
| `StringEx` | `StringEx.h` | a string is a sequence of units; each operation is an action on one |
| `Integer` | `Integer.h`, `Numeric.h`, `BitTwiddling.h` | a type is a width and a sign; narrow types are promoted to `int`; what the language leaves undefined is the value `Undefined` |
| `Algorithms` | the last five side by side | a behaviour picks one |
| `MC...` | | the modules for TLC, with no more than their constants |
| `...Proofs` | | theorems and their proofs |

`Mutex` and `CondVar` use `once` at `OnceSpec`: the run `once` and the theorem
`OnceProofs!Refinement` show that `Once` implements it. `Semaphore` takes the
mutex and the condition variable at what `Mutex` and `CondVar` establish, an
exclusive lock and sleeps that release it, each of which may fail. `Casing`
and `StringEx` rest on the decoder in `Char`, for torn sequences too.

**Memory order.** `Once` does not assume sequential consistency. `hb[t]` is the
set of functions' runs (and the store to `initialized`) that happen before the
next step of `t`. A release attaches the writer's set to the flag, an acquiring
read of it adds what is attached, a relaxed read adds nothing, and a load of
`initialized` may lag behind the store until `Propagate`. A missing release or
acquire in the code then shows as a missing event.

**Failures** are bounded by `MaxFaults` (or `MaxFailures`) in the guards of the
failing actions, `calls` of the atomic set by `MaxCalls`, nesting by `MaxDepth`
and `MaxHeld`, needs by `MaxNeeds`, time by `MaxTime` and repeated checks by
`MaxRuns`, strings by `MaxUnits`, `MaxPieces` and `MaxSize`, operands of
integers by `Samples`. There are no other bounds. The theorems hold for every
value of those they depend on.

**Readings of the code.** A `cond.wait` that fails has not slept. Preconditions
the comments state are kept: a plain mutex is not locked by its holder, a mutex
is destroyed when nobody uses it, variables of threads are used by one thread
at a time. In `PkgmgrLock` stamps do not expire, and the lock is the POSIX
branch; in `Findings` they do. Iterators of a queue are used while it does not
change. Guards with a function are moved with captures that moving leaves as
they are, which is the worst case. Objects of results and of the vector are non-trivial, as only those have
lifetimes. The exit code of a functor that returns something convertible to
`int` is its value: the comment at `ThreadEx.h:189` says 0, the code converts.

## Runs

| Run | Instance | What it shows |
|---|---|---|
| `once` | 3 threads, 2 failures | Functions' effects are seen by whoever is told (`CompletionPublishes`) and by retries (`RetrySeesFailures`); none runs after a success, which the relaxed re-check under `busy` could break (`NoRunAfterSuccess`); calls return although functions fail (`CallsReturn`); the code implements `OnceSpec`, liveness included (`ImplementsPromise`). |
| `mutex` | reentrant, 3 threads, depth 2, 1 fault | Callers' holds are the handle's record (`HoldsAgree`), the handle is used only while it exists, also after a failed creation (`HandleUsable`), and every call returns unless it blocks while another thread holds the mutex (`CallsReturn`): tries return whoever holds it, the owner re-enters, failures strand nobody. |
| `threading` | 3 threads on a condition variable, or 2 workers and the main thread with 2 variables; 2 faults | No `wait_until` sleeps through a change it was notified of (`SleepersSafe`); waits end holding the mutex even when they fail, and a successful `wait_until` with a true predicate (`WaitsHonest`). Every thread handle has one owner and none is lost (`HandlesOwned`); functors that were run are destroyed once, storage is freed once and not while it is run, whatever fails; functors freed undestroyed, which the code does have, are those of failed creations only; joins end after what they join (`EndsOnce`). Joins return unless threads join in a circle, and notifying waits for nobody (`OperationsReturn`). |
| `semaphore` | 3 threads, 1 permit, at most 2, 2 faults | Permits add up whenever the mutex is free (`Conservation`), a sleeper is on his way whenever permits are left (`NoStrandedPermit`), guards end the process only after a fault or an unpaired release (`GuardsSafe`), callers see `SemaphoreSpec` (`ImplementsPermits`), and permits do not lie idle while acquirers wait (`PermitsMove`). |
| `containers` | 2 values, room for 3, `size_t` of 4 bits, 2 threads with 3 calls, 3 results, 3 guards | The queue implements `BoundedFifo` (`ImplementsFifo`), and its iterators step, jump and subtract alike, but for the cases below (`IteratorsExact`); the vector is a stack and the set a bag to their callers (`StackAndBag`); interleaved exchanges keep the balance of values (`SharedBalance`), and one that nobody disturbs finds what is there (`SharedAloneIsExact`); results neither leak, nor build over, nor destroy twice, whatever throws (`ResultLifetimes`), and moves and swaps hand over exactly (`ResultMovesExact`); a cleanup runs once (`CleanupsRunOnce`). |
| `workflows` | 3 checks, all graphs of up to 3 needs, 1 unknown name, undefined checks, pool of 2; or 3 processes, one without cache update, 2 faults; or 2 checks with findings, each run twice within 3 ticks of a clock, a stamp in date for 1 | Checks run once and after their needs (`RunsOnceAfterNeeds`); what succeeded is all that could, and the verdict says whether any failed (`VerdictHonest`). The lock excludes until a release removes a file another has opened (`OneHolderUnlessTorn`); tools are installed from an updated cache although the stamp is written first, and stamps are true (`InstallsHonest`). The report of findings is right as long as no check is run twice (`FindingsHonest`). Jobs and checks end, for cycles and after kills too (`WorkflowsEnd`). |
| `algorithms` | every string of up to 4 units, in each width, from both sides of every boundary; integers of 3, 4 and 8 bits with an `int` of 8, around every bound; strings of up to 3 pieces from whitespace, letters, marks and torn sequences | The repaired copy is well-formed by the Unicode standard's own table, keeps what was valid and replaces the rest unit by unit (`RepairFaithful`); walks end exactly at the end, with or without the cached size (`ReachesEnd`). Arithmetic wraps or saturates as documented, products of narrow types excepted (`ArithmeticExact`); casts keep, saturate or refuse, and what comes out of a checked one is defined, excepting floating point at the bound (`CastsExact`). Splitting, searching and joining fit together and no piece is lost (`SplitJoinInverse`); trimming removes whitespace and nothing else (`TrimExact`); casing contexts are those of the Unicode standard, but for `more_above` where a mark of another class stands next, casing twice is casing once, and folding forgets case (`CasingExact`); another width and back is a repair (`TranscodingLossless`). |
| `vector_pop_doc`, `lockfile_doc`, `start_bytes_doc`, `product_doc`, `float_cast_doc` | as above, smaller | find the disagreements below. |

Why these sizes are enough to meet the interesting cases: three threads are one
that works, one that waits and one that comes late; two faults are a failure
and the failure of what was to make up for it (of the mutex, whose safety is
proved for any number, one is enough for liveness); room for three lets the ring wrap
with items on both sides, and is no divisor of 2^4, so that an index that wraps
in `size_t` shows; four units are the longest sequence; three pieces are a
separator between two others, or two separators that touch; an `int` of 8 bits
has a type of half its width (as 16 bits are of 32), one below that and one as
wide; five binary digits of a floating-point number are fewer than an `int`'s
and more than the narrow types'; three checks make a chain, a fork, a join and
every cycle; two runs of a check are one whose stamp the other finds in date or
expired.

Several components share a run where nothing but the constants is shared: their
variables are disjoint, a behaviour picks one of them (`active`), and the others
rest. What such a run shows of a component is what a run of its own would.

The threading and container runs switch deadlock checking off: threads that join
each other in a circle, a system whose threads have all ended, and an atomic
set whose calls are used up do stop. Everywhere else deadlock is an error, and
a process that has been terminated or a job that has ended stutters in a step
of its own.

**Fairness.** Every run with liveness assumes weak fairness of a thread's next
step inside a call and nothing more: the code's scheduling is the operating
system's. In `Once` stores become visible in finite time, as C++ asks. Functions
and functors terminate; external commands end; an iterator's walk goes on. No
thread is obliged to call, to unlock, to notify or to release, and neither
mutexes nor lock files are fair, so that a locker may be overtaken for ever:
the mutex's `CallsReturn` and `PermitsMove` except exactly that. `Findings` has
safety only: its checks may be killed at any time.

## Findings

- `inplace_vector::pop_back` (`InplaceVector.h:55`) decrements the size after
  using it, so it destroys the cell after the last element (outside the array
  when the vector is full) and leaves the last element alive. Run
  `vector_pop_doc`.
- `lockfile_rel` (`lockfile.py:81`) removes the path after unlocking: a waiter
  that has opened the old file locks a file without a name while another
  creates and locks a new one. Two processes then hold the project-level lock.
  Run `lockfile_doc`.
- `read_codepoint` (`Char.h:142`) takes first bytes from 80 to C1 as the first
  of three, so that `C1 81 80` is read as U+1040. The tests state that these are
  invalid but try them alone only. Run `start_bytes_doc`.

- The product of two 16-bit integers (`Integer.h:174`) is computed in `int`
  after promotion and overflows it, though the comment at line 28 says that
  arithmetic wraps. Run `product_doc`.
- The checked cast from floating point (`Numeric.h:97`) compares with the
  highest integer cast to floating point, which is rounded up for wide types;
  the number it is rounded to passes and its cast is undefined. Run
  `float_cast_doc`.

Noted while reading, without a run of their own:

- when `managed_thread::ctor` cannot create its thread (`init_failed`), `onFail`
  (`ThreadEx.h:200`) frees the storage of the functor that was built at line 197
  and does not destroy it, so that what its captures own leaks. `InitFails` does
  the same, and `EndsOnce` names these functors as the exception;
- `inplace_queue::try_dequeue` (`InplaceQueue.h:146`) moves `begin` before it
  moves the item out, so that an item whose move throws is lost;
- the constructor of `inplace_string` from a C string never sets its size, so
  that its `end()` is its `begin()`;
- `begin()` of a full queue equals its `end()`, and the comparison of iterators
  compares the queues, for which there is no operator. `IteratorsExact` says
  what is left: steps are right, an offset that takes the index below slot 0
  (`+`) or more than once around below it (`-`) wraps in `size_t` first and is
  off unless the capacity divides 2^64, and differences ignore the wrap;
- assigning to an armed `optional_destructor` (`Destructor.h:58`) drops its
  function, which then never runs: `CleanupsRunOnce` names it as an exception;
- a check that fails within six hours of having passed keeps its stamp, so that
  `job:findings` calls the file with the new findings ok, and a stamp in date is
  not renewed: hence "as long as no check is run twice" in `FindingsHonest`;
- the scheduler passes a workflow in which checks were skipped because their
  needs are cyclic or unknown;
- the stamp of a cache update is written before the update and stays when it
  fails;
- casing differs from the Unicode standard where the code says so to nobody:
  `more_above` looks at the next character only, not past marks of other
  classes, which `CasingExact` names as an exception to table 3-17, and the rules that remove a dot (after an I in Turkish, after a
  soft-dotted letter in Lithuanian) are missing from the generated tables, so
  that the contexts `after_i` and `after_soft_dotted` are computed for nothing.

## Proofs

Every safety property that a run checks is proved for every value of the
constants, but for the one about casing. Most proofs are of the form
`Init => IInv`, `IInv /\ [Next]_vars => IInv'`, one step per action, and from
the invariant the properties. Where a run checks several components side by
side, the theorem is about the composition (`AllSpec`) the run checks, or a theorem
`SideBySide` carries it over.

Assumptions are named in the modules (`OnceAssumption`, ...): bounds are
naturals and the values for "nobody" are no threads. Some say more:
`FiniteThreads` and the one of `PkgmgrLock` say that threads and processes are
finitely many, without which a set of sleepers could not be counted, nor a new
lock file be given a number. `ContainersAssumption` says that marks of the
models (`Tmp`, `Failure`, `Junk`) are none of the program's objects.
`WidthAssumption` says that twice a queue's capacity is below `2^Width`.
`CodepointsAssumption` and the one of `StringEx` say that units are numbers that
fit their width (for 32 bits, any number), and the one of `Integer` that types have at least one bit, samples are integers, and
some type is the widest, which is what a number saturates from.

- `OnceProofs`: `TypeCorrect`, `Exclusion`, `Publication`, `RetryVisibility`,
  `AtMostOnce`, `Refinement` for any threads and failures. The properties are
  not inductive: that nothing runs after a success rests on `busy` being a lock
  (`LockInv`), on the store lying between the success and the release of that
  lock (`StoreInv`), and on the lock handing on its holder's view (`ViewInv`),
  which is what lets the second check be relaxed. `Refinement` maps `busy`,
  `pc` and `ret` to the abstract status; it covers the initial states and steps,
  the fairness of `OnceSpec` is left to TLC.
- `MutexProofs`: `Agreement`, `MutualExclusion` and `Usability`, plain and
  reentrant (TLC runs the reentrant one). The invariant ties the handle to the
  once (`LifeInv`) and the depth to the holds (`HoldInv`).
- `ThreadingProofs`, threads: `ThreadHandlesOwned` and `ThreadEndsOnce`. A
  thread in the middle of an operation has its variable to itself (`DoingInv`),
  and a handle that is about to be assigned is owned by that promise alone
  (`OwnInv`): this is what makes the moment between the creation of a thread and
  the assignment of its handle safe, in which the new thread may already end.
  Of a functor three counts are kept, of what was built, destroyed and freed,
  over all attempts to create the thread; a failed one adds to the first and the
  last (`FunctorMoved`).
- `ThreadingProofs`, condition variables: `SleepersAreSafe` and `WaitsAreHonest`.
  Where a thread is says whether it holds the mutex and what it knows of the
  predicate (`PlaceInv`): from its test to its sleep a `wait_until` holds the
  mutex, so that the predicate stays false and no notification is missed.
- `SemaphoreProofs`: `PermitsConserved`, `GuardsAreSafe`, `NoPermitStranded` and
  `Refinement`, for any threads, count, width and faults. The counter is off by
  what the mutex's owner has done and not yet told (`Untold`); the owner is
  whoever is inside (`OwnerInv`). A guard's release finds room because the
  permits out are at least those that guards hold, counted by an element of
  `Slots` each, as sums over threads would be an induction (`GrantsInv`). While
  somebody sleeps, permits are no more than threads on their way to them and
  the one the owner takes or will notify of (`WakeInv`); that is stronger than
  `NoStrandedPermit`, which speaks of the moments the mutex is free.
- `ContainersProofs`, queue: `Occupation` and `Refinement`, for every capacity. The
  only arithmetic is that an index less than two turns on wraps once
  (`ModWraps`); the refinement reads the occupied slots as a sequence.
- `ContainersProofs`, containers: `VectorAlive`, `SetHoldsItems` and, of what
  callers see, `StacksAndBags`: a set's bag is followed by the slots that hold
  a value (`Holding`), one more or one fewer each step. `Balanced` for any
  threads: a store moves one from one count to another (`StoreCounts`).
  `AloneExact`: what an undisturbed exchange is due lies ahead of it
  (`AheadInv`).
- `ContainersProofs`, iterators: `IteratorsWalk`, for any capacity and width.
  The steps of an iterator are a recursive function; that they lead where the
  offset does is shown by the least step at which they would not
  (`LeastNatural`), which is an induction without an operator as a parameter.
  The attempt to prove it showed that the property had asked too much: at
  widths that `WidthAssumption` allows but the run does not have, an offset of
  two turns may exceed `size_t` from above as well, and `IteratorsExact` now
  says so. No array of objects is that long in the program.
- `ContainersProofs`, guards: `CleanupsOnce`. At most one guard is armed with a
  cleanup, and one that is armed has not run it (`GuardInv`).
- `ContainersProofs`, results: `LifetimesKept` and `MovesHandOver`. In every
  state an operation passes through an object is where the status says, and no
  two variables hold the same (`Sound`). A step of an operation is a lemma about
  one state and the set of states it may end in (`MoveConstructIs`, ...); a swap
  is three of them, each taken unless the one before threw (`SwapSteps`), and
  works in either order and with itself.
- `ContainersProofs`, `SideBySide`: all of what the run `containers` checks,
  for the composition.
- `WorkflowsProofs`, the lock file: `LockExcludes` and `StampsAreHonest`. As
  long as nothing is torn, every open file is the file at the path, and whoever
  has passed `TryLock` owns it (`FileInv`). The stamp of the cache is ahead of
  the update, but only while a process that holds the lock is updating
  (`UpdateInv`), and whoever goes for the tool has seen that stamp (`StampInv`):
  to install it must get the lock, by when the update is over.
- `WorkflowsProofs`, findings: `ReportIsHonest`. A stamp is never later than the
  last clean run, and that of a check run once is that run's (`FindingInv`).
- `WorkflowsProofs`, `SideBySide`: these and what is shown of the scheduler
  (below), for the composition that the run `workflows` checks.
- `WorkflowsProofs`, the scheduler: `RunsOnce` and `VerdictIsHonest` for every workflow. The sets
  follow the pool (`Accounted`), nothing is submitted before its needs
  (`NeedsMet`), what succeeded is within every set closed under needs
  (`Founded`), and the loop ends only when nothing is left (`NothingLeft`).

- `TextProofs`, code points: `RepairIsFaithful`, `NeverPastEnd` and, for the
  composition, `CopiesAreFaithful`, for any units and any length of text. That a sequence begins a well-formed one is said as the
  standard's table says it (`Begins`); a code point that is written begins so
  and reads back as itself whatever follows (`WriteBegins`, `WriteRead`), and a
  sequence that begins well is read as a whole and written as it was
  (`BeginsRead`). In between are the digits to base 64 of a code point, put
  together and taken apart. The inductive invariant carries what each item of
  the copy was when it was read, and that the last one ends at the iterator.
- `TextProofs`, strings: `SplittingIsExact`, `TrimmingIsExact` and
  `TranscodingKeepsText`, over any pieces, separators, widths and lengths, torn
  sequences included. The invariant (`StringInv`, the theorem `StringTypes`) is
  that the string consists of units of its width, which every operation keeps;
  from it each property follows by what the algorithms compute:
  - a loop over a text is a recursive function of the place it is at. Such a
    function exists, and two that stop and step alike agree (`RunsExist`,
    `RunsAgree`), by the least distance from the end at which they would not;
  - a string is read on a walk of places (`Walk`, `WalkExists`), and what
    `Decode` returns are its steps (`WalkIs`). What is written for code points is
    read on the walk along the ends of their units (`EncodeRead`), whence
    transcoding;
  - what is read at a place depends on no unit behind it (`ReadPrefix`), so that
    a part cut at places of the walk reads as it did in the whole (`PointsPart`).
    This is why trimming tears and joins nothing, although torn sequences may
    stand at the cut, and why the second cut finds what the first one left;
  - parts put end to end lie where their lengths add up to (`FlattenPlaces`).
    The pieces of a split, each but the last followed by its separator, are the
    string (`SplitFromPieced`, `JoinCons`), and none holds a separator because the
    loop passed every place in it (`Clear`).
- `IntegerProofs`: `IntegersAreExact`, `CastsAreExact` and `IntegerTypes`, for
  types of any width and sign, any width of `int`, any samples and any
  precision. The invariant, `NumberInv`, says that the object holds a value of
  its type and that the last call is exact; what the work is in is that every
  call computes what it should (`ComputeExact`), an operation at a time:
  - sums and products: a number and its representation in a type differ by a
    multiple of the type's modulus (`SameAs`, `SumsExact`, `ProductExact`);
  - bits: a natural below a power of two is the sum of its digits and has no
    other digits (`ValueBits`, `BitsValue`), so that sets of positions stand for
    `&`, `|`, `^`, `~`, and shifts move them (`BitUp`, `BitDown`);
  - division: quotient and remainder are the only pair in bounds (`DivUnique`),
    and only the lowest value by -1 leaves the type (`QuotFits`);
  - the next power of two: each shift that smears the highest bit doubles the
    run of ones below it (`Smear`, `SmearSteps`);
  - casts: between integers by comparing bounds, from floating point by the
    grid that the precision leaves at the bounds (`FloatHighest`,
    `CheckedFloatExact`).
  The inductions over naturals, over exponents and over digits are made by the
  least counterexample, as a lemma about sets of naturals, and recursive
  functions are shown to exist before they are used (`IteratesExists`).

`Char`, `StringEx` and `Integer` are written with recursive functions, and `Integer` with a
power of two of its own, as nothing can be proved of a RECURSIVE operator or of
`^` here.

Model-checked only:

- what is live: `CallsReturn` (of the once and of the mutex), `OperationsReturn`,
  `PermitsMove`, `WorkflowsEnd`, `ReachesEnd`, and the fairness in
  `ImplementsPromise`: fairness and ENABLED are out of the prover's reach;
- `CasingExact`, which says of casing a text twice what follows from the tables
  and from contexts over the whole text at once: a character that is cased
  changes the contexts of its neighbours, some become several, and the second
  pass must still agree. What is proved of casing is that it makes strings
  (`CasesSeq`).

## Not modelled

- `inplace_string`: it has constructors and two pointers, and nothing changes.
- Comparisons and queries without effect; the trivial-type variants of
  containers, which differ in the lifetimes of objects only; formatting, element
  access and capacity of strings, which are the standard library's; the hash
  combiner.
- The Windows branch of the lock (`msvcrt.locking`) and the expiry of the stamp
  of a cache update; argument parsing and the scripts that call a tool and
  return what it returns; the generators of the tables, which run before the
  program is built.
- Metaprogramming and platform headers, which have no state and are gone after
  compilation. Tinycthread and the operating system are external and appear by
  what the code relies on.
- The generated tables beyond what `Casing` covers. Of the 29557 lines of the
  repository's headers, 23580 are generated: `UnicodeCasing.h` (13058) and
  `UnicodeCCC.h` (1255), one row per character, and the warning lists
  `ClWarnClang.h`, `ClWarnMSVC.h` and `ClWarnGCC.h` (9267 together), one macro
  per warning. The former follow one form throughout, and rows for further
  scripts would say nothing new about the code that reads them; the latter are
  no part of the program. What is written by hand is a fifth of all the lines,
  so that a share of thirty percent cannot be reached by modelling code.

## Plan

Done: every component with state of its own, and the pure algorithms; proofs of
the safety of every component. Next, in this order:

1. The tables of casing for Greek and Cyrillic, and the title-case digraphs.
2. That the two passes of casing find the contexts of the standard, for texts of
   any length: the part of `CasingExact` that no table enters.
