# Verification of the LuaForge runtime

TLA+ models of the concurrent and event-driven core of LuaForge Studio's Lua
runtime (`src/app/src/main/jni/lua/src`), the TLC runs that check them on small
instances, and TLAPS proofs of what matters most. Paths below are relative to
that directory unless they start with `src/`.

## 1. Inventory

The repository is an Android IDE around a modified Lua 5.5 virtual machine. What
can go wrong in ways a test does not reach is concentrated in the runtime:
operating-system threads that share one Lua heap, and an event loop with
promises. The IDE (`src/app/src/main/kotlin`), the Java compatibility layer
(`src/core`), the editor widget, the APK signer and most native libraries are
sequential, third-party, or bound to Android.

| part | state it keeps | operations | hard because of |
|---|---|---|---|
| channels and `thread.pick` (`stdlib/lthreadlib.c`) | linked list of elements, closed flag, mutex, condition variable, list of listeners; a selector on the C stack of each pick | send, try_send, receive, try_recv, close, peek, pick, finaliser | every thread interleaves with every other; pick registers, sleeps, unregisters and scans again without holding a lock throughout |
| registry references (`core/lauxlib.c`) | a free list threaded through the registry table | `luaL_ref`, `luaL_unref` | made of several API calls, each atomic by itself; called by channel operations of several threads at once |
| thread lifecycle (`stdlib/lthreadlib.c`) | `LuaThread` record, anchor reference, `joined` flag, handle in the Lua heap | create, join, detach, self, finaliser, the thread's own entry point | two owners of one record, a collector, a blocking join between test and set |
| state lock and shared tables (`utils/lthread.c`, `core/lapi.c`, `stdlib/ltablib.c`) | the global state mutex, one reader-writer lock per shared table | lua_lock/unlock, l_rwlock_*, locktable | lock order, recursion, writer starvation |
| event loop (`utils/leventloop.c`) | ring of tasks, heap of timers, watchers, worker pool, state word | post, timers, io watch, run, stop, destroy, run in pool | callbacks that re-enter the loop, other threads posting, full queues |
| promises (`utils/lpromise.c`) | state word, result, list of reactions, one continuation slot | then, catch, finally, resolve, reject, all, race, allSettled, any, cancel | reactions run re-entrantly, combinators share a context between callbacks |
| async functions (`utils/laio.c`) | coroutine, context, timers | await, sleep, interval, withTimeout, retry, eachSeries | continuations, cancellation, one slot for several awaiters |
| garbage collector (`core/lgc.c`, `core/lmap.c`) | colours, lists of objects, gray lists, state word, sweep position | allocate, barriers, steps, atomic phase, sweep, finalizers, full collection | the program changes the graph between any two steps; weak tables and finalizers depend on the order of the atomic phase |
| interpreter, compiler (`vm`, `compiler`, rest of `core`) | stacks, prototypes | everything else of the language | mostly sequential data transformations |
| MCP transports (`src/transport`), plugin system, editor model (Kotlin) | sessions, plugin records, open tabs | connect, resume; enable, disable; open, save | coroutines and user interface callbacks |
| Java bridge, native libraries, LSP server, wasm, obfuscator, signer, editor widget | — | — | third-party or sequential |

How they interact: the virtual machine runs Lua code while it holds the state
lock and releases it around C functions (`core/ldo.c:748`), so C functions of
the thread library run in true parallel and take the state lock anew in every
`lua_*` call. Channels keep their values in the registry through `luaL_ref` and
protect everything else with their own mutex. The event loop runs callbacks of
promises and timers on the thread that runs the loop; worker-pool threads hand
results back by posting tasks. Promise reactions resume coroutines of async
functions directly, or post a task. The collector runs inside allocations, so
any of these may be interrupted by one of its steps; userdata of promises,
channels and thread handles meet it in their finalizers.

What makes each part correct:

* channels: FIFO order, every accepted value received at most once, exact
  ownership of registry references, no lost wake-up, no dangling selector;
* registry references: two live references never share an index, and freed
  indices are all reusable;
* thread lifecycle: a thread is joined or detached at most once, its Lua state
  is anchored while it runs, its record outlives every user of it;
* state lock and tables: no two threads in the heap at once, no deadlock;
* event loop: a posted task runs once, a stopped timer does not fire, a running
  loop notices work, destroy waits for workers and loses nothing;
* promises: settle once, each reaction runs once and its child settles, a
  combinator settles according to its inputs;
* async functions: a coroutine that sleeps is registered with the promise it
  waits for, and is resumed once;
* collector: what the program or a finalizer can reach is kept, what it could
  not reach when a cycle began is freed by its end, weak tables lose the right
  entries.

## 2. Plan

| module | models | refines | proofs | state |
|---|---|---|---|---|
| `Channel` | channels and `thread.pick` | `AbstractChannel` | `ChannelProofs` | done |
| `RegistryRef` | `luaL_ref`, `luaL_unref` | — | `RegistryProofs` | done |
| `ThreadLife` | create, join, detach, self, finaliser | — | `LifeProofs` | done |
| `SharedTable` | state lock, table locks, insert and remove | `AtomicTable` | `TableProofs` | done |
| `TimerHeap` | the timers of a loop as an array | `TimerBag` | `HeapProofs` | done |
| `EventLoop` | ring, pool, iterations, timers as a set | `TaskQueue` | `LoopProofs` | done |
| `Promise` | promises, reactions, combinations, coroutines | — | `PromiseProofs` | done |
| `Collector` | incremental marking, atomic phase, sweep, finalizers | — | `CollectorProofs` | done |

`EventLoop` takes from `TimerHeap` that the array is a bag from which an earliest
entry is taken; `Promise` takes from `EventLoop` that posted tasks and timers
run one after the other on the loop's thread, nested where a callback awaits.
`Channel` takes from `RegistryRef` that references are exact. Every other module
is about memory the modules do not share.

Every safety property that a passing run checks is also a theorem, and so is each
`TypeOK`, whether a run checks it or not. `Holds` and `FreeListExact` of
`RegistryRef` are theorems about calls that do not overlap; the run about them
shows what an overlap does. What only the runs show is liveness:
`SendReturns`, `ClosedReceiverReturns`, `ReadyPickReturns`, `JoinAnswers`,
`AcceptedRuns`, `TimerFires`, `DestroyReturns`.

## 3. Channels

### Model and code

`Channel.tla` has one action per critical section. A `ChannelElem` is identified
with the value it carries. `listeners[c][t]` counts the `Listener` records of
thread `t`'s selector in the list of channel `c`. `send`, `try_send` and `close`
notify listeners one by one, under the channel's mutex, each under the
selector's mutex: that phase (`pc = "notify"`) is several steps. `peek` reads the
registry under the channel's mutex and waits for the state lock meanwhile
(`lthreadlib.c:741-747`): it is two steps, `Peek` and `PeekReturn`. These are the
times at which `lock[c]` is seen taken; every other critical section is one
action. `try_send` may therefore be refused at any moment (`TrySendRefused`): its
`trylock` fails as well when another thread is in a critical section that the
model does not see. `SendFails` is the failed allocation and the refused type.
`pthread_cond_wait` puts the thread in
`condq[c]` and releases the mutex in one step; a spurious wake-up may happen at
any time. Time-outs are nondeterministic. Values, type constraints and handlers
are abstract: `Accepts` says which values pass the type check of which channel.

A value is sent once to a channel (`Fresh`), so that the histories `sent` and
`got` tell values apart; a new element's memory is not linked or carried by any
sender. `Collect` is the finaliser, after which the record stands for the next
channel that is created. `luaL_ref` and `luaL_unref`, several API calls each, are
one exact step here; section 4 takes them apart and says when that is so.

### Runs

| run | instance | what it shows |
|---|---|---|
| `channel_fifo` | 3 threads, 1 channel, 2 values, pick on it | the pointers spell the queue (`ListOK`), references are exact (`RefsExact`), no lost wake-up (`NoLostWakeup`), refinement of `AbstractChannel` (`Implements`) |
| `channel_live` | 2 fair threads, 2 channels (one refuses the value), 1 value; picks over both orders, a channel twice, only a timeout | types; a pick sleeps only while nothing is ready (`NoMissedPick`), no dangling selector (`NoDanglingSelector`); a send returns (`SendReturns`), a receiver asleep on a closed channel returns (`ClosedReceiverReturns`), a pick returns after one of its channels became ready (`ReadyPickReturns`) |

The model also shows, without a run of its own, that a pick whose element is
taken by someone else between `unregister_all` and the second scan returns
nothing and selects no handler (`RescanSkip`, `RescanEnd`).

Bounds: the number of values bounds successful sends; everything else loops for
ever. Two values are enough for a list with a first and a last element and an
emptied list; three threads for a sender, a sleeper and one that overtakes it;
two channels for a half-way registration. Threads are symmetric in the safety
run; no symmetry is used where liveness is checked.

Fairness: a thread inside a call takes steps (the operating system schedules
it), and a mutex that becomes free again and again is in the end granted to a
thread that keeps asking for it: strong fairness of `Inside(t)`. Calls, time-outs
and spurious wake-ups have no fairness. Deadlock is not checked in these runs
because a program may leave every thread asleep on an empty channel.

### Proofs

`ChannelProofs` proves, from `ChannelAssumption` only and for any number of
threads, channels and values:

* `TypeCorrect`: `Spec => []TypeOK`. The inductive invariant `TInv` adds that a
  thread inside an operation names a channel (a sender also an element), and
  that the sleepers of a condition variable wait on that channel; without the
  latter, the wake-up step could send a thread into a receive of no channel.
* `Fifo`: `Spec => []ListOK`. `ListOK` is not inductive: that linking an element
  keeps every other list needs to know that no element is accepted twice
  (`SentOnce`) and that a blocked sender's element is in no list and carried by
  nobody else (`Carried`). Lemmas `EnqueueList` and `DequeueList` do the pointer
  reasoning once; every action then either uses one of them or leaves the lists
  alone (`KeepL`).

* `ReferencesExact`: `Spec => []RefsExact`. An element has a registry reference
  exactly if it is queued, which is a matter of the two histories (`Queued`), or
  in the hands of a sender on its way to the mutex (`InHand`). That the linked
  elements are the queued ones follows from `ListOK`: lemmas `WalkExists` and
  `ContentsWaiting` walk the pointers from the head.
* `WakeupsSuffice`: `Spec => []NoLostWakeup`, by counting. While somebody sleeps
  on a condition variable, the channel is open and has at most as many values as
  there are threads awake on their way to take one (`WOf`): a send adds one value
  and wakes one sleeper, and a receiver that goes back to sleep has found none.
* `ChannelsImplementFifo`: `Spec => Implements`. Each step is a step of
  `AbstractChannel` or leaves its variables alone.

Of `thread.pick` it proves, from the same assumptions:

* `NothingMissed`: `Spec => []NoMissedPick`. While a pick is between its first
  scan and its sleep, each case it has passed lists its selector, and if the
  channel has become ready since, the flag is set or a notifier that still holds
  the channel's mutex has the selector on its list (`Watched`). `MutexHeld` says
  who holds which mutex, and `Addressees` that whoever is to be notified is
  listed: without it a notification could be for a selector that is gone.
* `NoDangling`: `Spec => []NoDanglingSelector`. `listeners[c][t]` is at no time
  more than the number of cases of `t` on `c` that are registered and that
  `unregister_all` has still to come to (`Registrations`), so that none is left
  when `thread.pick` returns.

`FiniteAssumption` of `Channel` says that there are finitely many threads, of
which a process has no more than its operating system grants, and that a run
sends finitely many elements; the walk over a list and the counts need it. The
liveness properties are only model-checked.

## 4. Registry references

`RegistryRef.tla` takes `luaL_ref` and `luaL_unref` apart into the API calls
they make (`core/lauxlib.c:707-760`); each call takes and releases the state
lock and is one action. `lua_rawlen` takes no lock and is one action too. The
registry's array is a sequence, with the two predefined values in front as
`init_registry` leaves them. Values are distinct model values and are never
numbers, because only tables, functions, strings and threads are anchored by the
code of the runtime; `live` is the set of references handed out.

| run | instance | what it shows |
|---|---|---|
| `registry_overlap` | 2 threads, 2 values | **finding**: both threads read the same length (or the same head of the free list) before either writes, both are given the same reference, and one value replaces the other: `Holds` fails |

`Holds` says that a live reference designates the value it was made for, which
`thread.create` relies on to keep the state of a thread (`lthreadlib.c:148`), and
channels to keep what is sent. Nothing in the code keeps two threads out of
`luaL_ref` (`core/lauxlib.c:724` reads the length without any lock): two senders,
or a sender and a creator of a thread, meet there.
`Serial` is the negation of that: at most one thread is between the first and
the last API call. The proofs below are about the behaviours of any number of
threads in which it always holds. `Channel`, `ThreadLife` and everything else that
anchors a value treat a reference as exact, so that what is proved about them
holds for as long as calls do not overlap.

The model also has what `RefInit` does to the predefined values: the header of
the free list is entry 1, where `init_registry` put the main thread, although the
comment at `core/lauxlib.c:696` puts the header after the predefined values.

### Proofs

`RegistryProofs` proves `ReferencesHold`, `Spec /\ []Serial => []Holds`, for any
number of threads and values, from `RegistryAssumption`. The hypothesis is about
behaviours, not about the number of threads: any thread may make the next call,
and what is proved also holds in the middle of calls. `Holds` speaks of live
references only and is not inductive: a released index must never be a live one. The inductive invariant
`HInv` therefore describes the free list without walking it: every pointer
leads to an entry that is itself a pointer, behind the predefined values
(`PointsToFree`), no two pointers lead to the same entry (`Injective`), and the
entry that a call has taken out of the list, or not yet put back, is one to
which no pointer leads (`Hidden`, `NotHidden`); `Local` is what a thread knows
between two API calls, which is what an overlapping call would destroy. There is
a lemma per action.
`NoEntryLost`: `Spec /\ []Serial => []FreeListExact`. `FInv` adds
that the list is a sequence: there is a `q` without repetitions that has every free
entry, in which each points to the next; the header points to the first one, and
the last one ends the list (`Listed`); and that every entry is on the
list, live, or the one a running call is about to link (`Covered`). Taking the
first entry shortens `q`, linking one lengthens it. The walk of `FreeListExact`
is a recursive function, for which induction over a set of numbers gives its
value at each place.

`RegistryTypes` has no hypothesis about threads: however calls overlap, types are
kept, and the index a call is about to read or write is an entry of the array or
the one behind its end (`InArray`). Since the array never shrinks, an index that
was read earlier is still inside (`Inside`). What overlapping calls spoil is
which reference designates which value, never the table.

## 5. Thread lifecycle

`ThreadLife.tla` follows one record per worker: the native thread (`os`), how
often it was joined or detached (`reclaims`), the Lua state and its anchor, the
handle userdata and its fields `L_thread`, `joined`, `detached`. C functions run
without the state lock and no other lock guards a handle, so a method is taken
apart into its statements, and the statements of all threads interleave:

| method | actions |
|---|---|
| `join` (188-218) | the three tests (`JoinCheck`), the native call (`JoinCall`), its return with `joined = 1` (`JoinReturn`; `JoinSelf` in the thread itself, where it fails at once), the results (`JoinMove`), `luaL_unref` (`Unref`), `L_thread = NULL` (`Clear`) |
| `detach` (376-390) | the three tests (`DetachCheck`), the native call (`DetachCall`), `Unref`, `Clear`, `detached = 1` (`Flag`) |

The native library is modelled by its contract: one join or detach; behaviour
after a second one is open (the join may return at once). `JoinMove` reads the
state through `L_thread`; where another method has cleared it the process
crashes, and the model has no step. `Collect` is `thread_gc`, one step because it
runs only when neither a variable nor a running method refers to the object;
`CollectState` is the collector freeing a state that nothing anchors. `Actors` are
the callers and the workers, since a worker may use its own handle.

The code keeps its promises only for programs that use a handle with care. The
constant `Orderly` names the workers that are used so: one caller, `Owner[w]`,
creates the thread and calls the methods of its handle, the thread's own
function does not use it, and its creation finds memory and a native thread. Of
all other workers nothing is assumed: any caller may call any method at any
time, `thread.self` hands the handle to the thread itself, creation may fail.

All properties are about orderly workers. Of the others the model shows, without
runs of their own, that no such property holds, and why:

* two callers that join one handle both pass the tests and join the native thread
  twice, or the second `join` returns before the thread has ended;
* a join and a detach of two callers both pass the tests: `joined` and `detached`
  are both set, the anchor is released twice, and if the detach clears `L_thread`
  between 198 and 201 the join reads through NULL. `lthreadlib.c:368` says "A
  detached thread cannot be joined";
* the state of a detached thread is anchored by nothing and can be collected
  while it runs;
* a thread may join itself and counts as joined while it runs (`JoinSelf`);
* the finaliser of a handle that `thread.self` made inside `createx` detaches the
  thread that `createx` joins;
* the finaliser of a handle whose creation failed releases the anchor again
  (`CreateFails`).

| run | instance | what it shows |
|---|---|---|
| `life` | 2 callers, 1 orderly worker of one of them, 1 worker that everybody, itself included, uses in every way | of the orderly one: between calls its flags, its state pointer and its anchor agree (`FlagsAgree`), its results are there when join comes to move them (`ResultsThere`), it is reclaimed at most once (`NativeOnce`) and unanchored at most once (`AnchorOnce`), nothing of it leaks (`NoLeak`), join waits (`JoinWaits`) and answers (`JoinAnswers`) |

A worker is created once, which bounds everything; the second worker shows that
disorder does not spread. Fairness: weak fairness of an actor inside a method
(`Inside`): a scheduled thread whose native join can return does return. Nothing
is assumed about when workers finish or the collector runs. Deadlock is not
checked: a program may wait for a thread that never ends.

### Proofs

`LifeProofs` proves, from `LifeAssumption`, for any number of callers and workers
and any set of orderly workers among them, whose fellows are in arbitrary states:

* `OrderlyLife`: `Spec => [](NativeOnce /\ AnchorOnce /\ NoLeak /\ JoinWaits)`. The
  counters of native and registry releases are tied to the flags and to the
  statement at which the one actor inside a method is: nobody but the owner is
  ever inside one (`Owned`), and a method past its tests still finds the fields
  as the tests did, but for what it has itself done since — the facts that a
  second caller would break.
* `FlagsConsistent`: `Spec => []FlagsAgree`, and `ResultsKept`:
  `Spec => []ResultsThere`, from the same invariant. Neither is claimed of handles
  that two threads use, of which both are false.

`AnchorReleasedOnce`, `NothingLeaks` and `JoinedHasEnded` state the parts of
`OrderlyLife` one by one; `LifeTypes` is `Spec => []TypeOK`, for all workers.
`JoinAnswers` is liveness and is only model-checked.

## 6. Shared tables and the state lock

`SharedTable.tla` has one table used as a list, the native reader-writer lock
(`writer`, `readers`), the two fields with which `l_rwlock_t` adds recursion for
its writer (`wid`, `wrec`), and the owner of the state lock. An access is three
steps: the state lock (`EnterState`), the table's lock (`LockTable`), and the
effect together with both releases (`Get`, `Set`, `Mark`, `RawGet`, `RawSet`).
The releases can be one step with the effect, because a release never blocks and
makes no test of anybody else's fail. `table.insert` and `table.remove` take the
table's lock first, without the state lock, and then make their accesses; the
writer's own accesses go one level deeper into the lock.

The flag `is_shared` decides whether the interpreter and `lua_locktable` lock at
all; `lua_rawgeti`, `lua_rawseti` and the collector always do. A program shares
a table before it gives it away; `table.share` on a table that another thread is
using at that moment is a hazard of the list and not in the model. The state
lock is recursive in the code; every nested use is one level here, because the
inner one is released where it was taken. Metatables and namespaces are left
out. `before` is a history variable, the list at the start of the running
insert or remove.

| run | instance | what it shows |
|---|---|---|
| `table_atomic` | 3 threads, 2 values, 3 entries | insert, remove and assignment are atomic (`Implements`: the model refines `AtomicTable` with the list that was there before a running insert or remove), nobody sees half of one (`WholeListSeen`), nested locks are released exactly once (`LocksBalanced`) |
| `table_cycle` | 2 threads | **finding**: a thread inside insert holds the table and waits for the state lock, its owner waits for the table |

Three entries make the loops turn twice; three threads give a writer, a reader
inside and a thread that waits. Because of the finding some behaviours end in
the cycle; the safety properties are about everything before it, and every
action occurs (deadlock is therefore not checked, and there is no liveness
property of tables).

### Proofs

`TableProofs` proves, from `TableAssumption` only, for any number of threads,
which include the creator, any values and any number of entries:

* `LocksHonest`: `Spec => []LocksBalanced`, and `NoHalfDoneList`:
  `Spec => []WholeListSeen`, from the invariant `SInv` of the locks. A thread has
  the table's lock as often as its position says (`Level`): once for an insert or
  remove under way, once more for an access. `Levels` says that the native lock
  and the fields `wid` and `wrec` agree with that count, and that a writer
  excludes everybody else. `Phases` ties the state lock to accesses, and `Reach`
  says that before the table is shared its creator is alone: until then nobody
  locks, and the lock must be found free when sharing begins.
* `OperationsAtomic`: `Spec => Implements`, and `TablesTyped`:
  `Spec => []TypeOK`. `DInv` says what an insert or remove has done so far to the
  list `before` it found: the entries from `i` on have moved up (`Shifted`) or
  those from the position to `i` have moved down (`Collapsed`), and the next
  action finishes that. `Is` says that the array is a list without holes
  whenever nobody is in the middle of one. `Fits` counts the operations that will
  still add an entry, so that each finds room.

The length of the table is that of the list where it has no holes, and any
border otherwise, as the manual promises and `luaH_getn` delivers; the theorems
therefore do not rest on how the code searches for a border. That there are
finitely many threads is part of `TableAssumption`.

## 7. Timers and the event loop

### Model and code

`TimerHeap.tla` is the array of timers. An operation of `timer_lock`
(`ev_timer_start`, `ev_timer_again`, `ev_timer_stop_by_id`, the removal at the top
of `ev_loop_iterate`) changes the array and leaves in `todo` the sifts it still
has to make; `SiftUp` and `SiftDown` are one turn of the loops of
`timer_heap_up` and `timer_heap_down` each, and the lock is free when `todo` is
empty. Ids need not be unique, because `laio.c` never gives its timers one.

`EventLoop.tla` is the rest: the ring of tasks with its two positions, the worker
pool with its list and condition variable, and the loop's thread as a stack
`frames` of active `ev_loop_iterate` calls. A callback may wait for a promise
(`promise_await_sync`), which iterates the same loop inside the callback, or call
`ev_loop_run` again once the loop was stopped. Callbacks are two steps (entered,
returned); in between, and from any other thread, tasks are posted, timers
started and stopped, the loop stopped. `now` is the time at which an iteration
began, `start_time` is `base`. With `pool = FALSE` (`EV_CONFIG_NO_THREADS`)
`ev_run_in_pool` does the work in the caller. `lost` is a history of completions
that a full ring refused (`leventloop.c:259` does not look at the result) and of
items that `ev_loop_destroy` drops.

| run | instance | what it shows |
|---|---|---|
| `timer_heap` | 6 entries, 2 ids, 4 due times | whenever the lock is free the array is a heap (`HeapOrdered`); seen through `TimerBag`, exactly the right entry is added, removed or moved, and the loop takes one that is due first (`Implements`) |
| `event_loop` | 2 tasks, one of them urgent, and 1 pool item, 2 workers or none, 2 slots, 1 repeating timer, awaits nested once, clock up to 2 | the ring is the queue `TaskQueue`: each accepted task runs once, after the tasks of its class that were accepted before it (`Implements`); a pool item is in exactly one place (`OnePlace`); no timer is early (`NotEarly`); if the loop goes on iterating, what was accepted runs (`AcceptedRuns`) and timers fire (`TimerFires`); destroy returns (`DestroyReturns`) |
| `loop_stop` | 1 task, 1 worker, no timer | **finding**: `ev_loop_stop` during an I/O wait without a time-out: `ev_loop_run` never returns |

Six entries are three levels of the heap, the last one incomplete: an entry
removed in one subtree may be replaced by a smaller one of another, which has to
go up (`StopDownOnly` is the mutant). Three tasks wrap around a ring of two slots;
two workers are one that sleeps and one that works; a depth of two is a callback
inside an iteration inside a callback. The clock bound gives a timer that fires,
fires again, and one that is started while time goes on.

Fairness is weak fairness of each worker, of the loop's thread (callbacks return,
`poll` returns at its time-out), of the end of destroy and of the clock. Whoever
posts, starts or stops is free not to. `AcceptedRuns` and `TimerFires` assume
that somebody keeps iterating (`[]<>` of an iteration), because a program may
just not drive its loop, and because `loop_stop` shows that it may sleep for ever.
Deadlock is not checked: a program may be done.

Known limits of the code that the instances are built around, each of which
TLC shows as soon as it is switched on or is plain from the source:

* `ev_loop_run` inside the callback of an await sets `start_time` to the present
  (`leventloop.c:682`) and timers of the outer iteration are early; hence
  `Nested = {"await"}`. Timers started before `ev_loop_run` fire late for the
  same reason, which `TimerFires` excepts.
* A timer with a period is out of the heap while its callback runs; a callback
  that stops it finds nothing to stop, is told so (`-1`), and the timer is armed
  again (`leventloop.c:756`).
* A task has a priority and a schedule time (`Class` in the model).
  `leventloop.h:117`, `122-123` and `173` describe delayed execution, a smaller
  number that goes first, and a queue that is "FIFO + 优先级" (FIFO and priority).
  The code stores both fields and reads neither: an urgent task waits for all that
  were accepted before it, and a delayed one runs at once. The header and the
  code disagree, and `Implements` takes no side: `TaskQueue` orders tasks of equal
  priority and time only, and an `EventLoop` that obeyed the priorities would
  refine it as well as this one, which does not. There is no run for the
  disagreement.
* A completion is lost when the ring is full; `OnePlace` and `AcceptedRuns` except
  `lost`, so that neither says anything against it.
* A repeating timer that finds the heap full when it is put back
  (`leventloop.c:759`) is gone. The heap of `EventLoop` is never full.

### Proofs

`HeapProofs` proves `HeapStays`, `Spec => []HeapOrdered`, and `HeapTypes`,
`Spec => []TypeOK` of `TimerHeap`, from `HeapAssumption` only: for any capacity,
any ids, unique or not, and any times. `HeapOrdered` speaks of moments when the
lock is free. The inductive invariant `HInv` says what is in order in between:
everything `Around` the entry at `j` that is being moved, and the children of `j`
with the parent of `j` (`Across`), so that `j` can be exchanged with either. On its
way up the entry is also in order with its children (`Below`), on its way down
with its parent (`Above`). `ev_timer_stop_by_id` and `ev_timer_again` make two
sifts from the same position without looking which is needed; `SinkingFirst`
and `RisingFirst` say that if the first one moved anything, the second one finds
everything in order. Lemmas `Sink` and `Rise` are one exchange each, `Removed`
is the replacement of an entry by the last one. That the top of a heap is an
earliest entry is an induction over the array and stays with TLC (`Implements`).

`LoopProofs` proves, from `LoopAssumption`, for any ring, pool and number of
timers and nested iterations:

* `TasksInOrder`: `Spec => Implements`, for any classes. The slots from `front` on,
  around the end of the array, are the queue (`RingList`, `PushAppends`,
  `PopTakesFirst`); the task at the front has nobody in front of it (`FirstRemoved`).
* `OneEverywhere`: `Spec => []OnePlace`. What was accepted is the disjoint union
  of what is in the list of the pool, in the hands of a worker, in the ring,
  begun, done in the caller, and lost (`Parts`); no two workers have the same item, and
  neither the list nor the ring has one twice (`Placed`).
* `LoopTyped`: `Spec => []TypeOK`, where a frame has a timer exactly while it is in
  a callback of one (`Proper`).
* `TimersNotEarly`: `Spec => NotEarly`, unless callbacks run the loop again
  (`"run" \notin Nested`), which the first of the known limits above is about. `EInv`
  says that the heap holds a timer once (`Single`), with a due time that is not
  before `ripe` (`Waiting`), that the time an iteration works with has passed
  (`Past`), and that a timer that repeats is out of the heap, due, and in one frame
  only while its callback runs (`Calling`), because it is armed again from the
  time of that frame.

`NoTask` is no task, item or timer: it stands for NULL. `AcceptedRuns` and
`TimerFires` are liveness and are only model-checked.


## 8. Promises and coroutines

`Promise.tla` has the promise record (state, reference count, reactions,
the one continuation slot `aco_ctx`), what Lua holds (`held`), what a timer, a
task or a pool item will settle (`owed`), the context of each coroutine, and the
context of each combination, named by the promise it will settle.

Settling a promise runs Lua code in the middle of C functions: `trigger_reactions`
calls handlers, `on_settled` resumes coroutines or ends combinations, and that
code may do anything with any promise. The active C functions are therefore
frames of `stack`; the innermost one takes the next step (`Native`), or, if it is
running Lua code (`InLua`), the program does: create, chain, cancel, combine,
await, return, or iterate the event loop so that another promise settles
(`Complete`). Each operation keeps the order of the code: which reference is
taken before what is called, when the list of reactions is detached
(`lpromise.c:334`), when continuations are cleared and inputs released
(`lpromise.c:819-833`).

| run | instance | what it shows |
|---|---|---|
| `promise` | 3 promises, 1 coroutine, all four combinators, lists of one or two inputs (`MaxInputs`) | nothing is used after it was freed (`Alive`); no settled promise keeps a reaction (`NoReactionLeft`); a sleeping coroutine is registered with a promise that is not settled (`SleeperRegistered`); a combination says what its inputs say (`CombinationAnswers`); a child whose reaction is for the state of its promise is settled as handler and promise say, and no child gets ahead of its promise (`ChildFollows`) |

Promises are allocated once each, which bounds everything: three are two inputs
and their combination, or a chain of three. The run is for programs that have at
most one waiter per promise (`Shared = FALSE`) and keep a promise that a
coroutine that has not ended or a combination whose context lives will settle
(`Forgetful = FALSE`), because the code is only right for those:

* with `Shared = TRUE` a second waiter takes the single slot
  (`laio.c:1139-1142`), and the first sleeps for ever;
* a promise has its waiter until the waiter is told, not only until it is
  settled: reactions run before the continuation is called
  (`lpromise.c:171-180`), and a handler of a reaction that waits for the same
  promise takes the slot from who is still to be told (`Free` excludes it, with
  `Due`). Two cases need four promises and are therefore beyond the bound of the
  run; they came out when the theorems below were tried with a weaker `Free`, and
  TLC confirmed them with four promises. (1) A coroutine sleeps for `p`; a
  handler of `p` combines `p`, which is settled, with a pending promise, settles
  that one, and the end of the combination clears the continuations of all its
  inputs, `p` included (`lpromise.c:819-833`): the coroutine is never resumed.
  (2) `p` is the input of a combination; a coroutine that a handler of `p` starts
  awaits `p` with the keyword, which finds it settled and clears the slot
  (`laio.c:901-925`): the combination never counts `p` and stays pending;
* with `Forgetful = TRUE` the pointers `result_p` and `parent` are not counted as
  references, and the collector frees the promise that they name. For a
  combination that is so until its context is gone, also when its result was
  cancelled and is settled: `compose_on_settled` looks at its state first
  (`lpromise.c:717`). `Promised` is exactly that.

No fairness and no deadlock check: what settles a promise is the program's
business. The properties say instead what must hold whenever all functions have
returned.

`then` on a promise that is rejected, and `catch` on one that is fulfilled, leave
their child pending for ever (`lpromise.c:351-416`), while `lpromise.c:4` and
`lpromise.h:108-112` claim the whole of Promise/A+ with its chains, in which such
a child takes over the state. The model does what the code does; `ChildFollows`
takes no side: it says of such a child only that it is pending or has the state
of its promise, and would hold of a repaired program. There is no run for the
disagreement.

Read in the code and not given a run: `all` and
`allSettled` made of settled promises keep a reference of each, other
combinations an extra one of inputs that were pending; a coroutine that ends
normally keeps the last promise it waited for; the function `wait` retains
twice; an input named twice is counted once and the combination never completes;
`withTimeout` does not retain its timer's promise; `finally` pops a result that
its `pcall` did not leave; `retry` suspends with a continuation that is NULL
(`laio.c:1915`); all timers of `laio.c` have the id 0, so that stopping one may
stop another; an interval with a number of times frees its context and is armed
again (`laio.c:615-635`); `sleep` ignores that its timer was refused
(`laio.c:575`).

### Proofs

`PromiseProofs` is about any number of promises and coroutines, stacks of any
depth and combinations of any number of inputs.

* `NothingLeft` is `NoReactionLeft`, for all programs. `Base` carries it: only
  pending promises have reactions (`Detached`), although settling, chaining and
  cancelling happen inside reactions that run. It comes with the shape of the
  stack (`Good`): a coroutine runs once, a promise tells its continuation once, a
  combination ends once (`Once`), and reactions run and continuations are told
  for settled promises only (`Late`). `Steps` sorts the actions: most of them
  (`Plain`) change neither a continuation nor a coroutine nor a combination, and
  what each of the others does is a lemma (`CombineEffect`, `NotifyEffect`,
  `EndEffect`, `AwaitEffect`, ...), used by all later invariants.
* `SleepersRegistered` is `SleeperRegistered`, for programs with one waiter per
  promise (`~Shared`). `Exclusive` is inductive: a sleeping coroutine is the
  continuation of what it waits for, which is pending or about to tell it
  (`Resting`); a combination that waits is the continuation of its pending inputs,
  and of its other inputs no coroutine is still to be told (`Bound`). The last
  part is why the end of a combination may clear the slots of all its inputs.
* `CombinationsAnswer` is `CombinationAnswers`, for programs with one waiter per
  promise. Its invariant `Counts` says what a combination has been told of
  (`ToldOf`: its settled inputs but those that have it as the continuation still
  to be called), that it has counted exactly those, none of which decides it
  (`Waits`), and that one which is done is right (`Right`). It rests on `Wired`
  (who is the continuation of a promise has it as an input) and on `Apart`: no
  reaction, event or coroutine settles the promise of a combination. `Weights`
  does the counting, for lists of any length, with the theorems about
  cardinalities; `Least` finds the first settled input of a race.

* `PromisesAlive` is `Alive`, for programs that keep what a coroutine that has not
  ended or a combination whose context lives will settle (`~Forgetful`), with finitely many promises and
  coroutines, so that there is something to count. A promise is freed when its
  count says that nobody holds it, so that the invariant, `Cared`, counts:
  * `Balanced`: `refs` is at least what the places need that will release the
    promise one day: Lua, an event, a frame that releases it, a reaction (in the
    list of its promise, or in a frame that runs the list) whose child it is, a
    coroutine that waits for it, a combination that has it as an input. It is an
    inequality because the code keeps references that nobody gives back (see
    above). What is freed or not yet made counts nothing, so nothing refers to
    it (`Counted`). `Total` counts occurrences in families of lists; a step that
    changes one list changes the total by what that list gains (`GridChange`);
  * `Standing`: an active function that has no reference of its own runs inside
    one that has: the promise whose reactions or continuation run is in a frame
    further out, which releases it, or was called with it, or will end it, and the
    child of a running handler is in the `Release` that was pushed under it;
  * `Guarded`: Lua holds what a coroutine or a combination will settle, which is
    where `~Forgetful` is used; `Lasts`: a combination's context outlives its end.
* `ChildrenFollow` is `ChildFollows`, under the same hypotheses: a promise that is
  freed while it is pending is never settled, and the children of its reactions
  stay pending for good.
  A link is a reaction that can still run, in the list of a promise or in a frame
  (`Links`); `SettleLinks` says that settling moves links from one to the other
  and loses none. `Follows` says that children have one parent (`Single`) and are
  settled by nobody else (`Alone`), that a handler runs only for a state its
  reaction is for (`Placed`), that a child is settled as its parent says
  (`Rightly`), and that one that is not is linked, or its parent was settled in
  another way or was given back pending (`Awaited`). When all functions have
  returned there are no links but those of pending promises (`QuietLinks`).
* `StatesStay`: no step changes the state of a promise that is settled, or whose
  memory was given back; the second half is what `Awaited` needs of `Cared`.
* `TypeCorrect`: `Spec => []TypeOK`, with finitely many promises and coroutines.
  What is not obvious of it is that no count of references falls below zero,
  which `Balanced` gives, and that a combination counts no more inputs than it
  has (`Tallied`): one that is not decided at once has counted fewer
  (`CountedLess`), and one that its next input does not decide still has
  (`DecisionWaits`).

`~Shared` and `~Forgetful` are hypotheses of the run as well; `NothingLeft` and
`TypeCorrect` need neither, `PromisesAlive`, `ChildrenFollow` and `StatesStay` do
not need `~Shared`.

## 9. The garbage collector

`Collector.tla` alternates single steps of the collector (`SingleStep`) with a
program that makes objects, loads and stores (`Program`). An object holds
entries, pairs of a key and a value; fields of closures, threads, metatables and
the like are entries with the key `none`. `Barrier` says which of the barriers
of `lgc.c` each kind of container uses, `Shade` what it does. The object lists
are sequences, because the sweep walks them through `sweepgc`, the address of a
pointer, and `luaC_checkfinalizer` takes objects out of them during a sweep; the
gray lists are sets, so that tables are visited in every order. The two whites,
which change places in every cycle, are named by what they mean: `white` and
`dead`. `atomic()` is not interrupted by the program, but is taken apart into
the order in which it marks, converges, clears and separates (`stage`).

| run | instance | what it shows |
|---|---|---|
| `collector` | the main thread and 3 objects of 7 kinds (table, closure, thread, string, weak values, ephemeron, all weak), 2 entries | the main invariant (`BlackNeverWhite`) and its second half (`GrayListed`); nothing that can be reached is freed (`NoDangling`); a cycle frees everything that was out of reach when it began, weak tables and finalizers included (`CycleCollects`); finalizers get unreachable objects (`FinalizesUnreachable`); weak tables lose only entries they should (`WeakKept`) |
| `collector_map` | the main thread and 2 objects, maps included | **finding**: `luaM_setval` has no barrier for a key that exists already (`lmap.c:277`), so that a black map refers to a white object |

`Reachable` is the reference definition the collector is compared with: plain
reachability, where the value in an ephemeron table counts if its key is reached.
`doomed` is a history variable, what was out of reach when the cycle began.

Bounds: `MaxEntries` bounds the entries of all objects but the main thread's
stack. Keys that are collectable are used in ephemeron tables only (`Keyed`); in
other tables the collector treats a key as it treats a value. With a third
object (`Busy`) the program runs between cycles only and all objects are
ephemeron tables (`Crowd`), which is what convergence needs: a chain of two
tables in the wrong order. One object is swept per step, where the code sweeps
`GCSWEEPMAX`; any larger step is a sequence of these without the program in
between. An ephemeron table is visited with the worst order of its own entries.
A full collection may begin at any point of a cycle. Objects are symmetric. There
is no liveness: that a cycle goes on depends on the program allocating, which is
pacing and not modelled.

### Proofs

`CollectorProofs` proves all six properties of the run, from
`CollectorAssumption`, for any finite set of objects, any number of entries and
any set of kinds without maps (`"map" \notin Kinds`, without which
`BlackNeverWhite` is false: that is the finding). The hypothesis is used in one
place, `StoreShades`: a store that leaves its container black was shaded.

* `BlackObjectsSafe` and `GrayObjectsListed`: `BlackNeverWhite`, `GrayListed`.
* `NothingDangles` and `CyclesCollect`: `NoDangling`, `CycleCollects`.
* `FinalizedUnreachable` and `WeakEntriesKept`: the action properties
  `FinalizesUnreachable` and `WeakKept`.

They follow from one inductive invariant, `IInv` (theorem `Inductive`). None of
its parts is inductive alone:

| part | what it says |
|---|---|
| `TInv` | types; each object is once in one of the three lists; the sweep is in the list that the state names |
| `AliveInv` | what a live object holds is live, through weak references too |
| `SweptInv` | outside marking, whatever is not white is still in front of the sweep |
| `BlackInv` | a black object holds marked objects only, in weak fields too, and tables that may hold others are never black |
| `GrayInv`, `EarlyInv` | the gray lists have all gray objects and marked ones only; before `atomic` there are no tables in `weak` or `ephemeron` |
| `TableInv` | what is known in `atomic` of the tables of each list: of one in `weak` the keys are marked, of an ephemeron table in `allweak` the values, of one that was listed before the separation all values |
| `RoundInv` | a round of `convergeephemerons` that has changed nothing leaves no unmarked value under a marked key |
| `DoomInv` | what was out of reach when the cycle began is not marked, nothing else refers to it, and it is dead when marking is over |

`SweptInv` is what makes the sweep correct: an object in front of the sweep may
be dead, one behind it may not, and `luaC_checkfinalizer`, which takes an object
out of the list that is being swept, must keep every other object on its side.
The lists are sequences, and the section on them proves that taking members out
(`WithoutIs`), the separation (`SeparateIs`) and the steps of the sweep
(`SweepToLiveIs`, `SweepOneIs`) repeat no object, lose none and keep the order
behind an address. `MarkingI`, `LinkI`, `PushI` and `SweepI` each do the common
part of several actions; every action has a lemma.

The link to the reference definition is `ReachableIn`: `Reachable` never leaves a
set that is closed under what it follows. Live objects are such a set, and when
convergence has ended so are the marked ones (`ConvergedMarks`). For `doomed` the
opposite is needed: `Closure` is closed after as many rounds as there are objects
(`RoundsEnd`), since every round that is not the last adds one.

`CollectorTypes` is `Spec => []TypeOK`, which adds three things to `TInv`
(`RestInv`). The entries never exceed `MaxEntries`: only a store of a new key adds
one, a store to an old one replaces it (`StoreHolds`), and every other step takes
some away or none (`Sparing`). The three lists together are as long as there are
allocated objects (`ListsType`). And nothing in `gray` is free, although a full
collection that starts in the middle of marking leaves the list as it is and
sweeps: what it sweeps then is not dead, and `gray` is empty when objects die
(`Gentle`).

## 10. What is not modelled

`PROJECT.json` lists every component with its status and the reason. Of the
modelled ones, these parts are left out:

* channels: what a handler of `pick` does, a case table that the program
  changes while `pick` sleeps (`lthreadlib.c:817` reads it again), and the API calls
  inside `luaL_ref` (section 4 has them, without the channels);
* threads: the write of `has_error` through a handle that may have been collected
  (`lthreadlib.c:89`), and a handle that `thread.self` makes after the first one was
  collected;
* shared tables: metatables, whose `__len` is called with the table locked
  (`ltablib.c:197`), and `table.share` on a table in use;
* event loop: I/O watchers, statistics, the back ends of the wait; the failures of
  `ev_loop_new`, which ignores that a thread of the pool could not be made (611)
  and later joins what is not a thread; a full heap (759); the cut of the wait to
  milliseconds (400), signals that end it early, and the error path of
  `ev_loop_run` (686-689). The due time is tested again after every wait, so that
  an early end of it makes no timer early;
* promises and async functions: values of results, `sleep`, `setInterval`,
  `withTimeout`, `retry`, `eachSeries` as operations of their own (a coroutine of
  the model awaits promises that something settles, which is what they are made
  of); promises that are settled when they are made (`sleep(0)`) or whose timer was
  refused (`laio.c:575`); combinations of no input, of one named twice and of values
  that are no promise; the value that `finally` pops too much (`lpromise.c:411`); the
  lifetime of the Lua state a coroutine was started from; a coroutine that yields
  what is not a promise;
* collector: structs and superstructs (marked black at once, without barriers),
  userdata, generational mode, emergency collections, open upvalues, the string
  cache, dead keys, pacing, and the other threads of the operating system that
  enter the heap through the state lock.

Left out altogether: the parser, code generator, lexer, interpreter and the
just-in-time compiler, the obfuscator, the LSP server and the WebAssembly
compiler are sequential transformations of data whose specification would be the
language's; the Java bridge, the editor widget, the signer and the vendored
libraries (SQLite, QuickJS, PCRE2, yyjson, most of the lines of the repository)
are third-party code or bindings. The MCP transports, the plugin system and the
editor model are Kotlin coroutines around Android services; what is concurrent
in the transports was read (two calls of `startSseSession` at once leak a stream,
a failed DELETE in `close` skips the cleanup, the scope is cancelled once for all)
and would be the next component to model.

The theorems of sections 3 to 9 hold for every value of the constants, with the hypotheses named
there, everything else for the instances of the tables above. Liveness under fairness and `ENABLED`
are out of the proof system's reach and stay with TLC. So is induction with a
predicate as parameter; where a theorem needs induction over numbers, it is over
the set of numbers for which the fact holds (`SetInduction`).
