------------------------------ MODULE EventLoop ------------------------------
(***************************************************************************)
(* The event loop of leventloop.c: ring of tasks, timers, worker pool, and *)
(* the thread that runs the loop.                                          *)
(*                                                                         *)
(* The loop's thread is a stack of frames, one per ev_loop_iterate that is *)
(* active: a callback may wait for a promise (promise_await_sync), which   *)
(* iterates the same loop again inside the callback.  Frames are driven by *)
(* ev_loop_run (which blocks in the poll) or by an await (which does not). *)
(*                                                                         *)
(* Timers are a set here; TimerHeap shows that the heap is one.            *)
(***************************************************************************)
EXTENDS Integers, Sequences, FiniteSets, SequencesExt

CONSTANTS
  Posts,        \* tasks a program posts itself, each once
  Items,        \* work for the pool; its completion is a task, too
  Class,        \* Class[t]: the priority and the schedule time of a task, which
                \* are stored with it and which nothing reads
  Workers,      \* threads of the pool
  Capacity,     \* config.task_queue_size
  Timers,       \* timer objects, with an id of their own
  Delay,        \* Delay[m]: time-out a timer is started with
  Repeat,       \* Repeat[m]: its period, 0 if it fires once
  Drivers,      \* how the program drives the loop: subset of {"run", "await"}
  Nested,       \* how callbacks may drive the loop again: subset of Drivers
  MaxDepth,     \* bound of nested iterations
  MaxClock      \* bound of the clock

NoTask == "none"

ASSUME LoopAssumption ==
  /\ Capacity \in Nat \ {0}
  /\ NoTask \notin Posts \cup Items \cup Timers
  /\ Delay \in [Timers -> Nat] /\ Repeat \in [Timers -> Nat]
  /\ Posts \cap Items = {}
  /\ Drivers \subseteq {"run", "await"}
  /\ Nested \subseteq Drivers /\ MaxClock \in Nat /\ MaxDepth \in Nat \ {0}

ASSUME ClassAssumption == Class \in [Posts \cup Items -> Nat]

VARIABLES
  ring, front, rear, tasks,   \* task_queue, task_front, task_rear, task_count
  timers,       \* entries of the timer heap, [timer, due]
  state,        \* loop->state
  base,         \* start_time
  clock,        \* ev_monotonic_time()
  frames,       \* active iterations on the loop's thread, innermost last
  work,         \* pool_work_head: items that wait for a worker
  pool,         \* pool_running
  pc, hand,     \* what each worker does, and the item it holds
  life,         \* of the loop: "open", "closing" in ev_loop_destroy, "freed"
  posted,       \* history: what was handed to ev_post_task or ev_run_in_pool
  started,      \* history: tasks whose callback was entered
  inline,       \* history: items done by the caller, without a pool
  lost,         \* history: completions refused by a full ring, items destroyed
  ripe          \* history: clock at which a timer may fire at the earliest

ringVars == <<ring, front, rear, tasks>>
timerVars == <<timers, ripe>>
poolVars == <<work, pool, pc, hand>>
vars == <<ringVars, timerVars, state, base, clock, frames, poolVars, life,
          posted, started, inline, lost>>

Slots == 0 .. Capacity - 1
Tasks == Posts \cup Items
Frame == [drive : Drivers, pc : {"iterate", "tasks", "task", "timers", "timer", "poll"},
          now : 0 .. MaxClock, timer : Timers \cup {NoTask}, until : Nat]

TypeOK ==
  /\ ring \in [Slots -> Tasks \cup {NoTask}]
  /\ front \in Slots /\ rear \in Slots /\ tasks \in 0 .. Capacity
  /\ timers \subseteq [timer : Timers, due : Nat]
  /\ state \in {"STOPPED", "RUNNING"}
  /\ clock \in 0 .. MaxClock /\ base \in 0 .. clock
  /\ frames \in Seq(Frame)
  /\ work \in Seq(Items) /\ pool \in BOOLEAN
  /\ pc \in [Workers -> {"lock", "wait", "work", "post", "gone"}]
  /\ hand \in [Workers -> Items \cup {NoTask}]
  /\ life \in {"open", "closing", "freed"}
  /\ posted \subseteq Tasks /\ lost \subseteq Items /\ inline \subseteq Items
  /\ started \subseteq Tasks
  /\ ripe \in [Timers -> Nat]

Init ==
  /\ ring = [s \in Slots |-> NoTask] /\ front = 0 /\ rear = 0 /\ tasks = 0
  /\ timers = {} /\ ripe = [m \in Timers |-> 0]
  /\ state = "STOPPED" /\ base = 0 /\ clock = 0 /\ frames = <<>>
  /\ work = <<>> /\ pool \in BOOLEAN      \* EV_CONFIG_NO_THREADS
  /\ pc = [w \in Workers |-> IF pool THEN "lock" ELSE "gone"]
  /\ hand = [w \in Workers |-> NoTask]
  /\ life = "open" /\ posted = {} /\ started = {} /\ inline = {} /\ lost = {}

-----------------------------------------------------------------------------
(* The ring of tasks, under task_lock                                      *)

\* Form of Push whose rear does not wrap around.
PushNoWrap(t) ==
  /\ ring' = [ring EXCEPT ![rear] = t]
  /\ rear' = IF rear + 1 < Capacity THEN rear + 1 ELSE rear
  /\ tasks' = tasks + 1
  /\ UNCHANGED front

\* task_queue_push
Push(t) ==
  /\ ring' = [ring EXCEPT ![rear] = t]
  /\ rear' = (rear + 1) % Capacity
  /\ tasks' = tasks + 1
  /\ UNCHANGED front

\* task_queue_pop; the slot that was read is cleared in the model only
Pop ==
  /\ front' = (front + 1) % Capacity
  /\ tasks' = tasks - 1
  /\ ring' = [ring EXCEPT ![front] = NoTask]
  /\ UNCHANGED rear

Full == tasks >= Capacity

\* ev_post_task, by a callback or by any thread; a refused task stays with
\* the caller, who may try again.
Post(t) ==
  /\ life = "open" /\ t \notin posted /\ ~Full
  /\ Push(t)
  /\ posted' = posted \cup {t}
  /\ UNCHANGED <<timerVars, state, base, clock, frames, poolVars, life, started, inline, lost>>

-----------------------------------------------------------------------------
(* The worker pool, under pool_lock                                        *)

Sleeping == {w \in Workers : pc[w] = "wait"}

\* Form of Signal that wakes nobody.
SignalNobody == pc' = pc

\* l_cond_signal(&pool_cond)
Signal == IF Sleeping = {} THEN pc' = pc
          ELSE \E w \in Sleeping : pc' = [pc EXCEPT ![w] = "lock"]

\* ev_run_in_pool: without a pool the caller does the work and the completion.
RunInPool(i) ==
  /\ life = "open" /\ i \notin posted
  /\ posted' = posted \cup {i}
  /\ IF pool THEN work' = Append(work, i) /\ Signal /\ UNCHANGED inline
             ELSE inline' = inline \cup {i} /\ UNCHANGED <<work, pc>>
  /\ UNCHANGED <<ringVars, timerVars, state, base, clock, frames, pool, hand, life, started, lost>>

\* pool_worker_thread: the loop's condition, with pool_lock held
WorkerWaits(w) ==
  /\ pc[w] = "lock" /\ pool /\ work = <<>>
  /\ pc' = [pc EXCEPT ![w] = "wait"]
  /\ UNCHANGED <<ringVars, timerVars, state, base, clock, frames, work, pool, hand, life,
                 posted, started, inline, lost>>

\* a wake-up without a signal
WorkerWakes(w) ==
  /\ pc[w] = "wait"
  /\ pc' = [pc EXCEPT ![w] = "lock"]
  /\ UNCHANGED <<ringVars, timerVars, state, base, clock, frames, work, pool, hand, life,
                 posted, started, inline, lost>>

\* pool_work_dequeue
WorkerTakes(w) ==
  /\ pc[w] = "lock" /\ pool /\ work # <<>>
  /\ hand' = [hand EXCEPT ![w] = Head(work)]
  /\ work' = Tail(work)
  /\ pc' = [pc EXCEPT ![w] = "work"]
  /\ UNCHANGED <<ringVars, timerVars, state, base, clock, frames, pool, life,
                 posted, started, inline, lost>>

\* work_func returns
WorkerWorks(w) ==
  /\ pc[w] = "work"
  /\ pc' = [pc EXCEPT ![w] = "post"]
  /\ UNCHANGED <<ringVars, timerVars, state, base, clock, frames, work, pool, hand, life,
                 posted, started, inline, lost>>

\* Form of WorkerPosts that keeps the item when the ring takes it.
WorkerPostsAgain(w) ==
  /\ pc[w] = "post"
  /\ IF Full THEN lost' = lost \cup {hand[w]} /\ UNCHANGED ringVars
             ELSE Push(hand[w]) /\ UNCHANGED lost
  /\ pc' = [pc EXCEPT ![w] = "work"]
  /\ UNCHANGED <<timerVars, state, base, clock, frames, work, pool, hand, life, posted, started, inline>>

\* The completion is posted; that the ring is full is not looked at.
WorkerPosts(w) ==
  /\ pc[w] = "post"
  /\ IF Full THEN lost' = lost \cup {hand[w]} /\ UNCHANGED ringVars
             ELSE Push(hand[w]) /\ UNCHANGED lost
  /\ pc' = [pc EXCEPT ![w] = "lock"]
  /\ hand' = [hand EXCEPT ![w] = NoTask]
  /\ UNCHANGED <<timerVars, state, base, clock, frames, work, pool, life, posted, started, inline>>

WorkerExits(w) ==
  /\ pc[w] = "lock" /\ ~pool
  /\ pc' = [pc EXCEPT ![w] = "gone"]
  /\ UNCHANGED <<ringVars, timerVars, state, base, clock, frames, work, pool, hand, life,
                 posted, started, inline, lost>>

\* Steps of a worker that its scheduling guarantees
Worker(w) == WorkerWaits(w) \/ WorkerTakes(w) \/ WorkerWorks(w) \/ WorkerPosts(w) \/ WorkerExits(w)

-----------------------------------------------------------------------------
(* Timers, under timer_lock                                                *)

Armed(m) == \E e \in timers : e.timer = m

\* whether an iteration is inside the callback of m
Firing(m) == \E k \in 1 .. Len(frames) : frames[k].timer = m

\* ev_timer_start with timeout = ev_loop_now + Delay; a program starts a
\* timer that is neither waiting nor about to be started again by the loop.
StartTimer(m) ==
  /\ life = "open" /\ ~Armed(m) /\ (Repeat[m] > 0 => ~Firing(m))
  /\ clock + Delay[m] <= MaxClock
  /\ timers' = timers \cup {[timer |-> m, due |-> clock - base + Delay[m]]}
  /\ ripe' = [ripe EXCEPT ![m] = clock + Delay[m]]
  /\ UNCHANGED <<ringVars, state, base, clock, frames, poolVars, life, posted, started, inline, lost>>

\* ev_timer_stop that finds the timer; one that does not changes nothing
StopTimer(m) ==
  /\ life = "open" /\ Armed(m)
  /\ timers' = {e \in timers : e.timer # m}
  /\ UNCHANGED <<ringVars, state, base, clock, frames, poolVars, life, posted, started, inline, lost, ripe>>

-----------------------------------------------------------------------------
(* The loop's thread                                                       *)

Depth == Len(frames)
Top == frames[Depth]
At(p) == frames # <<>> /\ Top.pc = p
Goto(p) == frames' = [frames EXCEPT ![Depth].pc = p]
InCallback == At("task") \/ At("timer")

\* ev_loop_run up to its loop: it refuses a loop that runs.
StartRun == state # "RUNNING" /\ state' = "RUNNING" /\ base' = clock

\* promise_await_sync, which waits for a promise, or ev_loop_run; both between
\* callbacks and from inside one.
Drive(d) ==
  /\ life = "open"
  /\ frames = <<>> \/ (d \in Nested /\ InCallback /\ Depth < MaxDepth)
  /\ IF d = "run" THEN StartRun ELSE UNCHANGED <<state, base>>
  /\ frames' = Append(frames, [drive |-> d, pc |-> "iterate", now |-> 0,
                               timer |-> NoTask, until |-> 0])
  /\ UNCHANGED <<ringVars, timerVars, clock, poolVars, life, posted, started, inline, lost>>

\* Form of Iterate that reads the clock once per drive.
IterateStale ==
  /\ At("iterate")
  /\ Top.drive = "run" => state = "RUNNING"
  /\ Goto("tasks")
  /\ UNCHANGED <<ringVars, timerVars, state, base, clock, poolVars, life, posted, started, inline, lost>>

\* ev_loop_iterate is called: by an await whatever the state is, by
\* ev_loop_run while the state is RUNNING.
Iterate ==
  /\ At("iterate")
  /\ Top.drive = "run" => state = "RUNNING"
  /\ frames' = [frames EXCEPT ![Depth].pc = "tasks", ![Depth].now = clock - base]
  /\ UNCHANGED <<ringVars, timerVars, state, base, clock, poolVars, life, posted, started, inline, lost>>

\* ev_loop_run returns
RunEnds ==
  /\ At("iterate") /\ Top.drive = "run" /\ state # "RUNNING"
  /\ frames' = Front(frames)
  /\ UNCHANGED <<ringVars, timerVars, state, base, clock, poolVars, life, posted, started, inline, lost>>

\* the awaited promise is settled, or the time for it is over
AwaitEnds ==
  /\ At("iterate") /\ Top.drive = "await"
  /\ frames' = Front(frames)
  /\ UNCHANGED <<ringVars, timerVars, state, base, clock, poolVars, life, posted, started, inline, lost>>

\* a task's callback is entered, without task_lock
RunTask ==
  /\ At("tasks") /\ tasks > 0
  /\ started' = started \cup {ring[front]}
  /\ Pop
  /\ Goto("task")
  /\ UNCHANGED <<timerVars, state, base, clock, poolVars, life, posted, inline, lost>>

EndTask ==
  /\ At("task")
  /\ Goto("tasks")
  /\ UNCHANGED <<ringVars, timerVars, state, base, clock, poolVars, life, posted, started, inline, lost>>

TasksDone ==
  /\ At("tasks") /\ tasks = 0
  /\ Goto("timers")
  /\ UNCHANGED <<ringVars, timerVars, state, base, clock, poolVars, life, posted, started, inline, lost>>

\* Form of Expired that takes the time for a length of time.
ExpiredSoon(e) == e.due <= Top.now + 1

\* the loop's `now' is the time at which the iteration began
Expired(e) == e.due <= Top.now

\* An earliest timer leaves the heap; its callback is entered.
FireTimer(e) ==
  /\ At("timers") /\ e \in timers /\ Expired(e)
  /\ \A f \in timers : e.due <= f.due
  /\ timers' = timers \ {e}
  /\ frames' = [frames EXCEPT ![Depth].pc = "timer", ![Depth].timer = e.timer]
  /\ UNCHANGED <<ringVars, state, base, clock, poolVars, life, posted, started, inline, lost, ripe>>

\* The callback returns; a timer with a period goes back into the heap.
EndTimer ==
  /\ At("timer")
  /\ LET m == Top.timer IN
       IF Repeat[m] > 0
       THEN /\ timers' = timers \cup {[timer |-> m, due |-> Top.now + Repeat[m]]}
            /\ ripe' = [ripe EXCEPT ![m] = @ + Repeat[m]]
       ELSE UNCHANGED <<timers, ripe>>
  /\ frames' = [frames EXCEPT ![Depth].pc = "timers", ![Depth].timer = NoTask]
  /\ UNCHANGED <<ringVars, state, base, clock, poolVars, life, posted, started, inline, lost>>

\* The I/O wait begins: until the next timer, or for ever if there is none;
\* with a time-out of 0, as in an await, not at all.
Forever == MaxClock + 1
TimersDone ==
  /\ At("timers") /\ ~ \E e \in timers : Expired(e)
  /\ frames' = [frames EXCEPT ![Depth].pc = "poll", ![Depth].now = 0, ![Depth].until =
       CASE Top.drive = "await" -> clock
         [] Top.drive = "run" /\ timers = {} -> Forever
         [] OTHER -> clock + Min({e.due : e \in timers}) - Top.now]
  /\ UNCHANGED <<ringVars, timerVars, state, base, clock, poolVars, life, posted, started, inline, lost>>

PollEnds ==
  /\ At("poll") /\ clock >= Top.until
  /\ frames' = [frames EXCEPT ![Depth].pc = "iterate", ![Depth].until = 0]
  /\ UNCHANGED <<ringVars, timerVars, state, base, clock, poolVars, life, posted, started, inline, lost>>

\* ev_loop_stop, by a callback or by any thread
Stop ==
  /\ life = "open" /\ state = "RUNNING"
  /\ state' = "STOPPED"
  /\ UNCHANGED <<ringVars, timerVars, base, clock, frames, poolVars, life, posted, started, inline, lost>>

\* Form of Destroy that wakes one worker only.
DestroySignal ==
  /\ life = "open" /\ frames = <<>>
  /\ life' = "closing" /\ state' = "STOPPED" /\ pool' = FALSE
  /\ Signal
  /\ UNCHANGED <<ringVars, timerVars, base, clock, frames, work, hand, posted, started, inline, lost>>

\* ev_loop_destroy, when nothing uses the loop any more but its workers
Destroy ==
  /\ life = "open" /\ frames = <<>>
  /\ life' = "closing" /\ state' = "STOPPED" /\ pool' = FALSE
  /\ pc' = [w \in Workers |-> IF pc[w] = "wait" THEN "lock" ELSE pc[w]]
  /\ UNCHANGED <<ringVars, timerVars, base, clock, frames, work, hand, posted, started, inline, lost>>

WorkLeft == {i \in Items : \E k \in 1 .. Len(work) : work[k] = i}

\* All workers are joined, what they did not take is dropped, the loop is freed.
Destroyed ==
  /\ life = "closing" /\ \A w \in Workers : pc[w] = "gone"
  /\ life' = "freed"
  /\ lost' = lost \cup WorkLeft /\ work' = <<>>
  /\ UNCHANGED <<ringVars, timerVars, state, base, clock, frames, pool, pc, hand, posted, started, inline>>

Tick ==
  /\ clock < MaxClock /\ clock' = clock + 1
  /\ UNCHANGED <<ringVars, timerVars, state, base, frames, poolVars, life, posted, started, inline, lost>>

-----------------------------------------------------------------------------
\* What the loop's thread does by itself, callbacks that return included
LoopThread == \/ Iterate \/ RunEnds \/ RunTask \/ EndTask \/ TasksDone
              \/ \E e \in timers : FireTimer(e)
              \/ EndTimer \/ TimersDone \/ PollEnds

Next ==
  \/ \E t \in Posts : Post(t)
  \/ \E i \in Items : RunInPool(i)
  \/ \E w \in Workers : Worker(w) \/ WorkerWakes(w)
  \/ \E m \in Timers : StartTimer(m) \/ StopTimer(m)
  \/ \E d \in Drivers : Drive(d)
  \/ LoopThread
  \/ AwaitEnds \/ Stop \/ Destroy \/ Destroyed \/ Tick

\* The operating system schedules the workers and the loop's thread, work
\* functions and callbacks return, and time goes on.
Fairness == /\ \A w \in Workers : WF_vars(Worker(w))
            /\ WF_vars(LoopThread) /\ WF_vars(Destroyed) /\ WF_vars(Tick)

Spec == Init /\ [][Next]_vars /\ Fairness

-----------------------------------------------------------------------------
(* Properties                                                              *)

\* The tasks in the ring, in the order in which they will be taken
InRing == [k \in 1 .. tasks |-> ring[(front + k - 1) % Capacity]]

Queue == INSTANCE TaskQueue WITH waiting <- InRing

\* However positions wrap around and iterations nest, each accepted task is
\* run once, and after the equal ones that were accepted before it.  (The code
\* keeps the order of acceptance among all tasks.  The header announces delayed
\* execution and priorities, leventloop.h:117,173, which nothing implements;
\* the property takes no side in that.)
Implements == Queue!Spec

\* An item handed to the pool is in one place: waiting, with one worker, its
\* completion in the ring, completed, or lost.
Places(i) ==
    {<<"work", k>> : k \in {j \in 1 .. Len(work) : work[j] = i}}
  \cup {<<"hand", w>> : w \in {v \in Workers : hand[v] = i}}
  \cup {<<"ring", k>> : k \in {j \in 1 .. tasks : InRing[j] = i}}
  \cup {<<"started", 0>> : x \in {i} \cap started}
  \cup {<<"inline", 0>> : x \in {i} \cap inline}
  \cup {<<"lost", 0>> : x \in {i} \cap lost}
OnePlace == \A i \in Items : Cardinality(Places(i)) = (IF i \in posted THEN 1 ELSE 0)

\* No timer fires before its time, neither when ev_loop_run sets the clock
\* of the loop back nor in an iteration that began before a callback iterated.
NotEarly == [][\A m \in Timers : ~Firing(m) /\ Firing(m)' => clock >= ripe[m]]_vars

Iterating == []<><<Iterate>>_vars
Posted(t) == t \in Items \cap posted \/ \E k \in 1 .. tasks : InRing[k] = t

\* If the loop goes on iterating, every task that was accepted is run and
\* every item handed to the pool is completed, unless the ring refused it.
AcceptedRuns == Iterating =>
  \A t \in Tasks : Posted(t) ~> t \in started \cup inline \cup lost

\* If the loop goes on iterating, a timer fires, or is stopped, or the clock
\* of the loop is set back.
TimerFires == Iterating =>
  \A m \in Timers, d \in 0 .. MaxClock :
    ([timer |-> m, due |-> d] \in timers /\ base + d <= MaxClock)
      ~> ([timer |-> m, due |-> d] \notin timers \/ base + d > MaxClock)

\* ev_loop_destroy returns: no worker sleeps through it.
DestroyReturns == life = "closing" ~> life = "freed"

\* leventloop.h: ev_loop_run blocks until the loop is stopped, which takes
\* effect after the current iteration.
StopReturns ==
  (\E k \in 1 .. Depth : frames[k].drive = "run") /\ state = "STOPPED"
     ~> ~(\E k \in 1 .. Depth : frames[k].drive = "run") \/ state = "RUNNING"
=============================================================================
