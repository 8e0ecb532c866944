------------------------------- MODULE Promise -------------------------------
(***************************************************************************)
(* Promises of lpromise.c with their reactions and combinations, and the   *)
(* coroutines of async functions (laio.c) that wait for them.              *)
(*                                                                         *)
(* Settling a promise runs Lua code in the middle of C functions: handlers *)
(* of reactions and resumed coroutines, which use other promises, cancel   *)
(* them, and iterate the event loop, so that further promises settle.  The *)
(* C functions that are active are the frames of `stack', innermost last;  *)
(* a step is taken by the innermost one, or by Lua code that it runs.      *)
(*                                                                         *)
(* Results are abstract: a promise is fulfilled or rejected.               *)
(***************************************************************************)
EXTENDS Naturals, Sequences, FiniteSets, SequencesExt

CONSTANTS
  Promises,     \* memory of promises; each is allocated once
  Routines,     \* coroutines of async functions
  Modes,        \* combinators in use: subset of {"all", "race", "settled", "any"}
  MaxInputs,    \* most inputs of a combination
  Shared,       \* whether several may wait for the same promise
  Forgetful     \* whether a program drops the result of a coroutine that has not
                \* ended or of a combination whose context lives: one that is to be
                \* settled, and one that was cancelled, which both still refer to

ASSUME PromiseAssumption ==
  /\ Modes \subseteq {"all", "race", "settled", "any"}
  /\ MaxInputs \in Nat /\ Shared \in BOOLEAN /\ Forgetful \in BOOLEAN
  /\ "none" \notin Promises \cup Routines /\ Promises \cap Routines = {}

VARIABLES
  state,      \* p->state
  freed,      \* promises whose memory was given back
  refs,       \* p->ref_count
  reactions,  \* p->reactions, first to run first
  slot,       \* p->aco_ctx: a coroutine, the result of a combination, or none
  held,       \* promises with a userdata in the Lua heap
  owed,       \* promises that a timer, task or pool item holds and will settle
  stack,      \* active C functions
  waiting,    \* ctx->waiting_p of a coroutine
  result,     \* ctx->result_p of a coroutine
  phase,      \* of a coroutine: "new", "running", "asleep", "done"
  combi,      \* compose_ctx of the promise it will settle
  chains,     \* history: every reaction ever added, with its promise
  cancels     \* history: promises that were cancelled

heapVars == <<state, freed, refs, reactions, slot>>
routineVars == <<waiting, result, phase>>
historyVars == <<chains, cancels>>
vars == <<heapVars, held, owed, stack, routineVars, combi, historyVars>>

None == "none"
Settled(p) == state[p] \in {"fulfilled", "rejected"}
Pending(p) == state[p] = "pending"
Reaction == [kind : {"then", "catch", "finally"}, handler : BOOLEAN, child : Promises]
NoCombi == [mode |-> None, ins |-> <<>>, count |-> 0, done |-> TRUE, live |-> FALSE]

(* Frames *)
React(p, list) == [op |-> "react", p |-> p, todo |-> list]   \* trigger_reactions
Handle(p, r) == [op |-> "handle", p |-> p, r |-> r]          \* lua_pcall of a handler
Notify(p) == [op |-> "notify", p |-> p]                      \* p->on_settled(p)
Release(ps) == [op |-> "release", todo |-> ps]               \* promise_release
Run(k, first) == [op |-> "run", k |-> k, first |-> first]    \* lua_resume
Ended(k, failed) == [op |-> "ended", k |-> k, failed |-> failed]
Combined(c) == [op |-> "combined", p |-> c]                  \* local_done
Method(p, new) == [op |-> "method", p |-> p, new |-> new]    \* a function of Lua

Top == stack[Len(stack)]
Below == Front(stack)
At(op) == stack # <<>> /\ Top.op = op

\* Lua code runs: the main program and its callbacks, a handler, a coroutine.
InLua == stack # <<>> => Top.op \in {"handle", "run"}

Active(op) == {k \in 1 .. Len(stack) : stack[k].op = op}

\* Lua code can use a promise when the function that makes it has returned.
Usable(p) == p \in held /\ \A k \in Active("method") : stack[k].new # p

TypeOK ==
  /\ state \in [Promises -> {"new", "pending", "fulfilled", "rejected"}]
  /\ freed \subseteq Promises /\ held \subseteq Promises /\ owed \subseteq Promises
  /\ refs \in [Promises -> Nat]
  /\ reactions \in [Promises -> Seq(Reaction)]
  /\ slot \in [Promises -> Routines \cup Promises \cup {None}]
  /\ waiting \in [Routines -> Promises \cup {None}]
  /\ result \in [Routines -> Promises \cup {None}]
  /\ phase \in [Routines -> {"new", "running", "asleep", "done"}]
  /\ \A c \in Promises : /\ combi[c].mode \in Modes \cup {None}
                         /\ combi[c].ins \in Seq(Promises)
                         /\ combi[c].count \in 0 .. Len(combi[c].ins)
  /\ \A k \in 1 .. Len(stack) : stack[k].op \in
       {"react", "handle", "notify", "release", "run", "ended", "combined", "method"}
  /\ chains \subseteq [parent : Promises, r : Reaction]
  /\ cancels \subseteq Promises

Init ==
  /\ state = [p \in Promises |-> "new"] /\ freed = {}
  /\ refs = [p \in Promises |-> 0]
  /\ reactions = [p \in Promises |-> <<>>]
  /\ slot = [p \in Promises |-> None]
  /\ held = {} /\ owed = {} /\ stack = <<>>
  /\ waiting = [k \in Routines |-> None]
  /\ result = [k \in Routines |-> None]
  /\ phase = [k \in Routines |-> "new"]
  /\ combi = [c \in Promises |-> NoCombi]
  /\ chains = {} /\ cancels = {}

-----------------------------------------------------------------------------
(* Settling                                                                *)

\* Form of Settle that leaves the reactions where they are while they run.
SettleInPlace(p, st, below) ==
  IF Pending(p)
  THEN /\ state' = [state EXCEPT ![p] = st]
       /\ stack' = below \o <<Notify(p), React(p, reactions[p])>>
       /\ UNCHANGED reactions
  ELSE stack' = below /\ UNCHANGED <<state, reactions>>

\* promise_resolve, promise_reject: nothing happens to a settled promise;
\* otherwise its reactions run, and after them its continuation.
Settle(p, st, below) ==
  IF Pending(p)
  THEN /\ state' = [state EXCEPT ![p] = st]
       /\ reactions' = [reactions EXCEPT ![p] = <<>>]
       /\ stack' = below \o <<Notify(p), React(p, reactions[p])>>
  ELSE stack' = below /\ UNCHANGED <<state, reactions>>

\* Form of Matches in which finally only runs after a success.
MatchesSuccess(r, st) == IF r.kind = "catch" THEN st = "rejected" ELSE st = "fulfilled"

\* Which reactions react to which state, in execute_reaction
Matches(r, st) == \/ r.kind = "then" /\ st = "fulfilled"
                  \/ r.kind = "catch" /\ st = "rejected"
                  \/ r.kind = "finally"

\* execute_reaction up to the handler: a reaction without one passes the
\* state on; one that does not match leaves its child as it is.
RunReaction ==
  /\ At("react") /\ Top.todo # <<>>
  /\ LET p == Top.p
         r == Head(Top.todo)
         rest == Below \o <<React(p, Tail(Top.todo)), Release(<<r.child>>)>>
     IN  IF ~Matches(r, state[p])
         THEN stack' = rest /\ UNCHANGED <<state, reactions>>
         ELSE IF r.handler
         THEN stack' = Append(rest, Handle(p, r)) /\ UNCHANGED <<state, reactions>>
         ELSE Settle(r.child, state[p], rest)
  /\ UNCHANGED <<freed, refs, slot, held, owed, routineVars, combi, historyVars>>

\* The handler returns or fails: that decides the child, except that finally
\* passes on the state of its promise.
HandlerEnds(ok) ==
  /\ At("handle")
  /\ Settle(Top.r.child,
            IF Top.r.kind = "finally" THEN state[Top.p]
            ELSE IF ok THEN "fulfilled" ELSE "rejected",
            Below)
  /\ UNCHANGED <<freed, refs, slot, held, owed, routineVars, combi, historyVars>>

ReactionsDone ==
  /\ At("react") /\ Top.todo = <<>>
  /\ stack' = Below
  /\ UNCHANGED <<heapVars, held, owed, routineVars, combi, historyVars>>

\* promise_release of one promise after the other; the last reference gives
\* the memory back and releases the children of reactions that never ran.
ReleaseStep ==
  /\ At("release")
  /\ IF Top.todo = <<>>
     THEN stack' = Below /\ UNCHANGED <<freed, refs, reactions>>
     ELSE LET p == Head(Top.todo) IN
            /\ refs' = [refs EXCEPT ![p] = @ - 1]
            /\ IF refs[p] > 1
               THEN stack' = Append(Below, Release(Tail(Top.todo))) /\ UNCHANGED <<freed, reactions>>
               ELSE /\ freed' = freed \cup {p}
                    /\ reactions' = [reactions EXCEPT ![p] = <<>>]
                    /\ stack' = Append(Below, Release(
                         [k \in 1 .. Len(reactions[p]) |-> reactions[p][k].child] \o Tail(Top.todo)))
  /\ UNCHANGED <<state, slot, held, owed, routineVars, combi, historyVars>>

\* A function called by Lua returns
Return ==
  /\ At("method")
  /\ stack' = Below
  /\ UNCHANGED <<heapVars, held, owed, routineVars, combi, historyVars>>

-----------------------------------------------------------------------------
(* Making promises and chaining them                                       *)

Fresh(p) == state[p] = "new" /\ p = CHOOSE q \in Promises : state[q] = "new"

\* aio_sleep, aio_read_file and the like: a promise that a timer, a task or
\* an item of the pool will settle, with a reference of its own.
New(p) ==
  /\ InLua /\ Fresh(p)
  /\ state' = [state EXCEPT ![p] = "pending"]
  /\ refs' = [refs EXCEPT ![p] = 2]
  /\ held' = held \cup {p} /\ owed' = owed \cup {p}
  /\ UNCHANGED <<freed, reactions, slot, stack, routineVars, combi, historyVars>>

\* timer_callback, file_complete and the like, called by the event loop, which
\* Lua code may be iterating.
Complete(p, st) ==
  /\ InLua /\ p \in owed
  /\ owed' = owed \ {p}
  /\ Settle(p, st, Append(stack, Release(<<p>>)))
  /\ UNCHANGED <<freed, refs, slot, held, routineVars, combi, historyVars>>

\* promise_cancel
Cancel(p) ==
  /\ InLua /\ Usable(p) /\ Pending(p)
  /\ cancels' = cancels \cup {p}
  /\ Settle(p, "rejected", Append(stack, Method(p, None)))
  /\ UNCHANGED <<freed, refs, slot, held, owed, routineVars, combi, chains>>

\* promise_then, promise_catch, promise_finally: the new reaction is put in
\* front of the list (add_reaction); if p is settled already, it runs now.
Chain(p, c, kind, handler) ==
  /\ InLua /\ Usable(p) /\ Fresh(c)
  /\ LET r == [kind |-> kind, handler |-> handler, child |-> c] IN
       /\ chains' = chains \cup {[parent |-> p, r |-> r]}
       /\ IF Pending(p)
          THEN reactions' = [reactions EXCEPT ![p] = <<r>> \o @] /\ UNCHANGED stack
          ELSE /\ reactions' = [reactions EXCEPT ![p] = <<>>]
               /\ stack' = stack \o <<Method(p, c), React(p, <<r>> \o reactions[p])>>
  /\ state' = [state EXCEPT ![c] = "pending"]
  /\ refs' = [refs EXCEPT ![c] = 2]
  /\ held' = held \cup {c}
  /\ UNCHANGED <<freed, slot, owed, routineVars, combi, cancels>>

\* Promises that a coroutine or a combination refers to through a pointer that
\* is not counted as a reference, to settle them or to see that they are settled
Promised(p) == \/ \E k \in Routines : result[k] = p /\ phase[k] # "done"
               \/ combi[p].live

\* laio_gc: the collector finds a userdata that the program has dropped.
Collect(p) ==
  /\ InLua /\ p \in held
  /\ \A k \in Active("method") : p \notin {stack[k].p, stack[k].new}
  /\ ~Forgetful => ~Promised(p)
  /\ held' = held \ {p}
  /\ stack' = Append(stack, Release(<<p>>))
  /\ UNCHANGED <<heapVars, owed, routineVars, combi, historyVars>>

-----------------------------------------------------------------------------
(* Combinations                                                            *)

Inputs(c) == Range(combi[c].ins)
Count(ins, st) == Cardinality({k \in 1 .. Len(ins) : state[ins[k]] = st})
Unsettled(ins) == {p \in Range(ins) : Pending(p)}

\* The function that settles p has not called its continuation yet
Due(p) == \E f \in Active("notify") : stack[f].p = p

\* Unless Shared, a program waits for p only if nobody waits for it, or who
\* does has been told: while p's reactions run its continuation has still to
\* be called, and a combination or an await of p would replace or clear it.
Free(p) == Shared \/ slot[p] = None \/ (Settled(p) /\ ~Due(p))

\* How a combination ends when it is made, or None: all is over at the first
\* input that is rejected, race at the first one that is settled.
AtOnce(mode, ins) ==
  CASE mode = "all" /\ Count(ins, "rejected") > 0 -> "rejected"
    [] mode = "all" /\ Count(ins, "rejected") = 0 /\ Unsettled(ins) = {} -> "fulfilled"
    [] mode = "settled" /\ Unsettled(ins) = {} -> "fulfilled"
    [] mode = "race" /\ \E k \in 1 .. Len(ins) : Settled(ins[k]) ->
         state[ins[CHOOSE k \in 1 .. Len(ins) :
                     Settled(ins[k]) /\ \A j \in 1 .. k - 1 : Pending(ins[j])]]
    [] mode = "any" /\ Count(ins, "fulfilled") > 0 -> "fulfilled"
    [] mode = "any" /\ Count(ins, "rejected") = Len(ins) -> "rejected"
    [] OTHER -> None

\* Form of CountedBefore that forgets the inputs which are settled already.
CountedNothing(mode, ins) == 0

\* What counts as done already when a combination starts to wait
CountedBefore(mode, ins) ==
  CASE mode \in {"all", "settled"} -> Len(ins) - Cardinality(Unsettled(ins))
    [] mode = "any" -> Count(ins, "rejected")
    [] OTHER -> 0

\* Form of Taken that counts only the inputs it waits for.
TakenPending(mode, ins, now) ==
  [p \in Promises |-> IF now = None /\ p \in Range(ins) /\ Pending(p) THEN 2 ELSE 0]

\* References that a combination takes and does not give back at once: one of
\* each input, another one of each input it waits for.  One that ends at once
\* gives all back, except that all and allSettled keep those of a full list.
Taken(mode, ins, now) ==
  [p \in Promises |->
     IF p \notin Range(ins) THEN 0
     ELSE IF now = None THEN (IF Pending(p) THEN 2 ELSE 1)
     ELSE IF mode \in {"all", "settled"} /\ now = "fulfilled" THEN 1 ELSE 0]

\* promise_all looks at its inputs in turn: one that is rejected also clears
\* the continuations of the pending ones before it.
Cleared(mode, ins) ==
  IF mode # "all" THEN {}
  ELSE {ins[k] : k \in {j \in 1 .. Len(ins) :
          /\ Pending(ins[j])
          /\ \A i \in 1 .. j - 1 : state[ins[i]] # "rejected"}}

\* promise_all, promise_race, promise_all_settled, promise_any; the program
\* does not name an input twice.
Combine(mode, ins, c) ==
  /\ InLua /\ Fresh(c)
  /\ \A p \in Range(ins) : Usable(p) /\ Free(p)
  /\ LET now == AtOnce(mode, ins) IN
       /\ state' = [state EXCEPT ![c] = IF now = None THEN "pending" ELSE now]
       /\ refs' = [p \in Promises |-> refs[p] + Taken(mode, ins, now)[p]
                                             + (IF p = c THEN 1 ELSE 0)]
       /\ IF now = None
          THEN /\ slot' = [p \in Promises |-> IF p \in Unsettled(ins) THEN c ELSE slot[p]]
               /\ combi' = [combi EXCEPT ![c] =
                    [mode |-> mode, ins |-> ins, count |-> CountedBefore(mode, ins),
                     done |-> FALSE, live |-> TRUE]]
          ELSE /\ slot' = [p \in Promises |-> IF now = "rejected" /\ p \in Cleared(mode, ins)
                                              THEN None ELSE slot[p]]
               /\ combi' = [combi EXCEPT ![c] = [NoCombi EXCEPT !.mode = mode, !.ins = ins]]
  /\ held' = held \cup {c}
  /\ UNCHANGED <<freed, reactions, owed, stack, routineVars, historyVars>>

\* What the count and the state of an input that settles say of a combination
Decision(mode, n, ins, st) ==
  CASE mode = "all" -> IF st = "rejected" THEN "rejected"
                       ELSE IF n + 1 = Len(ins) THEN "fulfilled" ELSE None
    [] mode = "race" -> st
    [] mode = "settled" -> IF n + 1 = Len(ins) THEN "fulfilled" ELSE None
    [] mode = "any" -> IF st = "fulfilled" THEN "fulfilled"
                       ELSE IF n + 1 = Len(ins) THEN "rejected" ELSE None

\* compose_on_settled up to settling the parent: nothing after the first end,
\* nor when the program has cancelled the parent.
NotifyCombination ==
  /\ At("notify") /\ slot[Top.p] \in Promises
  /\ LET p == Top.p
         c == slot[p]
         x == combi[c]
         d == Decision(x.mode, x.count, x.ins, state[p])
     IN  IF x.done \/ ~Pending(c)
         THEN /\ combi' = [combi EXCEPT ![c].done = TRUE]
              /\ stack' = Below /\ UNCHANGED <<state, reactions>>
         ELSE IF d = None
         THEN /\ combi' = [combi EXCEPT ![c].count = @ + 1]
              /\ stack' = Below /\ UNCHANGED <<state, reactions>>
         ELSE /\ combi' = [combi EXCEPT ![c].done = TRUE]
              /\ Settle(c, d, Append(Below, Combined(c)))
  /\ UNCHANGED <<freed, refs, slot, held, owed, routineVars, historyVars>>

\* compose_on_settled after its parent is settled (local_done): continuations
\* of all inputs are cleared, whoever has set them, one reference of each is
\* released, and the context is freed.
CombinationEnds ==
  /\ At("combined")
  /\ slot' = [p \in Promises |-> IF p \in Inputs(Top.p) THEN None ELSE slot[p]]
  /\ combi' = [combi EXCEPT ![Top.p].live = FALSE]
  /\ stack' = Append(Below, Release(combi[Top.p].ins))
  /\ UNCHANGED <<state, freed, refs, reactions, held, owed, routineVars, historyVars>>

-----------------------------------------------------------------------------
(* Coroutines                                                              *)

\* aio_run_async: the coroutine runs at once; its result is returned to Lua
\* when it has yielded or ended.
Async(k, p) ==
  /\ InLua /\ phase[k] = "new" /\ Fresh(p)
  /\ state' = [state EXCEPT ![p] = "pending"]
  /\ refs' = [refs EXCEPT ![p] = 1]
  /\ held' = held \cup {p}
  /\ result' = [result EXCEPT ![k] = p]
  /\ phase' = [phase EXCEPT ![k] = "running"]
  /\ stack' = stack \o <<Method(p, p), Run(k, TRUE)>>
  /\ UNCHANGED <<freed, reactions, slot, owed, waiting, combi, historyVars>>

\* Form of AwaitKeyword that sleeps whatever the state of the promise is.
AwaitKeywordBlind(p) ==
  /\ At("run") /\ Usable(p) /\ Free(p)
  /\ LET k == Top.k IN
       /\ waiting' = [waiting EXCEPT ![k] = p]
       /\ refs' = [refs EXCEPT ![p] = @ + 1]
       /\ slot' = [slot EXCEPT ![p] = k]
       /\ phase' = [phase EXCEPT ![k] = "asleep"]
       /\ stack' = Append(Below, Release(IF waiting[k] = None THEN <<>> ELSE <<waiting[k]>>))
  /\ UNCHANGED <<state, freed, reactions, held, owed, result, combi, historyVars>>

\* The keyword await yields the promise; whoever resumed the coroutine makes
\* it the continuation, or resumes it again if the promise is settled.  The
\* promise waited for before is released.
AwaitKeyword(p) ==
  /\ At("run") /\ Usable(p) /\ Free(p)
  /\ LET k == Top.k
         old == IF waiting[k] = None THEN <<>> ELSE <<waiting[k]>>
     IN  /\ waiting' = [waiting EXCEPT ![k] = p]
         /\ refs' = [refs EXCEPT ![p] = @ + 1]
         /\ IF Pending(p)
            THEN /\ slot' = [slot EXCEPT ![p] = k]
                 /\ phase' = [phase EXCEPT ![k] = "asleep"]
                 /\ stack' = Append(Below, Release(old))
            ELSE /\ slot' = [slot EXCEPT ![p] = None]
                 /\ stack' = Below \o <<Run(k, FALSE), Release(old)>>
                 /\ UNCHANGED phase
  /\ UNCHANGED <<state, freed, reactions, held, owed, result, combi, historyVars>>

\* The function asyncio.wait registers the coroutine itself and yields; the
\* promise is then found on the coroutine's stack and registered once more.
\* A settled promise is answered without yielding, which changes nothing here.
AwaitFunction(p) ==
  /\ At("run") /\ Usable(p) /\ Free(p) /\ Pending(p)
  /\ LET k == Top.k IN
       /\ waiting' = [waiting EXCEPT ![k] = p]
       /\ refs' = [refs EXCEPT ![p] = @ + (IF Top.first THEN 2 ELSE 1)]
       /\ slot' = [slot EXCEPT ![p] = k]
       /\ phase' = [phase EXCEPT ![k] = "asleep"]
       /\ stack' = Below
  /\ UNCHANGED <<state, freed, reactions, held, owed, result, combi, historyVars>>

\* laio_promise_settled: the continuation is cleared and the coroutine resumed.
NotifyRoutine ==
  /\ At("notify") /\ slot[Top.p] \in Routines
  /\ LET k == slot[Top.p] IN
       /\ slot' = [slot EXCEPT ![Top.p] = None]
       /\ phase' = [phase EXCEPT ![k] = "running"]
       /\ stack' = Append(Below, Run(k, FALSE))
  /\ UNCHANGED <<state, freed, refs, reactions, held, owed, waiting, result, combi, historyVars>>

NotifyNobody ==
  /\ At("notify") /\ slot[Top.p] = None
  /\ stack' = Below
  /\ UNCHANGED <<heapVars, held, owed, routineVars, combi, historyVars>>

\* The function of the coroutine returns, or fails: its result is settled.
RoutineEnds(ok) ==
  /\ At("run")
  /\ Settle(result[Top.k], IF ok THEN "fulfilled" ELSE "rejected",
            Append(Below, Ended(Top.k, ~ok)))
  /\ UNCHANGED <<freed, refs, slot, held, owed, routineVars, combi, historyVars>>

\* The context is freed; only after a failure what the coroutine waited for
\* is released.  That promise is settled and has no continuation: the code
\* clears it once more.
RoutineFreed ==
  /\ At("ended")
  /\ LET k == Top.k IN
       /\ phase' = [phase EXCEPT ![k] = "done"]
       /\ waiting' = [waiting EXCEPT ![k] = None]
       /\ stack' = IF Top.failed /\ waiting[k] # None
                   THEN Append(Below, Release(<<waiting[k]>>)) ELSE Below
  /\ UNCHANGED <<heapVars, held, owed, result, combi, historyVars>>

-----------------------------------------------------------------------------
\* C code, which runs to its end without anybody's choice
Native == \/ RunReaction \/ ReactionsDone \/ ReleaseStep \/ Return
          \/ NotifyCombination \/ CombinationEnds
          \/ NotifyRoutine \/ NotifyNobody \/ RoutineFreed

\* Lists of inputs
Lists == {s \in UNION {[1 .. n -> Promises] : n \in 1 .. MaxInputs} : IsInjective(s)}

Next ==
  \/ Native
  \/ \E ok \in BOOLEAN : HandlerEnds(ok) \/ RoutineEnds(ok)
  \/ \E p \in Promises : New(p) \/ Cancel(p) \/ Collect(p) \/ AwaitKeyword(p) \/ AwaitFunction(p)
  \/ \E p \in Promises, st \in {"fulfilled", "rejected"} : Complete(p, st)
  \/ \E p, c \in Promises, kind \in {"then", "catch", "finally"}, h \in BOOLEAN :
       Chain(p, c, kind, h)
  \/ \E mode \in Modes, ins \in Lists, c \in Promises : Combine(mode, ins, c)
  \/ \E k \in Routines, p \in Promises : Async(k, p)

Spec == Init /\ [][Next]_vars

-----------------------------------------------------------------------------
(* Properties                                                              *)

Quiet == stack = <<>>

\* Whom the stack is about to use
InUse == UNION {
  CASE f.op \in {"react", "handle", "notify", "combined", "method"} -> {f.p}
    [] f.op = "release" -> Range(f.todo)
    [] f.op \in {"run", "ended"} -> {result[f.k], waiting[f.k]}
  : f \in Range(stack)} \ {None}

\* No memory is used after it was given back: by an active function, a
\* reaction, a combination, a sleeping coroutine or an event still to come.
Alive ==
  /\ InUse \cap freed = {}
  /\ held \cap freed = {} /\ owed \cap freed = {}
  /\ \A p \in Promises : \A k \in 1 .. Len(reactions[p]) : reactions[p][k].child \notin freed
  /\ \A c \in Promises : combi[c].live => c \notin freed /\ Inputs(c) \cap freed = {}
  /\ \A k \in Routines : phase[k] = "asleep" => {result[k], waiting[k]} \cap freed = {}

\* Whenever all functions have returned, no settled promise has a reaction
\* left, although reactions are added and promises settled while reactions run.
NoReactionLeft == Quiet => \A p \in Promises : Settled(p) => reactions[p] = <<>>

\* A sleeping coroutine is the continuation of the promise it waits for, which
\* is not settled; or it is about to be resumed.
SleeperRegistered ==
  \A k \in Routines : phase[k] = "asleep" =>
    /\ slot[waiting[k]] = k
    /\ Pending(waiting[k]) \/ Due(waiting[k])

\* How a combination must have ended, given the states of its inputs
Answer(c) ==
  LET ins == combi[c].ins IN
  CASE combi[c].mode = "all" -> IF Count(ins, "rejected") > 0 THEN {"rejected"}
                                ELSE IF Unsettled(ins) = {} THEN {"fulfilled"} ELSE {"pending"}
    [] combi[c].mode = "settled" -> IF Unsettled(ins) = {} THEN {"fulfilled"} ELSE {"pending"}
    [] combi[c].mode = "race" -> {state[p] : p \in Range(ins)} \ {"pending"}
    [] combi[c].mode = "any" -> IF Count(ins, "fulfilled") > 0 THEN {"fulfilled"}
                                ELSE IF Count(ins, "rejected") = Len(ins) THEN {"rejected"} ELSE {"pending"}

\* Whenever all functions have returned, every combination says what its
\* inputs say, unless the program has cancelled it.
CombinationAnswers ==
  Quiet => \A c \in Promises : combi[c].mode # None /\ c \notin cancels =>
    state[c] \in (IF Answer(c) = {} THEN {"pending"} ELSE Answer(c))

\* Whenever all functions have returned, the child of a reaction whose state has
\* come is settled: without a handler, and for finally, in the promise's state.
\* Nothing else settles a child: it is pending while its promise is, and if the
\* reaction is not for the state of its promise it is pending or has that state.
\* (The code leaves it pending, execute_reaction; lpromise.c:4 announces
\* Promise/A+, which passes the state on.  The property takes no side in that.)
ChildFollows ==
  Quiet => \A x \in chains : x.r.child \notin cancels =>
    LET st == state[x.parent]
        child == state[x.r.child]
        decides == [then |-> {"fulfilled"}, catch |-> {"rejected"},
                    finally |-> {"fulfilled", "rejected"}][x.r.kind]
    IN  IF st \notin decides THEN child \in {"pending", st}
        ELSE IF x.r.kind = "finally" \/ ~x.r.handler THEN child = st
        ELSE child \in {"fulfilled", "rejected"}
=============================================================================
