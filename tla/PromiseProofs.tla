---------------------------- MODULE PromiseProofs ----------------------------
(***************************************************************************)
(* Theorems about Promise, for any number of promises and coroutines.      *)
(***************************************************************************)
EXTENDS Promise, TLAPS, FiniteSetTheorems, FunctionTheorems, SequenceTheorems, NaturalsInduction,
        WellFoundedInduction

USE PromiseAssumption

States == {"new", "pending", "fulfilled", "rejected"}
Ends == {"fulfilled", "rejected"}

-----------------------------------------------------------------------------
(* Stacks of frames.                                                       *)

Frames == UNION {
  [op : {"react"}, p : Promises, todo : Seq(Reaction)],
  [op : {"handle"}, p : Promises, r : Reaction],
  [op : {"notify", "combined"}, p : Promises],
  [op : {"release"}, todo : Seq(Promises)],
  [op : {"run"}, k : Routines, first : BOOLEAN],
  [op : {"ended"}, k : Routines, failed : BOOLEAN],
  [op : {"method"}, p : Promises, new : Promises \cup {None}]}

\* Two frames of which a stack has at most one: a coroutine runs once, a
\* promise tells its continuation once, a combination ends once.
Same(f, g) ==
  \/ f.op \in {"run", "ended"} /\ g.op \in {"run", "ended"} /\ f.k = g.k
  \/ f.op = "notify" /\ g.op = "notify" /\ f.p = g.p
  \/ f.op = "combined" /\ g.op = "combined" /\ f.p = g.p

Has(s, f) == \E i \in 1 .. Len(s) : Same(s[i], f)

\* Whose continuation is about to be told, who runs, what is about to end
Telling(s, p) == Has(s, Notify(p))
Going(s, k) == Has(s, Run(k, TRUE))
Ending(s, c) == Has(s, Combined(c))

Once(s) == \A i, j \in 1 .. Len(s) : Same(s[i], s[j]) => i = j

\* Reactions run and continuations are called for promises that are settled.
Late(s, st) == \A i \in 1 .. Len(s) :
  s[i].op \in {"react", "handle", "notify"} => st[s[i].p] \in Ends

Good(s, st) == s \in Seq(Frames) /\ Once(s) /\ Late(s, st)

LEMMA FrameKinds == ASSUME NEW f \in Frames
  PROVE /\ f.op = "react" => f.p \in Promises /\ f.todo \in Seq(Reaction)
        /\ f.op = "handle" => f.p \in Promises /\ f.r \in Reaction
        /\ f.op \in {"notify", "combined"} => f.p \in Promises
        /\ f.op = "release" => f.todo \in Seq(Promises)
        /\ f.op \in {"run", "ended"} => f.k \in Routines
        /\ f.op = "method" => f.p \in Promises
  BY DEF Frames

LEMMA FrameMade ==
  /\ \A p \in Promises : \A x \in Seq(Reaction) : React(p, x) \in Frames
  /\ \A p \in Promises : \A r \in Reaction : Handle(p, r) \in Frames
  /\ \A p \in Promises : Notify(p) \in Frames /\ Combined(p) \in Frames
  /\ \A x \in Seq(Promises) : Release(x) \in Frames
  /\ \A k \in Routines : \A b \in BOOLEAN : Run(k, b) \in Frames /\ Ended(k, b) \in Frames
  /\ \A p \in Promises : \A x \in Promises \cup {None} : Method(p, x) \in Frames
  BY DEF Frames, React, Handle, Notify, Combined, Release, Run, Ended, Method

LEMMA Pop == ASSUME NEW s, NEW st, Good(s, st), s # <<>>
  PROVE /\ Good(Front(s), st)
        /\ s[Len(s)] \in Frames
        /\ s[Len(s)].op \in {"react", "handle", "notify"} => st[s[Len(s)].p] \in Ends
        /\ \A f : Has(Front(s), f) <=> Has(s, f) /\ ~Same(s[Len(s)], f)
<1>1. s \in Seq(Frames) /\ Len(s) \in Nat \ {0} /\ s[Len(s)] \in Frames
  BY DEF Good
<1>2. /\ Front(s) \in Seq(Frames) /\ Len(Front(s)) = Len(s) - 1
      /\ \A i \in 1 .. Len(s) - 1 : Front(s)[i] = s[i]
  <2>1. PICK n : n = Len(s) - 1
    OBVIOUS
  <2>2. n \in Nat /\ 1 \in Int /\ n \in Int
    BY <1>1, <2>1
  <2>3. \A i \in 1 .. n : s[i] \in Frames
    BY <1>1, <2>1
  <2>4. /\ SubSeq(s, 1, n) \in Seq(Frames)
        /\ Len(SubSeq(s, 1, n)) = IF 1 <= n THEN n - 1 + 1 ELSE 0
        /\ \A i \in 1 .. n - 1 + 1 : SubSeq(s, 1, n)[i] = s[1 + i - 1]
    BY <2>2, <2>3, SubSeqProperties
  <2> QED
    BY <2>1, <2>2, <2>4 DEF Front
<1>3. Once(Front(s)) /\ Late(Front(s), st)
  BY <1>1, <1>2 DEF Good, Once, Late
<1>4. ASSUME NEW f PROVE Has(Front(s), f) <=> Has(s, f) /\ ~Same(s[Len(s)], f)
  <2>1. ASSUME NEW i \in 1 .. Len(s) - 1, Same(s[i], f) PROVE ~Same(s[Len(s)], f)
    <3>1. i \in 1 .. Len(s) /\ Len(s) \in 1 .. Len(s) /\ i # Len(s)
      BY <1>1
    <3>2. ~Same(s[i], s[Len(s)])
      BY <3>1 DEF Good, Once
    <3> QED
      BY <2>1, <3>2 DEF Same
  <2>2. Has(Front(s), f) <=> \E i \in 1 .. Len(s) - 1 : Same(s[i], f)
    BY <1>1, <1>2 DEF Has
  <2>3. Has(s, f) <=> Same(s[Len(s)], f) \/ \E i \in 1 .. Len(s) - 1 : Same(s[i], f)
    BY <1>1 DEF Has
  <2> QED
    BY <2>1, <2>2, <2>3
<1>5. s[Len(s)].op \in {"react", "handle", "notify"} => st[s[Len(s)].p] \in Ends
  BY <1>1 DEF Good, Late
<1> QED
  BY <1>1, <1>2, <1>3, <1>4, <1>5 DEF Good

LEMMA Push == ASSUME NEW s, NEW st, Good(s, st), NEW f \in Frames, ~Has(s, f),
                     f.op \in {"react", "handle", "notify"} => st[f.p] \in Ends
  PROVE /\ Good(Append(s, f), st)
        /\ \A g : Has(Append(s, f), g) <=> Has(s, g) \/ Same(f, g)
<1>1. s \in Seq(Frames) /\ Len(s) \in Nat
  BY DEF Good
<1>2. /\ Append(s, f) \in Seq(Frames) /\ Len(Append(s, f)) = Len(s) + 1
      /\ \A i \in 1 .. Len(s) : Append(s, f)[i] = s[i]
      /\ Append(s, f)[Len(s) + 1] = f
  BY <1>1
<1>3. Late(Append(s, f), st)
  BY <1>1, <1>2 DEF Good, Late
<1>4. Once(Append(s, f))
  <2> SUFFICES ASSUME NEW i \in 1 .. Len(s) + 1, NEW j \in 1 .. Len(s) + 1,
                      Same(Append(s, f)[i], Append(s, f)[j]), i # j
               PROVE FALSE
    BY <1>2 DEF Once
  <2>1. i \in 1 .. Len(s) /\ j \in 1 .. Len(s) => FALSE
    BY <1>2 DEF Good, Once
  <2>2. \A m \in 1 .. Len(s) : ~Same(s[m], f) /\ ~Same(f, s[m])
    BY DEF Has, Same
  <2>3. i = Len(s) + 1 /\ j \in 1 .. Len(s) => FALSE
    BY <1>2, <2>2
  <2>4. j = Len(s) + 1 /\ i \in 1 .. Len(s) => FALSE
    BY <1>2, <2>2
  <2> QED
    BY <1>1, <2>1, <2>3, <2>4
<1>5. ASSUME NEW g PROVE Has(Append(s, f), g) <=> Has(s, g) \/ Same(f, g)
  <2>1. Has(Append(s, f), g) <=> \E i \in 1 .. Len(s) + 1 : Same(Append(s, f)[i], g)
    BY <1>2 DEF Has
  <2>2. \A i \in 1 .. Len(s) + 1 : i \in 1 .. Len(s) \/ i = Len(s) + 1
    BY <1>1
  <2>3. \A i \in 1 .. Len(s) : i \in 1 .. Len(s) + 1
    BY <1>1
  <2>4. Len(s) + 1 \in 1 .. Len(s) + 1
    BY <1>1
  <2>5. Has(s, g) => Has(Append(s, f), g)
    BY <1>2, <2>1, <2>3 DEF Has
  <2>6. Same(f, g) => Has(Append(s, f), g)
    BY <1>2, <2>1, <2>4
  <2>7. Has(Append(s, f), g) => Has(s, g) \/ Same(f, g)
    BY <1>2, <2>1, <2>2 DEF Has
  <2> QED
    BY <2>5, <2>6, <2>7
<1> QED
  BY <1>2, <1>3, <1>4, <1>5 DEF Good

LEMMA Age == ASSUME NEW s, NEW st, NEW new, Good(s, st),
                    \A p \in Promises : st[p] \in Ends => new[p] \in Ends
  PROVE Good(s, new)
<1>1. \A i \in 1 .. Len(s) : s[i] \in Frames
  BY DEF Good
<1> QED
  BY <1>1, FrameKinds DEF Good, Late
\* Frames that stand for themselves only
Silent(f) == f.op \in {"react", "handle", "release", "method"}

LEMMA Add == ASSUME NEW s, NEW st, Good(s, st), NEW f \in Frames, Silent(f),
                    f.op \in {"react", "handle"} => st[f.p] \in Ends
  PROVE Good(Append(s, f), st) /\ \A g : Has(Append(s, f), g) <=> Has(s, g)
<1>1. \A g : ~Same(f, g) /\ ~Same(g, f)
  BY DEF Silent, Same
<1>2. ~Has(s, f)
  BY <1>1 DEF Has
<1> QED
  BY <1>1, <1>2, Push DEF Silent

LEMMA Drop == ASSUME NEW s, NEW st, Good(s, st), s # <<>>, Silent(s[Len(s)])
  PROVE /\ Good(Front(s), st)
        /\ \A g : Has(Front(s), g) <=> Has(s, g)
<1>1. \A g : ~Same(s[Len(s)], g)
  BY DEF Silent, Same
<1> QED
  BY <1>1, Pop

LEMMA AppendTwo == ASSUME NEW s, NEW st, Good(s, st), NEW f \in Frames, NEW g \in Frames
  PROVE s \o <<f, g>> = Append(Append(s, f), g)
  BY DEF Good

\* What is new on a stack
Keys(s, t) ==
  /\ \A k \in Routines : Going(t, k) <=> Going(s, k)
  /\ \A c \in Promises : Ending(t, c) <=> Ending(s, c)

-----------------------------------------------------------------------------
(* Types, whose stacks are good, and the reactions of settled promises.    *)

Combi == [mode : Modes \cup {None}, ins : Seq(Promises), count : Nat,
          done : BOOLEAN, live : BOOLEAN]

Typed ==
  /\ state \in [Promises -> States]
  /\ reactions \in [Promises -> Seq(Reaction)]
  /\ slot \in [Promises -> Routines \cup Promises \cup {None}]
  /\ waiting \in [Routines -> Promises \cup {None}]
  /\ result \in [Routines -> Promises \cup {None}]
  /\ phase \in [Routines -> {"new", "running", "asleep", "done"}]
  /\ combi \in [Promises -> Combi]
  /\ held \subseteq Promises /\ owed \subseteq Promises

\* Only pending promises have reactions.
Detached == \A p \in Promises : ~Pending(p) => reactions[p] = <<>>

\* Lua code holds promises that were made.
Made == \A p \in held : state[p] # "new"

\* A coroutine on the stack is running and has a promise to settle.
Runs == \A k \in Routines :
  /\ Going(stack, k) => phase[k] = "running"
  /\ phase[k] # "new" => result[k] \in Promises

\* A continuation that is a coroutine sleeps for that promise.
Sleeps == \A p \in Promises, k \in Routines :
  slot[p] = k => phase[k] = "asleep" /\ waiting[k] = p

\* A combination that is about to end is done, one that is not has inputs.
Finishes == \A c \in Promises :
  /\ Ending(stack, c) => combi[c].done /\ state[c] # "new"
  /\ ~combi[c].done => combi[c].mode \in Modes /\ combi[c].ins \in Lists

Base == Typed /\ Good(stack, state) /\ Detached /\ Made /\ Runs /\ Sleeps /\ Finishes

\* Steps that neither change a continuation nor a coroutine nor a combination
Plain ==
  /\ state' \in [Promises -> States]
  /\ reactions' \in [Promises -> Seq(Reaction)]
  /\ held' \subseteq Promises /\ owed' \subseteq Promises
  /\ Good(stack', state') /\ Keys(stack, stack')
  /\ \A p \in Promises :
       /\ state[p] \in Ends => state'[p] = state[p]
       /\ state[p] = "pending" => state'[p] # "new"
       /\ state'[p] = "pending" => state[p] \in {"new", "pending"}
       /\ Telling(stack', p) <=> Telling(stack, p) \/ (Pending(p) /\ state'[p] \in Ends)
       /\ state'[p] # "pending" => reactions'[p] = <<>>
  /\ \A p \in held' : state'[p] # "new"
  /\ UNCHANGED <<slot, routineVars, combi>>

LEMMA PlainBase == ASSUME Base, Plain PROVE Base'
<1>1. Typed' /\ Good(stack, state)' /\ Detached' /\ Made'
  BY DEF Base, Plain, Typed, Detached, Made, Pending, routineVars
<1>2. Runs' /\ Sleeps'
  BY DEF Base, Plain, Runs, Sleeps, Keys, routineVars
<1>3. Finishes'
  <2>1. \A c \in Promises : state[c] # "new" => state'[c] # "new"
    BY DEF Plain, Base, Typed, States, Ends
  <2> QED
    BY <2>1 DEF Base, Plain, Finishes, Keys
<1> QED
  BY <1>1, <1>2, <1>3 DEF Base

LEMMA SettleGood ==
  ASSUME Typed, Detached, NEW p \in Promises, NEW st \in Ends, NEW b, Good(b, state),
         Settle(p, st, b)
  PROVE /\ state' \in [Promises -> States]
        /\ reactions' \in [Promises -> Seq(Reaction)]
        /\ Good(stack', state') /\ Keys(b, stack')
        /\ \A q \in Promises :
             /\ state'[q] = (IF q = p /\ Pending(p) THEN st ELSE state[q])
             /\ reactions'[q] = (IF q = p THEN <<>> ELSE reactions[q])
             /\ Telling(stack', q) <=> Telling(b, q) \/ (q = p /\ Pending(p))
<1>1. CASE ~Pending(p)
  <2>1. stack' = b /\ state' = state /\ reactions' = reactions
    BY <1>1 DEF Settle
  <2>2. reactions[p] = <<>>
    BY <1>1 DEF Detached
  <2> QED
    BY <1>1, <2>1, <2>2 DEF Typed, Keys
<1>2. CASE Pending(p)
  <2>1. /\ state' = [state EXCEPT ![p] = st] /\ reactions' = [reactions EXCEPT ![p] = <<>>]
        /\ stack' = b \o <<Notify(p), React(p, reactions[p])>>
    BY <1>2 DEF Settle
  <2>2. PICK new : new = state'
    OBVIOUS
  <2>3. /\ state' \in [Promises -> States] /\ reactions' \in [Promises -> Seq(Reaction)]
        /\ \A q \in Promises : new[q] = (IF q = p THEN st ELSE state[q])
        /\ \A q \in Promises : reactions'[q] = (IF q = p THEN <<>> ELSE reactions[q])
    BY <2>1, <2>2 DEF Typed, States, Ends
  <2>4. PICK f : f = Notify(p)
    OBVIOUS
  <2>5. PICK g : g = React(p, reactions[p])
    OBVIOUS
  <2>6. f \in Frames /\ g \in Frames
    BY <2>4, <2>5, FrameMade DEF Typed
  <2>7. Good(b, new)
    <3>1. \A q \in Promises : state[q] \in Ends => new[q] \in Ends
      BY <2>3
    <3>2. PICK old : old = state
      OBVIOUS
    <3>3. Good(b, old) /\ \A q \in Promises : old[q] \in Ends => new[q] \in Ends
      BY <3>1, <3>2
    <3> QED
      BY <3>3, Age
  <2>8. ~Has(b, f)
    <3>1. ASSUME NEW i \in 1 .. Len(b), Same(b[i], f) PROVE FALSE
      <4>1. b[i].op = "notify" /\ b[i].p = p
        BY <3>1, <2>4 DEF Same, Notify
      <4>2. state[p] \in Ends
        BY <4>1 DEF Good, Late
      <4> QED
        BY <4>2, <1>2 DEF Ends, Pending
    <3> QED
      BY <3>1 DEF Has
  <2>9. new[f.p] \in Ends /\ new[g.p] \in Ends /\ Silent(g)
    BY <2>3, <2>4, <2>5 DEF Notify, React, Silent
  <2>10. PICK c : c = Append(b, f)
    OBVIOUS
  <2>11. Good(c, new) /\ \A h : Has(c, h) <=> Has(b, h) \/ Same(f, h)
    BY <2>6, <2>7, <2>8, <2>9, <2>10, Push
  <2>12. Good(Append(c, g), new) /\ \A h : Has(Append(c, g), h) <=> Has(c, h)
    BY <2>6, <2>9, <2>11, Add
  <2>13. stack' = Append(c, g)
    BY <2>1, <2>4, <2>5, <2>6, <2>7, <2>10, AppendTwo
  <2>14. \A h : Has(stack', h) <=> Has(b, h) \/ Same(f, h)
    BY <2>11, <2>12, <2>13
  <2>15. /\ \A q : Same(f, Notify(q)) <=> q = p
         /\ \A k : ~Same(f, Run(k, TRUE)) /\ ~Same(f, Combined(k))
    BY <2>4 DEF Same, Notify, Run, Combined
  <2>16. \A q : Telling(stack', q) <=> Telling(b, q) \/ q = p
    BY <2>14, <2>15 DEF Telling
  <2>17. Keys(b, stack')
    BY <2>14, <2>15 DEF Keys, Going, Ending
  <2> QED
    BY <1>2, <2>2, <2>3, <2>12, <2>13, <2>16, <2>17
<1> QED
  BY <1>1, <1>2

\* The stack when the innermost frame is gone
LEMMA TopOf == ASSUME Base, stack # <<>>
  PROVE /\ Top \in Frames /\ Good(Below, state)
        /\ Top.op \in {"react", "handle", "notify"} => state[Top.p] \in Ends
        /\ \A g : Has(Below, g) <=> Has(stack, g) /\ ~Same(Top, g)
<1>1. PICK s : s = stack
  OBVIOUS
<1>2. PICK st : st = state
  OBVIOUS
<1>3. Good(s, st) /\ s # <<>>
  BY <1>1, <1>2 DEF Base
<1>4. /\ Good(Front(s), st)
      /\ s[Len(s)] \in Frames
      /\ s[Len(s)].op \in {"react", "handle", "notify"} => st[s[Len(s)].p] \in Ends
      /\ \A f : Has(Front(s), f) <=> Has(s, f) /\ ~Same(s[Len(s)], f)
  BY <1>3, Pop
<1> QED
  BY <1>1, <1>2, <1>4 DEF Top, Below

\* Two stacks that say the same of promises, coroutines and combinations
Alike(s, t) == Keys(s, t) /\ \A p \in Promises : Telling(t, p) <=> Telling(s, p)

LEMMA HasAlike == ASSUME NEW s, NEW t, \A g : Has(t, g) <=> Has(s, g)
  PROVE Alike(s, t)
  BY DEF Alike, Keys, Telling, Going, Ending

LEMMA Reached == ASSUME NEW s, NEW t, NEW u, Alike(s, t), Alike(t, u) PROVE Alike(s, u)
  BY DEF Alike, Keys

\* Steps that change the stack only, and the reactions of promises.
LEMMA StackPlain ==
  ASSUME Base, Good(stack', state), Alike(stack, stack'),
         reactions' \in [Promises -> Seq(Reaction)],
         \A p \in Promises : state[p] # "pending" => reactions'[p] = <<>>,
         held' \subseteq held, owed' \subseteq owed,
         UNCHANGED <<state, slot, routineVars, combi>>
  PROVE Plain
<1>1. \A p \in Promises : Pending(p) => ~(state'[p] \in Ends)
  BY DEF Pending, Ends
<1> QED
  BY <1>1 DEF Plain, Base, Typed, Made, Alike, routineVars

LEMMA SettlePlain ==
  ASSUME Base, NEW p \in Promises, NEW st \in Ends, NEW b, Good(b, state), Alike(stack, b),
         Settle(p, st, b), held' = held, owed' \subseteq owed,
         UNCHANGED <<slot, routineVars, combi>>
  PROVE Plain
<1>1. /\ state' \in [Promises -> States]
      /\ reactions' \in [Promises -> Seq(Reaction)]
      /\ Good(stack', state') /\ Keys(b, stack')
      /\ \A q \in Promises :
           /\ state'[q] = (IF q = p /\ Pending(p) THEN st ELSE state[q])
           /\ reactions'[q] = (IF q = p THEN <<>> ELSE reactions[q])
           /\ Telling(stack', q) <=> Telling(b, q) \/ (q = p /\ Pending(p))
  BY SettleGood DEF Base
<1>2. Keys(stack, stack')
  BY <1>1 DEF Keys, Alike
<1>3. held' \subseteq Promises /\ owed' \subseteq Promises /\ \A q \in held' : state[q] # "new"
  BY DEF Base, Typed, Made
<1>4. ASSUME NEW q \in Promises
      PROVE /\ state[q] \in Ends => state'[q] = state[q]
            /\ state[q] = "pending" => state'[q] # "new"
            /\ state'[q] = "pending" => state[q] \in {"new", "pending"}
            /\ Telling(stack', q) <=> Telling(stack, q) \/ (Pending(q) /\ state'[q] \in Ends)
            /\ state'[q] # "pending" => reactions'[q] = <<>>
            /\ state[q] # "new" => state'[q] # "new"
  <2>1. Telling(b, q) <=> Telling(stack, q)
    BY DEF Alike
  <2>2. state[q] # "pending" => reactions[q] = <<>>
    BY DEF Base, Detached, Pending
  <2>3. st # "new" /\ st # "pending" /\ st \in Ends
    BY DEF Ends
  <2> QED
    BY <1>1, <2>1, <2>2, <2>3 DEF Pending, Ends
<1> QED
  BY <1>1, <1>2, <1>3, <1>4 DEF Plain, routineVars

LEMMA HandlerPlain == ASSUME Base, NEW ok \in BOOLEAN, HandlerEnds(ok) PROVE Plain
<1>1. stack # <<>> /\ Top.op = "handle"
  BY DEF HandlerEnds, At
<1>2. PICK b : b = Below
  OBVIOUS
<1>3. Good(b, state) /\ \A g : Has(b, g) <=> Has(stack, g)
  <2>1. \A g : ~Same(Top, g)
    BY <1>1 DEF Same
  <2> QED
    BY <1>1, <1>2, <2>1, TopOf
<1>4. PICK s : s = stack
  OBVIOUS
<1>5. Alike(stack, b)
  <2>1. \A g : Has(b, g) <=> Has(s, g)
    BY <1>3, <1>4
  <2> QED
    BY <2>1, <1>4, HasAlike
<1>6. PICK f \in Frames : f = Top
  BY <1>1, TopOf
<1>7. f.p \in Promises /\ f.r \in Reaction /\ state[f.p] \in Ends
  BY <1>1, <1>6, FrameKinds, TopOf
<1>8. PICK st : st = IF Top.r.kind = "finally" THEN state[Top.p]
                     ELSE IF ok THEN "fulfilled" ELSE "rejected"
  OBVIOUS
<1>9. st \in Ends
  BY <1>6, <1>7, <1>8 DEF Ends
<1>10. PICK p : p = Top.r.child
  OBVIOUS
<1>11. p \in Promises
  BY <1>6, <1>7, <1>10 DEF Reaction
<1>12. Settle(p, st, b)
  BY <1>2, <1>8, <1>10 DEF HandlerEnds
<1> QED
  BY <1>3, <1>5, <1>9, <1>11, <1>12, SettlePlain DEF HandlerEnds

LEMMA DonePlain == ASSUME Base, ReactionsDone \/ Return PROVE Plain
<1>1. stack # <<>> /\ Top.op \in {"react", "method"} /\ stack' = Below
  BY DEF ReactionsDone, Return, At
<1>2. Good(stack', state) /\ \A g : Has(stack', g) <=> Has(stack, g)
  <2>1. \A g : ~Same(Top, g)
    BY <1>1 DEF Same
  <2> QED
    BY <1>1, <2>1, TopOf
<1>3. Alike(stack, stack')
  BY <1>2 DEF Alike, Keys, Telling, Going, Ending
<1>4. UNCHANGED <<heapVars, held, owed, routineVars, combi>>
  BY DEF ReactionsDone, Return
<1> QED
  BY <1>2, <1>3, <1>4, StackPlain DEF heapVars, Base, Typed, Detached, Pending

\* A frame of its own on top of a stack
LEMMA Atop == ASSUME NEW b, NEW st, Good(b, st), NEW f \in Frames,
                     f.op \in {"release", "method"}
  PROVE Good(Append(b, f), st) /\ Alike(b, Append(b, f))
<1>1. Silent(f) /\ ~(f.op \in {"react", "handle"})
  BY DEF Silent
<1>2. Good(Append(b, f), st) /\ \A g : Has(Append(b, f), g) <=> Has(b, g)
  BY <1>1, Add
<1> QED
  BY <1>2 DEF Alike, Keys, Telling, Going, Ending

LEMMA ReleasePlain == ASSUME Base, ReleaseStep PROVE Plain
<1>1. stack # <<>> /\ Top.op = "release"
  BY DEF ReleaseStep, At
<1>2. PICK b : b = Below
  OBVIOUS
<1>3. Good(b, state) /\ \A g : Has(b, g) <=> Has(stack, g)
  <2>1. \A g : ~Same(Top, g)
    BY <1>1 DEF Same
  <2> QED
    BY <1>1, <1>2, <2>1, TopOf
<1>4. Alike(stack, b)
  BY <1>3 DEF Alike, Keys, Telling, Going, Ending
<1>5. PICK f \in Frames : f = Top
  BY <1>1, TopOf
<1>6. f.todo \in Seq(Promises)
  BY <1>1, <1>5, FrameKinds
<1>7. PICK st : st = state
  OBVIOUS
<1>8. reactions' \in [Promises -> Seq(Reaction)]
      /\ \A p \in Promises : state[p] # "pending" => reactions'[p] = <<>>
  <2>1. \/ reactions' = reactions
        \/ \E q : reactions' = [reactions EXCEPT ![q] = <<>>]
    BY DEF ReleaseStep
  <2>2. <<>> \in Seq(Reaction) /\ reactions \in [Promises -> Seq(Reaction)]
    BY DEF Base, Typed
  <2>3. \A p \in Promises : state[p] # "pending" => reactions[p] = <<>>
    BY DEF Base, Detached, Pending
  <2>4. CASE reactions' = reactions
    BY <2>2, <2>3, <2>4
  <2>5. ASSUME NEW q, reactions' = [reactions EXCEPT ![q] = <<>>]
        PROVE /\ reactions' \in [Promises -> Seq(Reaction)]
              /\ \A p \in Promises : state[p] # "pending" => reactions'[p] = <<>>
    BY <2>2, <2>3, <2>5
  <2> QED
    BY <2>1, <2>4, <2>5
<1>9. ASSUME NEW ps \in Seq(Promises), stack' = Append(Below, Release(ps))
      PROVE Good(stack', state) /\ Alike(stack, stack')
  <2>1. PICK g : g = Release(ps)
    OBVIOUS
  <2>2. g \in Frames /\ g.op \in {"release", "method"}
    BY <2>1, FrameMade DEF Release
  <2>3. Good(b, st)
    BY <1>3, <1>7
  <2>4. Good(Append(b, g), st) /\ Alike(b, Append(b, g))
    BY <2>2, <2>3, Atop
  <2>5. stack' = Append(b, g)
    BY <1>9, <2>1, <1>2
  <2> QED
    BY <2>4, <2>5, <1>4, <1>7 DEF Alike, Keys
<1>10. Good(stack', state) /\ Alike(stack, stack')
  <2>1. CASE f.todo = <<>>
    BY <2>1, <1>2, <1>3, <1>4, <1>5 DEF ReleaseStep
  <2>2. CASE f.todo # <<>>
    <3>1. Head(f.todo) \in Promises /\ Tail(f.todo) \in Seq(Promises)
      BY <1>6, <2>2
    <3>2. CASE refs[Head(f.todo)] > 1
      <4>1. stack' = Append(Below, Release(Tail(f.todo)))
        BY <2>2, <3>2, <1>5 DEF ReleaseStep
      <4> QED
        BY <4>1, <3>1, <1>9
    <3>3. CASE ~(refs[Head(f.todo)] > 1)
      <4>1. PICK x : x = reactions[Head(f.todo)]
        OBVIOUS
      <4>2. x \in Seq(Reaction)
        BY <4>1, <3>1 DEF Base, Typed
      <4>3. PICK y : y = [k \in 1 .. Len(x) |-> x[k].child]
        OBVIOUS
      <4>4. y \in Seq(Promises)
        <5>1. ASSUME NEW k \in 1 .. Len(x) PROVE x[k].child \in Promises
          <6>1. x[k] \in Reaction
            BY <4>2
          <6> QED
            BY <6>1 DEF Reaction
        <5> QED
          BY <4>2, <4>3, <5>1
      <4>5. y \o Tail(f.todo) \in Seq(Promises)
        BY <4>4, <3>1
      <4>6. stack' = Append(Below, Release(y \o Tail(f.todo)))
        BY <2>2, <3>3, <1>5, <4>1, <4>3 DEF ReleaseStep
      <4> QED
        BY <4>5, <4>6, <1>9
    <3> QED
      BY <3>2, <3>3
  <2> QED
    BY <2>1, <2>2
<1> QED
  BY <1>8, <1>10, StackPlain DEF ReleaseStep

LEMMA ReactionPlain == ASSUME Base, RunReaction PROVE Plain
<1>1. stack # <<>> /\ Top.op = "react" /\ Top.todo # <<>>
  BY DEF RunReaction, At
<1>2. PICK f \in Frames : f = Top
  BY <1>1, TopOf
<1>3. PICK b : b = Below
  OBVIOUS
<1>4. PICK st : st = state
  OBVIOUS
<1>5. PICK r : r = Head(f.todo)
  OBVIOUS
<1>6. /\ f.p \in Promises /\ r \in Reaction /\ Tail(f.todo) \in Seq(Reaction)
      /\ st[f.p] \in Ends
  BY <1>1, <1>2, <1>4, <1>5, FrameKinds, TopOf
<1>7. r.child \in Promises /\ <<r.child>> \in Seq(Promises)
  BY <1>6 DEF Reaction
<1>8. Good(b, st) /\ Alike(stack, b)
  <2>1. \A g : ~Same(Top, g)
    BY <1>1 DEF Same
  <2>2. Good(b, st) /\ \A g : Has(b, g) <=> Has(stack, g)
    BY <1>1, <1>3, <1>4, <2>1, TopOf
  <2> QED
    BY <2>2 DEF Alike, Keys, Telling, Going, Ending
<1>9. PICK g1 : g1 = React(f.p, Tail(f.todo))
  OBVIOUS
<1>10. PICK g2 : g2 = Release(<<r.child>>)
  OBVIOUS
<1>11. /\ g1 \in Frames /\ g2 \in Frames
       /\ Silent(g1) /\ g1.p = f.p /\ g2.op \in {"release", "method"}
  BY <1>6, <1>7, <1>9, <1>10, FrameMade DEF React, Release, Silent
<1>12. PICK c : c = Append(b, g1)
  OBVIOUS
<1>13. Good(c, st) /\ Alike(stack, c)
  <2>1. Good(c, st) /\ \A g : Has(c, g) <=> Has(b, g)
    BY <1>6, <1>8, <1>11, <1>12, Add
  <2> QED
    BY <2>1, <1>8 DEF Alike, Keys, Telling, Going, Ending
<1>14. PICK rest : rest = Append(c, g2)
  OBVIOUS
<1>15. Good(rest, st) /\ Alike(stack, rest)
  <2>1. Good(rest, st) /\ Alike(c, rest)
    BY <1>11, <1>13, <1>14, Atop
  <2> QED
    BY <2>1, <1>13 DEF Alike, Keys
<1>16. rest = Below \o <<React(Top.p, Tail(Top.todo)), Release(<<Head(Top.todo).child>>)>>
  <2>1. rest = b \o <<g1, g2>>
    BY <1>8, <1>11, <1>12, <1>14, AppendTwo
  <2> QED
    BY <2>1, <1>2, <1>3, <1>5, <1>9, <1>10
<1>17. UNCHANGED <<freed, refs, slot, held, owed, routineVars, combi, historyVars>>
  BY DEF RunReaction
<1>18. CASE ~Matches(r, state[f.p])
  <2>1. stack' = rest /\ UNCHANGED <<state, reactions>>
    BY <1>2, <1>5, <1>16, <1>18 DEF RunReaction
  <2>2. Good(stack', state) /\ Alike(stack, stack')
    BY <2>1, <1>15, <1>4
  <2> QED
    BY <2>1, <2>2, <1>17, StackPlain DEF Base, Typed, Detached, Pending
<1>19. CASE Matches(r, state[f.p]) /\ r.handler
  <2>1. stack' = Append(rest, Handle(Top.p, r)) /\ UNCHANGED <<state, reactions>>
    BY <1>2, <1>5, <1>16, <1>19 DEF RunReaction
  <2>2. PICK h : h = Handle(f.p, r)
    OBVIOUS
  <2>3. h \in Frames /\ Silent(h) /\ h.p = f.p
    BY <2>2, <1>6, FrameMade DEF Handle, Silent
  <2>4. Good(Append(rest, h), st) /\ \A g : Has(Append(rest, h), g) <=> Has(rest, g)
    BY <2>3, <1>6, <1>15, Add
  <2>5. stack' = Append(rest, h)
    BY <2>1, <2>2, <1>2
  <2>6. Good(stack', state) /\ Alike(stack, stack')
    BY <2>4, <2>5, <1>4, <1>15 DEF Alike, Keys, Telling, Going, Ending
  <2> QED
    BY <2>1, <2>6, <1>17, StackPlain DEF Base, Typed, Detached, Pending
<1>20. CASE Matches(r, state[f.p]) /\ ~r.handler
  <2>1. Settle(Head(Top.todo).child, state[Top.p], rest)
    BY <1>2, <1>5, <1>16, <1>20 DEF RunReaction
  <2>2. PICK c1 : c1 = r.child
    OBVIOUS
  <2>3. PICK end : end = state[f.p]
    OBVIOUS
  <2>4. Settle(c1, end, rest) /\ c1 \in Promises /\ end \in Ends
    BY <2>1, <2>2, <2>3, <1>2, <1>4, <1>5, <1>6, <1>7
  <2>5. Good(rest, state)
    BY <1>4, <1>15
  <2>6. held' = held /\ owed' \subseteq owed /\ UNCHANGED <<slot, routineVars, combi>>
    BY <1>17
  <2> QED
    BY <2>4, <2>5, <2>6, <1>15, SettlePlain
<1> QED
  BY <1>18, <1>19, <1>20

\* Pushing a frame that stands for itself only
LEMMA PushPlain == ASSUME Base, NEW f \in Frames, f.op \in {"release", "method"}
  PROVE Good(Append(stack, f), state) /\ Alike(stack, Append(stack, f))
<1>1. PICK s : s = stack
  OBVIOUS
<1>2. PICK st : st = state
  OBVIOUS
<1>3. Good(s, st)
  BY <1>1, <1>2 DEF Base
<1>4. Good(Append(s, f), st) /\ Alike(s, Append(s, f))
  BY <1>3, Atop
<1> QED
  BY <1>1, <1>2, <1>4

LEMMA CompletePlain ==
  ASSUME Base, NEW p \in Promises, NEW st \in {"fulfilled", "rejected"}, Complete(p, st)
  PROVE Plain
<1>1. PICK f : f = Release(<<p>>)
  OBVIOUS
<1>2. f \in Frames /\ f.op \in {"release", "method"}
  <2>1. <<p>> \in Seq(Promises)
    OBVIOUS
  <2> QED
    BY <1>1, <2>1, FrameMade DEF Release
<1>3. PICK b : b = Append(stack, f)
  OBVIOUS
<1>4. Good(b, state) /\ Alike(stack, b)
  BY <1>2, <1>3, PushPlain
<1>5. st \in Ends
  BY DEF Ends
<1>6. Settle(p, st, b) /\ held' = held /\ owed' \subseteq owed /\ UNCHANGED <<slot, routineVars, combi>>
  BY <1>1, <1>3 DEF Complete
<1> QED
  BY <1>4, <1>5, <1>6, SettlePlain

LEMMA CancelPlain == ASSUME Base, NEW p \in Promises, Cancel(p) PROVE Plain
<1>1. PICK f : f = Method(p, None)
  OBVIOUS
<1>2. f \in Frames /\ f.op \in {"release", "method"}
  BY <1>1, FrameMade DEF Method
<1>3. PICK b : b = Append(stack, f)
  OBVIOUS
<1>4. Good(b, state) /\ Alike(stack, b)
  BY <1>2, <1>3, PushPlain
<1>5. PICK st : st = "rejected"
  OBVIOUS
<1>6. st \in Ends
  BY <1>5 DEF Ends
<1>7. Settle(p, st, b) /\ held' = held /\ owed' \subseteq owed /\ UNCHANGED <<slot, routineVars, combi>>
  BY <1>1, <1>3, <1>5 DEF Cancel
<1> QED
  BY <1>4, <1>6, <1>7, SettlePlain

LEMMA CollectPlain == ASSUME Base, NEW p \in Promises, Collect(p) PROVE Plain
<1>1. PICK f : f = Release(<<p>>)
  OBVIOUS
<1>2. f \in Frames /\ f.op \in {"release", "method"}
  <2>1. <<p>> \in Seq(Promises)
    OBVIOUS
  <2> QED
    BY <1>1, <2>1, FrameMade DEF Release
<1>3. stack' = Append(stack, f) /\ held' \subseteq held /\ UNCHANGED <<heapVars, owed, routineVars, combi>>
  BY <1>1 DEF Collect
<1>4. Good(stack', state) /\ Alike(stack, stack')
  BY <1>2, <1>3, PushPlain
<1> QED
  BY <1>3, <1>4, StackPlain DEF heapVars, Base, Typed, Detached, Pending

LEMMA MakePlain ==
  ASSUME Base, NEW c \in Promises, state[c] = "new", state' = [state EXCEPT ![c] = "pending"],
         Good(stack', state), Alike(stack, stack'),
         reactions' \in [Promises -> Seq(Reaction)],
         \A p \in Promises : p # c /\ state[p] # "pending" => reactions'[p] = <<>>,
         held' \subseteq held \cup {c}, owed' \subseteq owed \cup {c},
         UNCHANGED <<slot, routineVars, combi>>
  PROVE Plain
<1>1. /\ state' \in [Promises -> States]
      /\ \A p \in Promises : state'[p] = (IF p = c THEN "pending" ELSE state[p])
  BY DEF Base, Typed, States
<1>2. Good(stack', state')
  <2>1. PICK s : s = stack'
    OBVIOUS
  <2>2. PICK st : st = state
    OBVIOUS
  <2>3. PICK new : new = state'
    OBVIOUS
  <2>4. Good(s, st) /\ \A p \in Promises : st[p] \in Ends => new[p] \in Ends
    BY <1>1, <2>1, <2>2, <2>3 DEF Ends
  <2> QED
    BY <2>1, <2>3, <2>4, Age
<1>3. ASSUME NEW p \in Promises
      PROVE /\ state[p] \in Ends => state'[p] = state[p]
            /\ state[p] = "pending" => state'[p] # "new"
            /\ state'[p] = "pending" => state[p] \in {"new", "pending"}
            /\ ~(Pending(p) /\ state'[p] \in Ends)
            /\ state'[p] # "pending" => reactions'[p] = <<>>
  BY <1>1 DEF Pending, Ends
<1>4. held' \subseteq Promises /\ owed' \subseteq Promises /\ \A p \in held' : state'[p] # "new"
  BY <1>1 DEF Base, Typed, Made
<1> QED
  BY <1>1, <1>2, <1>3, <1>4 DEF Plain, Alike

LEMMA NewPlain == ASSUME Base, NEW p \in Promises, New(p) PROVE Plain
<1>1. state[p] = "new" /\ stack' = stack /\ reactions' = reactions
  BY DEF New, Fresh
<1>2. Good(stack', state) /\ Alike(stack, stack')
  BY <1>1 DEF Base, Alike, Keys
<1>3. /\ reactions' \in [Promises -> Seq(Reaction)]
      /\ \A q \in Promises : q # p /\ state[q] # "pending" => reactions'[q] = <<>>
  BY <1>1 DEF Base, Typed, Detached, Pending
<1>4. /\ state' = [state EXCEPT ![p] = "pending"]
      /\ held' \subseteq held \cup {p} /\ owed' \subseteq owed \cup {p}
      /\ UNCHANGED <<slot, routineVars, combi>>
  BY DEF New
<1> QED
  BY <1>1, <1>2, <1>3, <1>4, MakePlain

LEMMA ChainPlain ==
  ASSUME Base, NEW p \in Promises, NEW c \in Promises,
         NEW kind \in {"then", "catch", "finally"}, NEW h \in BOOLEAN, Chain(p, c, kind, h)
  PROVE Plain
<1>1. PICK r : r = [kind |-> kind, handler |-> h, child |-> c]
  OBVIOUS
<1>2. r \in Reaction
  BY <1>1 DEF Reaction
<1>3. /\ state[c] = "new" /\ p \in held
      /\ state' = [state EXCEPT ![c] = "pending"]
      /\ held' \subseteq held \cup {c} /\ owed' \subseteq owed \cup {c}
      /\ UNCHANGED <<slot, routineVars, combi>>
  BY DEF Chain, Fresh, Usable
<1>4. IF Pending(p)
      THEN reactions' = [reactions EXCEPT ![p] = <<r>> \o @] /\ UNCHANGED stack
      ELSE /\ reactions' = [reactions EXCEPT ![p] = <<>>]
           /\ stack' = stack \o <<Method(p, c), React(p, <<r>> \o reactions[p])>>
  BY <1>1 DEF Chain
<1>5. <<r>> \o reactions[p] \in Seq(Reaction)
  BY <1>2 DEF Base, Typed
<1>6. /\ reactions' \in [Promises -> Seq(Reaction)]
      /\ \A q \in Promises : q # c /\ state[q] # "pending" => reactions'[q] = <<>>
  <2>1. /\ reactions \in [Promises -> Seq(Reaction)]
        /\ \A q \in Promises : ~Pending(q) => reactions[q] = <<>>
    BY DEF Base, Typed, Detached, Pending
  <2>2. CASE Pending(p)
    BY <1>4, <1>5, <2>1, <2>2 DEF Pending
  <2>3. CASE ~Pending(p)
    BY <1>4, <2>1, <2>3 DEF Pending
  <2> QED
    BY <2>2, <2>3
<1>7. Good(stack', state) /\ Alike(stack, stack')
  <2>1. CASE Pending(p)
    BY <2>1, <1>4 DEF Base, Alike, Keys
  <2>2. CASE ~Pending(p)
    <3>1. state[p] \in Ends
      BY <2>2, <1>3 DEF Pending, Base, Made, Typed, States, Ends
    <3>2. PICK m : m = Method(p, c)
      OBVIOUS
    <3>3. PICK x : x = <<r>> \o reactions[p]
      OBVIOUS
    <3>4. PICK g : g = React(p, x)
      OBVIOUS
    <3>5. /\ m \in Frames /\ m.op \in {"release", "method"}
          /\ g \in Frames /\ Silent(g) /\ g.p = p
      BY <1>5, <3>2, <3>3, <3>4, FrameMade DEF Method, React, Silent
    <3>6. PICK b : b = Append(stack, m)
      OBVIOUS
    <3>7. Good(b, state) /\ Alike(stack, b)
      BY <3>5, <3>6, PushPlain
    <3>8. PICK st : st = state
      OBVIOUS
    <3>9. Good(b, st) /\ (g.op \in {"react", "handle"} => st[g.p] \in Ends)
      BY <3>1, <3>5, <3>7, <3>8
    <3>10. Good(Append(b, g), st) /\ \A y : Has(Append(b, g), y) <=> Has(b, y)
      BY <3>5, <3>9, Add
    <3>11. stack' = Append(b, g)
      <4>1. PICK s : s = stack
        OBVIOUS
      <4>2. Good(s, st)
        BY <4>1, <3>8 DEF Base
      <4>3. s \o <<m, g>> = Append(Append(s, m), g)
        BY <4>2, <3>5, AppendTwo
      <4>4. stack' = s \o <<m, g>>
        BY <2>2, <1>4, <3>2, <3>3, <3>4, <4>1
      <4> QED
        BY <4>1, <4>3, <4>4, <3>6
    <3> QED
      BY <3>7, <3>8, <3>10, <3>11 DEF Alike, Keys, Telling, Going, Ending
  <2> QED
    BY <2>1, <2>2
<1> QED
  BY <1>3, <1>6, <1>7, MakePlain

\* The coroutine of the innermost frame is running and has a result.
LEMMA TopRuns == ASSUME Base, stack # <<>>, Top.op \in {"run", "ended"}
  PROVE /\ Top.k \in Routines /\ phase[Top.k] = "running" /\ result[Top.k] \in Promises
        /\ ~Going(Below, Top.k)
        /\ \A k \in Routines : k # Top.k => (Going(Below, k) <=> Going(stack, k))
        /\ \A p \in Promises : Telling(Below, p) <=> Telling(stack, p)
        /\ \A c \in Promises : Ending(Below, c) <=> Ending(stack, c)
<1>1. PICK f \in Frames : f = Top
  BY TopOf
<1>2. f.op \in {"run", "ended"} /\ f.k \in Routines
  BY <1>1, FrameKinds
<1>3. Len(stack) \in 1 .. Len(stack) /\ stack[Len(stack)] = f
  BY <1>1 DEF Top, Base, Good
<1>4. /\ Same(f, Run(f.k, TRUE))
      /\ \A k : k # f.k => ~Same(f, Run(k, TRUE))
      /\ \A p : ~Same(f, Notify(p)) /\ ~Same(f, Combined(p))
  BY <1>2 DEF Same, Run, Notify, Combined
<1>5. Going(stack, f.k)
  BY <1>3, <1>4 DEF Going, Has
<1>6. phase[f.k] = "running" /\ result[f.k] \in Promises
  BY <1>2, <1>5 DEF Base, Runs
<1>7. \A g : Has(Below, g) <=> Has(stack, g) /\ ~Same(f, g)
  BY <1>1, TopOf
<1> QED
  BY <1>1, <1>2, <1>4, <1>6, <1>7 DEF Going, Telling, Ending

LEMMA RoutinePlain == ASSUME Base, NEW ok \in BOOLEAN, RoutineEnds(ok) PROVE Plain
<1>1. stack # <<>> /\ Top.op = "run"
  BY DEF RoutineEnds, At
<1>2. PICK k : k = Top.k
  OBVIOUS
<1>3. k \in Routines /\ result[k] \in Promises
  BY <1>1, <1>2, TopRuns
<1>4. PICK f : f = Top
  OBVIOUS
<1>5. PICK g : g = Ended(k, ~ok)
  OBVIOUS
<1>6. g \in Frames /\ \A h : Same(g, h) <=> Same(f, h)
  <2>1. (~ok) \in BOOLEAN
    OBVIOUS
  <2>2. g \in Frames
    BY <1>3, <1>5, <2>1, FrameMade
  <2> QED
    BY <2>2, <1>1, <1>2, <1>4, <1>5 DEF Ended, Same
<1>7. PICK c : c = Below
  OBVIOUS
<1>8. PICK st : st = state
  OBVIOUS
<1>9. Good(c, st) /\ \A h : Has(c, h) <=> Has(stack, h) /\ ~Same(f, h)
  BY <1>1, <1>4, <1>7, <1>8, TopOf
<1>10. ~Has(c, g) /\ ~(g.op \in {"react", "handle", "notify"})
  <2>1. ~Has(c, g)
    <3>1. Same(f, g)
      BY <1>6, <1>5 DEF Same, Ended
    <3> QED
      BY <3>1, <1>9
  <2> QED
    BY <2>1, <1>5 DEF Ended
<1>11. PICK b : b = Append(c, g)
  OBVIOUS
<1>12. Good(b, st) /\ \A h : Has(b, h) <=> Has(c, h) \/ Same(g, h)
  BY <1>6, <1>9, <1>10, <1>11, Push
<1>13. \A h : Same(f, h) => Has(stack, h)
  <2>1. Len(stack) \in 1 .. Len(stack) /\ stack[Len(stack)] = f
    BY <1>1, <1>4 DEF Top, Base, Good
  <2> QED
    BY <2>1 DEF Has
<1>14. \A h : Has(b, h) <=> Has(stack, h)
  BY <1>6, <1>9, <1>12, <1>13
<1>15. Alike(stack, b)
  BY <1>14 DEF Alike, Keys, Telling, Going, Ending
<1>16. PICK end : end = IF ok THEN "fulfilled" ELSE "rejected"
  OBVIOUS
<1>17. end \in Ends
  BY <1>16 DEF Ends
<1>18. PICK p : p = result[k]
  OBVIOUS
<1>19. /\ Settle(p, end, b) /\ p \in Promises /\ Good(b, state)
       /\ held' = held /\ owed' \subseteq owed /\ UNCHANGED <<slot, routineVars, combi>>
  BY <1>2, <1>3, <1>5, <1>7, <1>8, <1>11, <1>12, <1>16, <1>18 DEF RoutineEnds
<1> QED
  BY <1>15, <1>17, <1>19, SettlePlain

-----------------------------------------------------------------------------
(* Lists of inputs, which differ from each other.                          *)

\* A set of natural numbers has a least member.
LEMMA Least ==
  ASSUME NEW T \in SUBSET Nat, T # {}
  PROVE  \E i \in T : \A j \in T : i <= j
<1> DEFINE R == OpToRel(<, Nat)
<1>1. IsWellFoundedOn(R, Nat)
  BY NatLessThanWellFounded
<1>2. \A x, y \in Nat : y < x => <<y, x>> \in R
  BY DEF OpToRel
<1> HIDE DEF R
<1>3. PICK x \in T : \A y \in T : ~(<<y, x>> \in R)
  BY <1>1, WFMin, T \subseteq Nat, Zenon
<1>4. \A y \in T : ~(y < x)
  BY <1>2, <1>3
<1> QED
  BY <1>4

LEMMA ListIs == ASSUME NEW ins \in Lists
  PROVE /\ ins \in Seq(Promises) /\ Len(ins) \in Nat \ {0}
        /\ Range(ins) \subseteq Promises
        /\ Range(ins) = {ins[k] : k \in 1 .. Len(ins)}
        /\ \A i, j \in 1 .. Len(ins) : ins[i] = ins[j] => i = j
<1>1. PICK n \in 1 .. MaxInputs : ins \in [1 .. n -> Promises] /\ IsInjective(ins)
  BY DEF Lists
<1>2. n \in Nat \ {0} /\ ins \in Seq(Promises) /\ Len(ins) = n /\ DOMAIN ins = 1 .. n
  BY <1>1
<1> QED
  BY <1>1, <1>2 DEF Range, IsInjective

\* As many inputs as places in a list
LEMMA Places == ASSUME NEW ins \in Lists, NEW K \in SUBSET (1 .. Len(ins))
  PROVE /\ IsFiniteSet({ins[k] : k \in K})
        /\ Cardinality({ins[k] : k \in K}) = Cardinality(K)
<1>1. IsFiniteSet(1 .. Len(ins))
  BY ListIs, FS_Interval
<1>2. IsFiniteSet(K)
  BY <1>1, FS_Subset
<1>3. PICK S : S = {ins[k] : k \in K}
  OBVIOUS
<1>4. PICK f : f = [k \in K |-> ins[k]]
  OBVIOUS
<1>5. /\ f \in [K -> S] /\ \A t \in S : \E k \in K : f[k] = t
      /\ \A a, b \in K : f[a] = f[b] => a = b
  BY <1>3, <1>4, ListIs
<1>6. f \in Bijection(K, S)
  BY <1>5, Fun_IsBij
<1>7. ExistsBijection(K, S)
  BY <1>6 DEF ExistsBijection
<1> QED
  BY <1>2, <1>3, <1>7, FS_Bijection

LEMMA InputsFinite == ASSUME NEW ins \in Lists
  PROVE IsFiniteSet(Range(ins)) /\ Cardinality(Range(ins)) = Len(ins)
<1>1. PICK K, n : n = Len(ins) /\ K = 1 .. n
  OBVIOUS
<1>2. n \in Nat \ {0} /\ Range(ins) = {ins[k] : k \in K}
  BY <1>1, ListIs
<1>3. Cardinality(K) = n
  <2>1. PICK a : a = 1
    OBVIOUS
  <2>2. Cardinality(a .. n) = IF a > n THEN 0 ELSE n - a + 1
    BY <1>2, <2>1, FS_Interval
  <2> QED
    BY <1>1, <1>2, <2>1, <2>2
<1> QED
  BY <1>1, <1>2, <1>3, Places

\* The number of the inputs with a property S
Weigh(ins, S) == Cardinality(Range(ins) \cap S)

LEMMA CountIs == ASSUME NEW ins \in Lists, NEW st
  PROVE Count(ins, st) = Weigh(ins, {p \in Promises : state[p] = st})
<1>1. PICK x : x = state
  OBVIOUS
<1>2. PICK K : K = {k \in 1 .. Len(ins) : x[ins[k]] = st}
  OBVIOUS
<1>3. PICK T : T = {p \in Promises : x[p] = st}
  OBVIOUS
<1>4. Cardinality({ins[k] : k \in K}) = Cardinality(K)
  BY <1>2, Places
<1>5. {ins[k] : k \in K} = Range(ins) \cap T
  BY <1>2, <1>3, ListIs
<1> QED
  BY <1>1, <1>2, <1>3, <1>4, <1>5 DEF Count, Weigh

LEMMA UnsettledIs == ASSUME NEW ins \in Lists
  PROVE Cardinality(Unsettled(ins)) = Weigh(ins, {p \in Promises : Pending(p)})
<1>1. Unsettled(ins) = Range(ins) \cap {p \in Promises : Pending(p)}
  BY ListIs DEF Unsettled
<1> QED
  BY <1>1 DEF Weigh

LEMMA Weights == ASSUME NEW ins \in Lists
  PROVE /\ Len(ins) \in Nat
        /\ \A S : /\ Weigh(ins, S) \in 0 .. Len(ins)
                  /\ Weigh(ins, S) = 0 <=> \A p \in Range(ins) : p \notin S
                  /\ Weigh(ins, S) = Len(ins) <=> \A p \in Range(ins) : p \in S
        /\ \A S, T : (\A p \in Range(ins) : p \in S <=> p \in T) => Weigh(ins, S) = Weigh(ins, T)
        /\ \A S, T : (\A p \in Range(ins) : p \in S <=> p \notin T) =>
                       Weigh(ins, S) = Len(ins) - Weigh(ins, T)
        /\ \A S : \A q \in Range(ins) : q \notin S =>
             /\ Weigh(ins, S \cup {q}) = Weigh(ins, S) + 1
             /\ Weigh(ins, S) + 1 = Len(ins) <=> \A p \in Range(ins) : p # q => p \in S
<1> DEFINE R == Range(ins)
           n == Len(ins)
<1>2. n \in Nat /\ IsFiniteSet(R) /\ Cardinality(R) = n
  BY ListIs, InputsFinite
<1>3. \A S : Weigh(ins, S) = Cardinality(R \cap S)
  BY DEF Weigh
<1> HIDE DEF R, n
<1>4. ASSUME NEW S
      PROVE /\ IsFiniteSet(R \cap S) /\ Weigh(ins, S) \in 0 .. n
            /\ Weigh(ins, S) = 0 <=> \A p \in R : p \notin S
            /\ Weigh(ins, S) = n <=> \A p \in R : p \in S
  <2>1. PICK T : T = R \cap S
    OBVIOUS
  <2>2. T \in SUBSET R
    BY <2>1
  <2>3. IsFiniteSet(T) /\ Cardinality(T) <= n /\ (n = Cardinality(T) => R = T)
    BY <1>2, <2>2, FS_Subset
  <2>4. Cardinality(T) \in Nat /\ (Cardinality(T) = 0 <=> T = {})
    BY <2>3, FS_CardinalityType, FS_EmptySet
  <2>5. R = T => Cardinality(T) = n
    BY <1>2
  <2>6. Weigh(ins, S) = Cardinality(T)
    BY <1>3, <2>1
  <2> QED
    BY <1>2, <2>1, <2>3, <2>4, <2>5, <2>6
<1>5. ASSUME NEW S, NEW T, \A p \in R : p \in S <=> p \in T PROVE Weigh(ins, S) = Weigh(ins, T)
  <2>1. R \cap S = R \cap T
    BY <1>5
  <2> QED
    BY <1>3, <2>1
<1>6. ASSUME NEW S, NEW T, \A p \in R : p \in S <=> p \notin T
      PROVE Weigh(ins, S) = n - Weigh(ins, T)
  <2>1. R \cap S = R \ T
    BY <1>6
  <2>2. Cardinality(R \ T) = Cardinality(R) - Cardinality(R \cap T)
    BY <1>2, FS_Difference
  <2> QED
    BY <1>2, <1>3, <2>1, <2>2
<1>7. ASSUME NEW S, NEW q \in R, q \notin S
      PROVE /\ Weigh(ins, S \cup {q}) = Weigh(ins, S) + 1
            /\ Weigh(ins, S) + 1 = n <=> \A p \in R : p # q => p \in S
  <2>1. R \cap (S \cup {q}) = (R \cap S) \cup {q} /\ q \notin R \cap S
    BY <1>7
  <2>2. Cardinality((R \cap S) \cup {q}) = Cardinality(R \cap S) + 1
    BY <1>4, <2>1, FS_AddElement
  <2>3. Weigh(ins, S \cup {q}) = Weigh(ins, S) + 1
    BY <1>3, <2>1, <2>2
  <2>4. Weigh(ins, S \cup {q}) = n <=> \A p \in R : p \in S \cup {q}
    BY <1>4
  <2> QED
    BY <2>3, <2>4
<1> USE DEF R, n
<1> QED
  BY <1>2, <1>4, <1>5, <1>6, <1>7, Zenon

LEMMA CountedNat == ASSUME NEW mode, NEW ins \in Lists
  PROVE CountedBefore(mode, ins) \in Nat
<1>1. \A S : Weigh(ins, S) \in 0 .. Len(ins) /\ Len(ins) \in Nat
  BY Weights
<1>2. Cardinality(Unsettled(ins)) \in 0 .. Len(ins)
  BY <1>1, UnsettledIs
<1>3. Count(ins, "rejected") \in Nat
  <2>1. PICK st : st = "rejected"
    OBVIOUS
  <2>2. Count(ins, st) = Weigh(ins, {p \in Promises : state[p] = st})
    BY CountIs
  <2> QED
    BY <1>1, <2>1, <2>2
<1> QED
  BY <1>1, <1>2, <1>3 DEF CountedBefore

\* The inputs of a state, and the unsettled ones, by their numbers
LEMMA CountSays == ASSUME NEW ins \in Lists, NEW st
  PROVE /\ Count(ins, st) \in 0 .. Len(ins)
        /\ Count(ins, st) = 0 <=> \A p \in Range(ins) : state[p] # st
        /\ Count(ins, st) = Len(ins) <=> \A p \in Range(ins) : state[p] = st
<1>1. PICK S : S = {p \in Promises : state[p] = st}
  OBVIOUS
<1>2. Count(ins, st) = Weigh(ins, S)
  BY <1>1, CountIs
<1>3. \A p \in Range(ins) : p \in S <=> state[p] = st
  BY <1>1, ListIs
<1>4. /\ Weigh(ins, S) \in 0 .. Len(ins)
      /\ Weigh(ins, S) = 0 <=> \A p \in Range(ins) : p \notin S
      /\ Weigh(ins, S) = Len(ins) <=> \A p \in Range(ins) : p \in S
  BY Weights
<1> QED
  BY <1>2, <1>3, <1>4

LEMMA UnsettledSays == ASSUME NEW ins \in Lists
  PROVE /\ Len(ins) - Cardinality(Unsettled(ins)) = Weigh(ins, {p \in Range(ins) : ~Pending(p)})
        /\ Unsettled(ins) = {} <=> \A p \in Range(ins) : ~Pending(p)
<1>1. PICK S, T : S = {p \in Promises : Pending(p)} /\ T = {p \in Range(ins) : ~Pending(p)}
  OBVIOUS
<1>2. \A p \in Range(ins) : p \in T <=> p \notin S
  BY <1>1, ListIs
<1>3. Weigh(ins, T) = Len(ins) - Weigh(ins, S)
  BY <1>2, Weights
<1>4. Cardinality(Unsettled(ins)) = Weigh(ins, S)
  BY <1>1, UnsettledIs
<1> QED
  BY <1>1, <1>3, <1>4 DEF Unsettled

\* How combinations end at once, case by case
LEMMA AtOnceOf == ASSUME NEW ins \in Lists, \A p \in Range(ins) : Pending(p) \/ Settled(p)
  PROVE /\ Count(ins, "rejected") > 0 => AtOnce("all", ins) = "rejected"
        /\ Count(ins, "rejected") = 0 =>
             AtOnce("all", ins) = IF Unsettled(ins) = {} THEN "fulfilled" ELSE None
        /\ AtOnce("settled", ins) = IF Unsettled(ins) = {} THEN "fulfilled" ELSE None
        /\ (\E p \in Range(ins) : Settled(p)) =>
             \E p \in Range(ins) : Settled(p) /\ AtOnce("race", ins) = state[p]
        /\ (\A p \in Range(ins) : ~Settled(p)) => AtOnce("race", ins) = None
        /\ Count(ins, "fulfilled") > 0 => AtOnce("any", ins) = "fulfilled"
        /\ ~(Count(ins, "fulfilled") > 0) =>
             AtOnce("any", ins) = IF Count(ins, "rejected") = Len(ins) THEN "rejected" ELSE None
<1>1. \A p : p \in Range(ins) <=> \E k \in 1 .. Len(ins) : ins[k] = p
  <2>1. ins \in Seq(Promises)
    BY ListIs
  <2> QED
    BY <2>1 DEF Range
<1>2. ASSUME NEW p \in Range(ins), Settled(p)
      PROVE \E q \in Range(ins) : Settled(q) /\ AtOnce("race", ins) = state[q]
  <2>1. \E k \in 1 .. Len(ins) : Settled(ins[k])
    BY <1>1, <1>2
  <2>2. \E k \in 1 .. Len(ins) : Settled(ins[k]) /\ \A j \in 1 .. k - 1 : Pending(ins[j])
    <3>1. PICK n, T : n = Len(ins) /\ T = {k \in 1 .. n : Settled(ins[k])}
      OBVIOUS
    <3>2. n \in Nat /\ T \in SUBSET Nat /\ T # {}
      BY <2>1, <3>1, ListIs
    <3>3. PICK k \in T : \A j \in T : k <= j
      BY <3>2, Least
    <3>4. \A j \in 1 .. k - 1 : j \in 1 .. n /\ j \notin T
      BY <3>1, <3>2, <3>3
    <3>5. \A j \in 1 .. k - 1 : ins[j] \in Range(ins) /\ ~Settled(ins[j])
      BY <1>1, <3>1, <3>4
    <3> QED
      BY <3>1, <3>3, <3>5
  <2>3. PICK k : k = CHOOSE i \in 1 .. Len(ins) : Settled(ins[i]) /\ \A j \in 1 .. i - 1 : Pending(ins[j])
    OBVIOUS
  <2>4. k \in 1 .. Len(ins) /\ Settled(ins[k])
    BY <2>2, <2>3
  <2>5. AtOnce("race", ins) = state[ins[k]]
    BY <2>1, <2>3 DEF AtOnce
  <2> QED
    BY <1>1, <2>4, <2>5
<1>3. ASSUME \A p \in Range(ins) : ~Settled(p) PROVE AtOnce("race", ins) = None
  BY <1>1, <1>3 DEF AtOnce
<1>4. /\ Count(ins, "rejected") > 0 => AtOnce("all", ins) = "rejected"
      /\ Count(ins, "rejected") = 0 =>
           AtOnce("all", ins) = IF Unsettled(ins) = {} THEN "fulfilled" ELSE None
  <2>1. PICK n : n = Count(ins, "rejected")
    OBVIOUS
  <2>2. n > 0 => n # 0
    OBVIOUS
  <2> QED
    BY <2>1, <2>2 DEF AtOnce
<1>5. AtOnce("settled", ins) = IF Unsettled(ins) = {} THEN "fulfilled" ELSE None
  BY DEF AtOnce
<1>6. /\ Count(ins, "fulfilled") > 0 => AtOnce("any", ins) = "fulfilled"
      /\ ~(Count(ins, "fulfilled") > 0) =>
           AtOnce("any", ins) = IF Count(ins, "rejected") = Len(ins) THEN "rejected" ELSE None
  <2>1. PICK f, r, n, m : /\ f = "fulfilled" /\ n = Count(ins, f)
                          /\ r = "rejected" /\ m = Count(ins, r)
    OBVIOUS
  <2>2. /\ n \in 0 .. Len(ins) /\ (n = 0 <=> \A p \in Range(ins) : state[p] # f)
        /\ m = Len(ins) <=> \A p \in Range(ins) : state[p] = r
    BY <2>1, CountSays
  <2>3. n > 0 => m # Len(ins)
    BY <2>1, <2>2
  <2> QED
    BY <2>1, <2>3 DEF AtOnce
<1> QED
  BY <1>2, <1>3, <1>4, <1>5, <1>6

\* Combinations of promises that were made end in a state of promises.
LEMMA AtOnceEnds == ASSUME NEW mode \in Modes, NEW ins \in Lists,
                           \A p \in Range(ins) : Pending(p) \/ Settled(p)
  PROVE AtOnce(mode, ins) \in Ends \cup {None}
<1>1. AtOnce("race", ins) \in Ends \cup {None}
  BY AtOnceOf DEF Settled, Ends
<1>2. mode # "race" => AtOnce(mode, ins) \in Ends \cup {None}
  BY DEF AtOnce, Ends
<1> QED
  BY <1>1, <1>2

-----------------------------------------------------------------------------
(* What the other steps do.                                                *)

LEMMA CombineEffect ==
  ASSUME Base, NEW mode \in Modes, NEW ins \in Lists, NEW c \in Promises, Combine(mode, ins, c)
  PROVE \E now \in Ends \cup {None} :
    /\ now = AtOnce(mode, ins) /\ state[c] = "new"
    /\ \A p \in Range(ins) : p \in held /\ Free(p)
    /\ Typed' /\ stack' = stack /\ Good(stack', state') /\ Detached' /\ Made'
    /\ UNCHANGED <<reactions, owed, routineVars, historyVars>>
    /\ state'[c] = (IF now = None THEN "pending" ELSE now)
    /\ combi'[c].mode = mode /\ combi'[c].ins = ins
    /\ now = None => combi'[c].count = CountedBefore(mode, ins)
    /\ (combi'[c].done <=> now # None) /\ (combi'[c].live <=> now = None)
    /\ \A p \in Promises : p # c => state'[p] = state[p] /\ combi'[p] = combi[p]
    /\ \A p \in Promises : slot'[p] \in {slot[p], None, c}
    /\ now = None => \A p \in Promises :
         slot'[p] = IF p \in Range(ins) /\ Pending(p) THEN c ELSE slot[p]
    /\ now # None => \A p \in Promises :
         slot'[p] = slot[p] \/ (slot'[p] = None /\ p \in Range(ins) /\ Pending(p))
<1>1. /\ Fresh(c) /\ (\A p \in Range(ins) : Usable(p) /\ Free(p))
      /\ UNCHANGED <<freed, reactions, owed, stack, routineVars, historyVars>>
      /\ held' = held \cup {c}
  BY DEF Combine
<1>2. state[c] = "new"
  BY <1>1 DEF Fresh
<1>3. \A p \in Range(ins) : p \in held /\ Free(p)
  BY <1>1 DEF Usable
<1>4. PICK now : now = AtOnce(mode, ins)
  OBVIOUS
<1>5. now \in Ends \cup {None}
  <2>1. \A p \in Range(ins) : Pending(p) \/ Settled(p)
    BY <1>3 DEF Base, Made, Typed, States, Pending, Settled
  <2> QED
    BY <2>1, <1>4, AtOnceEnds
<1>6. PICK end : end = IF now = None THEN "pending" ELSE now
  OBVIOUS
<1>7. end \in {"pending", "fulfilled", "rejected"}
  BY <1>5, <1>6 DEF Ends
<1>8. state' = [state EXCEPT ![c] = end]
  BY <1>4, <1>6 DEF Combine
<1>9. /\ state' \in [Promises -> States] /\ state'[c] = end
      /\ \A p \in Promises : p # c => state'[p] = state[p]
  BY <1>7, <1>8 DEF Base, Typed, States
<1>10. Good(stack', state')
  <2>1. PICK s : s = stack'
    OBVIOUS
  <2>2. PICK st : st = state
    OBVIOUS
  <2>3. PICK new : new = state'
    OBVIOUS
  <2>4. Good(s, st) /\ \A p \in Promises : st[p] \in Ends => new[p] \in Ends
    BY <1>1, <1>2, <1>9, <2>1, <2>2, <2>3 DEF Ends, Base
  <2> QED
    BY <2>1, <2>3, <2>4, Age
<1>11. Detached' /\ Made'
  BY <1>1, <1>2, <1>7, <1>9 DEF Base, Detached, Made, Typed, Pending
<1>12. PICK m : m = IF now = None
          THEN [mode |-> mode, ins |-> ins, count |-> CountedBefore(mode, ins), done |-> FALSE, live |-> TRUE]
          ELSE [NoCombi EXCEPT !.mode = mode, !.ins = ins]
  OBVIOUS
<1>13. /\ m \in Combi /\ m.mode = mode /\ m.ins = ins
       /\ now = None => m.count = CountedBefore(mode, ins)
       /\ (m.done <=> now # None) /\ (m.live <=> now = None)
  <2>1. CountedBefore(mode, ins) \in Nat /\ ins \in Seq(Promises)
    BY CountedNat, ListIs
  <2>2. CASE now = None
    BY <2>1, <2>2, <1>12 DEF Combi
  <2>3. CASE now # None
    <3>1. m = [mode |-> mode, ins |-> ins, count |-> 0, done |-> TRUE, live |-> FALSE]
      BY <2>3, <1>12 DEF NoCombi
    <3> QED
      BY <2>1, <2>3, <3>1 DEF Combi
  <2> QED
    BY <2>2, <2>3
<1>14. combi' = [combi EXCEPT ![c] = m]
  BY <1>4, <1>12 DEF Combine
<1>15. /\ combi' \in [Promises -> Combi] /\ combi'[c] = m
       /\ \A p \in Promises : p # c => combi'[p] = combi[p]
  BY <1>13, <1>14 DEF Base, Typed
<1>16. PICK cl : cl = Cleared(mode, ins)
  OBVIOUS
<1>17. \A p \in cl : p \in Range(ins) /\ Pending(p)
  BY <1>16, ListIs DEF Cleared, Range
<1>18. /\ slot' \in [Promises -> Routines \cup Promises \cup {None}]
       /\ \A p \in Promises : slot'[p] \in {slot[p], None, c}
       /\ now = None => \A p \in Promises :
            slot'[p] = IF p \in Range(ins) /\ Pending(p) THEN c ELSE slot[p]
       /\ now # None => \A p \in Promises :
            slot'[p] = slot[p] \/ (slot'[p] = None /\ p \in Range(ins) /\ Pending(p))
  <2>1. CASE now = None
    <3>1. slot' = [p \in Promises |-> IF p \in Unsettled(ins) THEN c ELSE slot[p]]
      BY <2>1, <1>4 DEF Combine
    <3> QED
      BY <2>1, <3>1 DEF Unsettled, Base, Typed
  <2>2. CASE now # None
    <3>1. slot' = [p \in Promises |-> IF now = "rejected" /\ p \in cl THEN None ELSE slot[p]]
      BY <2>2, <1>4, <1>16 DEF Combine
    <3> QED
      BY <2>2, <3>1, <1>17 DEF Base, Typed
  <2> QED
    BY <2>1, <2>2
<1>19. Typed'
  BY <1>1, <1>9, <1>15, <1>18 DEF Base, Typed, routineVars
<1> QED
  BY <1>1, <1>2, <1>3, <1>4, <1>5, <1>6, <1>9, <1>10, <1>11, <1>13, <1>15, <1>18, <1>19

LEMMA DecisionEnds == ASSUME NEW mode \in Modes, NEW n, NEW ins, NEW st \in Ends
  PROVE Decision(mode, n, ins, st) \in Ends \cup {None}
  BY DEF Decision, Ends

LEMMA TopTells == ASSUME Base, stack # <<>>, Top.op = "notify"
  PROVE /\ Top.p \in Promises /\ state[Top.p] \in Ends /\ Telling(stack, Top.p)
        /\ Good(Below, state) /\ Keys(stack, Below)
        /\ \A q \in Promises : Telling(Below, q) <=> Telling(stack, q) /\ q # Top.p
<1>1. PICK f \in Frames : f = Top
  BY TopOf
<1>2. f.op = "notify" /\ f.p \in Promises
  BY <1>1, FrameKinds
<1>3. Len(stack) \in 1 .. Len(stack) /\ stack[Len(stack)] = f
  BY <1>1 DEF Top, Base, Good
<1>4. /\ \A q : Same(f, Notify(q)) <=> q = f.p
      /\ \A k : ~Same(f, Run(k, TRUE)) /\ ~Same(f, Combined(k))
  BY <1>2 DEF Same, Run, Notify, Combined
<1>5. Telling(stack, f.p)
  BY <1>3, <1>4 DEF Telling, Has
<1>6. \A g : Has(Below, g) <=> Has(stack, g) /\ ~Same(f, g)
  BY <1>1, TopOf
<1> QED
  BY <1>1, <1>2, <1>4, <1>5, <1>6, TopOf DEF Telling, Keys, Going, Ending

LEMMA NotifyEffect == ASSUME Base, NotifyCombination
  PROVE \E p \in Promises, c \in Promises :
    /\ slot[p] = c /\ state[p] \in Ends /\ Telling(stack, p)
    /\ Typed' /\ Good(stack', state') /\ Detached'
    /\ UNCHANGED <<slot, held, owed, routineVars, historyVars>>
    /\ \A k \in Routines : Going(stack', k) <=> Going(stack, k)
    /\ \A b \in Promises : b # c => /\ combi'[b] = combi[b] /\ state'[b] = state[b]
                                    /\ reactions'[b] = reactions[b]
                                    /\ Ending(stack', b) <=> Ending(stack, b)
    /\ \A q \in Promises : Telling(stack', q) <=>
         (Telling(stack, q) /\ q # p) \/ (q = c /\ Pending(c) /\ state'[c] \in Ends)
    /\ combi'[c].mode = combi[c].mode /\ combi'[c].ins = combi[c].ins
    /\ combi'[c].live = combi[c].live
    /\ \/ /\ combi[c].done \/ ~Pending(c)
          /\ state'[c] = state[c] /\ combi'[c].done
          /\ Ending(stack', c) <=> Ending(stack, c)
       \/ /\ ~combi[c].done /\ Pending(c) /\ ~combi'[c].done
          /\ Decision(combi[c].mode, combi[c].count, combi[c].ins, state[p]) = None
          /\ combi'[c].count = combi[c].count + 1
          /\ state'[c] = state[c]
          /\ Ending(stack', c) <=> Ending(stack, c)
       \/ /\ ~combi[c].done /\ Pending(c) /\ combi'[c].done
          /\ state'[c] = Decision(combi[c].mode, combi[c].count, combi[c].ins, state[p])
          /\ state'[c] \in Ends
          /\ Ending(stack', c)
<1>1. stack # <<>> /\ Top.op = "notify" /\ slot[Top.p] \in Promises
  BY DEF NotifyCombination, At
<1>2. PICK p \in Promises : p = Top.p
  BY <1>1, TopTells
<1>3. PICK c \in Promises : c = slot[p]
  BY <1>1, <1>2
<1>4. PICK b : b = Below
  OBVIOUS
<1>5. PICK st : st = state
  OBVIOUS
<1>6. /\ st[p] \in Ends /\ Telling(stack, p) /\ Good(b, st)
      /\ \A q \in Promises : Telling(b, q) <=> Telling(stack, q) /\ q # p
      /\ Keys(stack, b)
  BY <1>1, <1>2, <1>4, <1>5, TopTells
<1>7. PICK x : x = combi[c]
  OBVIOUS
<1>8. x \in Combi
  BY <1>7 DEF Base, Typed
<1>9. PICK d : d = Decision(x.mode, x.count, x.ins, state[p])
  OBVIOUS
<1>10. UNCHANGED <<freed, refs, slot, held, owed, routineVars, historyVars>>
  BY DEF NotifyCombination
<1>11. CASE x.done \/ ~Pending(c)
  <2>1. combi' = [combi EXCEPT ![c].done = TRUE] /\ stack' = b /\ UNCHANGED <<state, reactions>>
    BY <1>11, <1>2, <1>3, <1>4, <1>7 DEF NotifyCombination
  <2>2. combi' = [combi EXCEPT ![c] = [x EXCEPT !.done = TRUE]]
    BY <2>1, <1>7
  <2>3. PICK y : y = [x EXCEPT !.done = TRUE]
    OBVIOUS
  <2>4. /\ y \in Combi /\ y.mode = x.mode /\ y.ins = x.ins /\ y.live = x.live /\ y.done
    BY <2>3, <1>8 DEF Combi
  <2>5. /\ combi' \in [Promises -> Combi] /\ combi'[c] = y
        /\ \A q \in Promises : q # c => combi'[q] = combi[q]
    BY <2>2, <2>3, <2>4 DEF Base, Typed
  <2>6. Typed' /\ Good(stack', state') /\ Detached'
    BY <2>1, <2>5, <1>5, <1>6, <1>10 DEF Base, Typed, Detached, Pending, routineVars
  <2>7. state'[c] = state[c] /\ (Pending(c) => ~(state'[c] \in Ends))
    BY <2>1 DEF Pending, Ends
  <2> QED
    BY <1>11, <2>1, <2>4, <2>5, <2>6, <2>7, <1>3, <1>5, <1>6, <1>7, <1>10 DEF Keys
<1>12. CASE ~x.done /\ Pending(c) /\ d = None
  <2>1. combi' = [combi EXCEPT ![c].count = @ + 1] /\ stack' = b /\ UNCHANGED <<state, reactions>>
    BY <1>12, <1>2, <1>3, <1>4, <1>7, <1>9 DEF NotifyCombination
  <2>2. combi' = [combi EXCEPT ![c] = [x EXCEPT !.count = x.count + 1]]
    BY <2>1, <1>7
  <2>3. PICK y : y = [x EXCEPT !.count = x.count + 1]
    OBVIOUS
  <2>4. /\ y \in Combi /\ y.mode = x.mode /\ y.ins = x.ins /\ y.live = x.live /\ ~y.done
        /\ y.count = x.count + 1
    BY <2>3, <1>8, <1>12 DEF Combi
  <2>5. /\ combi' \in [Promises -> Combi] /\ combi'[c] = y
        /\ \A q \in Promises : q # c => combi'[q] = combi[q]
    BY <2>2, <2>3, <2>4 DEF Base, Typed
  <2>6. Typed' /\ Good(stack', state') /\ Detached'
    BY <2>1, <2>5, <1>5, <1>6, <1>10 DEF Base, Typed, Detached, Pending, routineVars
  <2>7. state'[c] = state[c] /\ (Pending(c) => ~(state'[c] \in Ends))
    BY <2>1 DEF Pending, Ends
  <2> QED
    BY <1>12, <2>1, <2>4, <2>5, <2>6, <2>7, <1>3, <1>5, <1>6, <1>7, <1>9, <1>10 DEF Keys
<1>13. CASE ~x.done /\ Pending(c) /\ d # None
  <2>1. combi' = [combi EXCEPT ![c].done = TRUE] /\ Settle(c, d, Append(Below, Combined(c)))
    BY <1>13, <1>2, <1>3, <1>4, <1>7, <1>9 DEF NotifyCombination
  <2>2. combi' = [combi EXCEPT ![c] = [x EXCEPT !.done = TRUE]]
    BY <2>1, <1>7
  <2>3. PICK y : y = [x EXCEPT !.done = TRUE]
    OBVIOUS
  <2>4. /\ y \in Combi /\ y.mode = x.mode /\ y.ins = x.ins /\ y.live = x.live /\ y.done
    BY <2>3, <1>8 DEF Combi
  <2>5. /\ combi' \in [Promises -> Combi] /\ combi'[c] = y
        /\ \A q \in Promises : q # c => combi'[q] = combi[q]
    BY <2>2, <2>3, <2>4 DEF Base, Typed
  <2>6. d \in Ends
    <3>1. PICK mode \in Modes : mode = x.mode
      BY <1>7, <1>13 DEF Base, Finishes
    <3>2. PICK e \in Ends : e = state[p]
      BY <1>5, <1>6
    <3>3. Decision(mode, x.count, x.ins, e) \in Ends \cup {None}
      BY DecisionEnds
    <3> QED
      BY <3>1, <3>2, <3>3, <1>9, <1>13
  <2>7. PICK f : f = Combined(c)
    OBVIOUS
  <2>8. f \in Frames /\ ~(f.op \in {"react", "handle", "notify"})
    BY <2>7, FrameMade DEF Combined
  <2>9. ~Has(b, f)
    <3>1. ~Ending(stack, c)
      BY <1>7, <1>13 DEF Base, Finishes
    <3> QED
      BY <3>1, <2>7, <1>6 DEF Keys, Ending
  <2>10. PICK s : s = Append(b, f)
    OBVIOUS
  <2>11. Good(s, st) /\ \A g : Has(s, g) <=> Has(b, g) \/ Same(f, g)
    BY <1>6, <2>8, <2>9, <2>10, Push
  <2>12. /\ \A q : Same(f, Combined(q)) <=> q = c
         /\ \A q : ~Same(f, Run(q, TRUE)) /\ ~Same(f, Notify(q))
    BY <2>7 DEF Same, Run, Notify, Combined
  <2>13. /\ \A k \in Routines : Going(s, k) <=> Going(stack, k)
         /\ \A q \in Promises : Ending(s, q) <=> Ending(stack, q) \/ q = c
         /\ \A q \in Promises : Telling(s, q) <=> Telling(stack, q) /\ q # p
    BY <2>11, <2>12, <1>6 DEF Keys, Going, Ending, Telling
  <2>14. Good(s, state) /\ Settle(c, d, s) /\ Typed /\ Detached
    BY <2>1, <2>7, <2>10, <2>11, <1>4, <1>5 DEF Base
  <2>15. /\ state' \in [Promises -> States]
         /\ reactions' \in [Promises -> Seq(Reaction)]
         /\ Good(stack', state') /\ Keys(s, stack')
         /\ \A q \in Promises :
              /\ state'[q] = (IF q = c /\ Pending(c) THEN d ELSE state[q])
              /\ reactions'[q] = (IF q = c THEN <<>> ELSE reactions[q])
              /\ Telling(stack', q) <=> Telling(s, q) \/ (q = c /\ Pending(c))
    BY <2>14, <2>6, SettleGood
  <2>16. Typed'
    BY <2>5, <2>15, <1>10 DEF Base, Typed, routineVars
  <2>17. Detached'
    BY <2>15, <1>13 DEF Base, Detached, Pending
  <2>18. /\ \A k \in Routines : Going(stack', k) <=> Going(stack, k)
         /\ \A q \in Promises : Ending(stack', q) <=> Ending(stack, q) \/ q = c
         /\ \A q \in Promises : Telling(stack', q) <=>
              (Telling(stack, q) /\ q # p) \/ (q = c /\ Pending(c))
    BY <2>13, <2>15 DEF Keys
  <2>19. state'[c] = d /\ state'[c] \in Ends
    BY <2>6, <2>15, <1>13
  <2>20. \A q \in Promises : q # c => /\ combi'[q] = combi[q] /\ state'[q] = state[q]
                                      /\ reactions'[q] = reactions[q]
                                      /\ Ending(stack', q) <=> Ending(stack, q)
    BY <2>5, <2>15, <2>18
  <2>21. \A q \in Promises : Telling(stack', q) <=>
           (Telling(stack, q) /\ q # p) \/ (q = c /\ Pending(c) /\ state'[c] \in Ends)
    BY <2>18, <2>19
  <2>22. /\ combi'[c].mode = combi[c].mode /\ combi'[c].ins = combi[c].ins
         /\ combi'[c].live = combi[c].live /\ combi'[c].done /\ ~combi[c].done
         /\ state'[c] = Decision(combi[c].mode, combi[c].count, combi[c].ins, state[p])
    BY <2>4, <2>5, <2>19, <1>7, <1>9, <1>13
  <2>23. Ending(stack', c) /\ \A k \in Routines : Going(stack', k) <=> Going(stack, k)
    BY <2>18
  <2>24. UNCHANGED <<slot, held, owed, routineVars, historyVars>>
    BY <1>10
  <2>25. slot[p] = c /\ state[p] \in Ends /\ Telling(stack, p) /\ Good(stack', state')
    BY <2>15, <1>3, <1>5, <1>6
  <2>26. /\ ~combi[c].done /\ Pending(c) /\ combi'[c].done
         /\ state'[c] = Decision(combi[c].mode, combi[c].count, combi[c].ins, state[p])
         /\ state'[c] \in Ends
         /\ Ending(stack', c)
    BY <1>13, <2>19, <2>22, <2>23
  <2>27. /\ combi'[c].mode = combi[c].mode /\ combi'[c].ins = combi[c].ins
         /\ combi'[c].live = combi[c].live
    BY <2>22
  <2>28. \A k \in Routines : Going(stack', k) <=> Going(stack, k)
    BY <2>23
  <2> WITNESS p \in Promises, c \in Promises
  <2> QED
    BY <2>16, <2>17, <2>20, <2>21, <2>24, <2>25, <2>26, <2>27, <2>28
<1> QED
  BY <1>11, <1>12, <1>13

LEMMA EndEffect == ASSUME Base, CombinationEnds
  PROVE \E c \in Promises :
    /\ Ending(stack, c)
    /\ Typed' /\ Good(stack', state') /\ Detached'
    /\ UNCHANGED <<state, reactions, held, owed, routineVars, historyVars>>
    /\ \A k \in Routines : Going(stack', k) <=> Going(stack, k)
    /\ \A q \in Promises : Telling(stack', q) <=> Telling(stack, q)
    /\ \A b \in Promises : Ending(stack', b) <=> Ending(stack, b) /\ b # c
    /\ \A q \in Promises : slot'[q] = IF q \in Range(combi[c].ins) THEN None ELSE slot[q]
    /\ \A b \in Promises : b # c => combi'[b] = combi[b]
    /\ combi'[c].mode = combi[c].mode /\ combi'[c].ins = combi[c].ins
    /\ combi'[c].done = combi[c].done /\ ~combi'[c].live
<1>1. stack # <<>> /\ Top.op = "combined"
  BY DEF CombinationEnds, At
<1>2. PICK f \in Frames : f = Top
  BY <1>1, TopOf
<1>3. PICK c \in Promises : c = Top.p
  BY <1>1, <1>2, FrameKinds
<1>4. /\ \A q : Same(f, Combined(q)) <=> q = c
      /\ \A q : ~Same(f, Run(q, TRUE)) /\ ~Same(f, Notify(q))
  BY <1>1, <1>2, <1>3 DEF Same, Run, Notify, Combined
<1>5. Ending(stack, c)
  <2>1. Len(stack) \in 1 .. Len(stack) /\ stack[Len(stack)] = f
    BY <1>1, <1>2 DEF Top, Base, Good
  <2> QED
    BY <1>4, <2>1 DEF Ending, Has
<1>6. PICK b : b = Below
  OBVIOUS
<1>7. PICK st : st = state
  OBVIOUS
<1>8. Good(b, st) /\ \A g : Has(b, g) <=> Has(stack, g) /\ ~Same(f, g)
  BY <1>1, <1>2, <1>6, <1>7, TopOf
<1>9. PICK x : x = combi[c]
  OBVIOUS
<1>10. x \in Combi
  BY <1>9 DEF Base, Typed
<1>11. PICK g : g = Release(x.ins)
  OBVIOUS
<1>12. g \in Frames /\ g.op \in {"release", "method"}
  BY <1>10, <1>11, FrameMade DEF Release, Combi
<1>13. stack' = Append(b, g)
  BY <1>3, <1>6, <1>9, <1>11 DEF CombinationEnds
<1>14. Good(stack', st) /\ Alike(b, stack')
  BY <1>8, <1>12, <1>13, Atop
<1>15. /\ \A k \in Routines : Going(stack', k) <=> Going(stack, k)
       /\ \A q \in Promises : Telling(stack', q) <=> Telling(stack, q)
       /\ \A q \in Promises : Ending(stack', q) <=> Ending(stack, q) /\ q # c
  BY <1>4, <1>8, <1>14 DEF Alike, Keys, Going, Telling, Ending
<1>16. UNCHANGED <<state, freed, refs, reactions, held, owed, routineVars, historyVars>>
  BY DEF CombinationEnds
<1>17. combi' = [combi EXCEPT ![c] = [x EXCEPT !.live = FALSE]]
  BY <1>3, <1>9 DEF CombinationEnds
<1>18. PICK y : y = [x EXCEPT !.live = FALSE]
  OBVIOUS
<1>19. y \in Combi /\ y.mode = x.mode /\ y.ins = x.ins /\ y.done = x.done /\ ~y.live
  BY <1>10, <1>18 DEF Combi
<1>20. /\ combi' \in [Promises -> Combi] /\ combi'[c] = y
       /\ \A q \in Promises : q # c => combi'[q] = combi[q]
  BY <1>17, <1>18, <1>19 DEF Base, Typed
<1>21. slot' = [q \in Promises |-> IF q \in Range(x.ins) THEN None ELSE slot[q]]
  BY <1>3, <1>9 DEF CombinationEnds, Inputs
<1>22. slot' \in [Promises -> Routines \cup Promises \cup {None}]
  BY <1>21 DEF Base, Typed
<1>23. Typed' /\ Good(stack', state') /\ Detached'
  BY <1>7, <1>14, <1>16, <1>20, <1>22 DEF Base, Typed, Detached, Pending, routineVars
<1> QED
  BY <1>5, <1>9, <1>15, <1>16, <1>19, <1>20, <1>21, <1>23

LEMMA AsyncEffect == ASSUME Base, NEW k \in Routines, NEW p \in Promises, Async(k, p)
  PROVE /\ state[p] = "new" /\ phase[k] = "new"
        /\ Typed' /\ Good(stack', state') /\ Detached' /\ Made'
        /\ UNCHANGED <<slot, owed, reactions, waiting, combi, historyVars>>
        /\ state'[p] = "pending" /\ \A q \in Promises : q # p => state'[q] = state[q]
        /\ result'[k] = p /\ phase'[k] = "running"
        /\ \A j \in Routines : j # k => result'[j] = result[j] /\ phase'[j] = phase[j]
        /\ \A j \in Routines : Going(stack', j) <=> Going(stack, j) \/ j = k
        /\ \A q \in Promises : Telling(stack', q) <=> Telling(stack, q)
        /\ \A q \in Promises : Ending(stack', q) <=> Ending(stack, q)
<1>1. /\ phase[k] = "new" /\ state[p] = "new"
      /\ state' = [state EXCEPT ![p] = "pending"]
      /\ held' = held \cup {p}
      /\ result' = [result EXCEPT ![k] = p]
      /\ phase' = [phase EXCEPT ![k] = "running"]
      /\ stack' = stack \o <<Method(p, p), Run(k, TRUE)>>
      /\ UNCHANGED <<freed, reactions, slot, owed, waiting, combi, historyVars>>
  BY DEF Async, Fresh
<1>2. /\ Typed' /\ state'[p] = "pending" /\ \A q \in Promises : q # p => state'[q] = state[q]
  BY <1>1 DEF Base, Typed, States
<1>3. Detached' /\ Made'
  BY <1>1, <1>2 DEF Base, Typed, Detached, Made, Pending
<1>4. /\ result'[k] = p /\ phase'[k] = "running"
      /\ \A j \in Routines : j # k => result'[j] = result[j] /\ phase'[j] = phase[j]
  BY <1>1 DEF Base, Typed
<1>5. PICK s : s = stack
  OBVIOUS
<1>6. PICK st : st = state
  OBVIOUS
<1>7. PICK new : new = state'
  OBVIOUS
<1>8. Good(s, st) /\ \A q \in Promises : st[q] \in Ends => new[q] \in Ends
  BY <1>1, <1>2, <1>5, <1>6, <1>7 DEF Base, Ends
<1>9. Good(s, new)
  BY <1>8, Age
<1>10. PICK m : m = Method(p, p)
  OBVIOUS
<1>11. PICK f : f = Run(k, TRUE)
  OBVIOUS
<1>12. /\ m \in Frames /\ m.op \in {"release", "method"}
       /\ f \in Frames /\ ~(f.op \in {"react", "handle", "notify"})
  BY <1>10, <1>11, FrameMade DEF Method, Run
<1>13. PICK t : t = Append(s, m)
  OBVIOUS
<1>14. Good(t, new) /\ Alike(s, t)
  BY <1>9, <1>12, <1>13, Atop
<1>15. ~Has(t, f)
  <2>1. ~Going(s, k)
    BY <1>1, <1>5 DEF Base, Runs
  <2> QED
    BY <2>1, <1>11, <1>14 DEF Alike, Keys, Going
<1>16. Good(Append(t, f), new) /\ \A g : Has(Append(t, f), g) <=> Has(t, g) \/ Same(f, g)
  BY <1>12, <1>14, <1>15, Push
<1>17. stack' = Append(t, f)
  <2>1. s \o <<m, f>> = Append(Append(s, m), f)
    BY <1>9, <1>12, AppendTwo
  <2> QED
    BY <2>1, <1>1, <1>5, <1>10, <1>11, <1>13
<1>18. /\ \A j : Same(f, Run(j, TRUE)) <=> j = k
       /\ \A q : ~Same(f, Notify(q)) /\ ~Same(f, Combined(q))
  BY <1>11 DEF Same, Run, Notify, Combined
<1>19. /\ \A j \in Routines : Going(stack', j) <=> Going(stack, j) \/ j = k
       /\ \A q \in Promises : Telling(stack', q) <=> Telling(stack, q)
       /\ \A q \in Promises : Ending(stack', q) <=> Ending(stack, q)
  BY <1>5, <1>14, <1>16, <1>17, <1>18 DEF Alike, Keys, Going, Telling, Ending
<1> QED
  BY <1>1, <1>2, <1>3, <1>4, <1>7, <1>16, <1>17, <1>19

LEMMA AwaitEffect ==
  ASSUME Base, NEW p \in Promises, AwaitKeyword(p) \/ AwaitFunction(p)
  PROVE \E k \in Routines :
    /\ Going(stack, k) /\ phase[k] = "running" /\ p \in held /\ Free(p)
    /\ Typed' /\ Good(stack', state')
    /\ UNCHANGED <<state, reactions, held, owed, result, combi, historyVars>>
    /\ waiting'[k] = p
    /\ \A q \in Promises : q # p => slot'[q] = slot[q]
    /\ \A j \in Routines : j # k => /\ waiting'[j] = waiting[j] /\ phase'[j] = phase[j]
                                    /\ Going(stack', j) <=> Going(stack, j)
    /\ \/ Pending(p) /\ slot'[p] = k /\ phase'[k] = "asleep" /\ ~Going(stack', k)
       \/ ~Pending(p) /\ slot'[p] = None /\ phase'[k] = "running" /\ Going(stack', k)
    /\ \A q \in Promises : Telling(stack', q) <=> Telling(stack, q)
    /\ \A q \in Promises : Ending(stack', q) <=> Ending(stack, q)
<1>1. stack # <<>> /\ Top.op = "run"
  BY DEF AwaitKeyword, AwaitFunction, At
<1>2. PICK k \in Routines : k = Top.k
  BY <1>1, TopRuns
<1>3. PICK b : b = Below
  OBVIOUS
<1>4. PICK st : st = state
  OBVIOUS
<1>5. /\ phase[k] = "running" /\ Good(b, st) /\ ~Going(b, k)
      /\ \A j \in Routines : j # k => (Going(b, j) <=> Going(stack, j))
      /\ \A q \in Promises : Telling(b, q) <=> Telling(stack, q)
      /\ \A q \in Promises : Ending(b, q) <=> Ending(stack, q)
  BY <1>1, <1>2, <1>3, <1>4, TopRuns, TopOf
<1>6. Going(stack, k)
  <2>1. Len(stack) \in 1 .. Len(stack) /\ stack[Len(stack)] = Top
    BY <1>1 DEF Top, Base, Good
  <2>2. Same(Top, Run(k, TRUE))
    BY <1>1, <1>2 DEF Same, Run
  <2> QED
    BY <2>1, <2>2 DEF Going, Has
<1>7. /\ p \in held /\ Free(p) /\ waiting' = [waiting EXCEPT ![k] = p]
      /\ UNCHANGED <<state, freed, reactions, held, owed, result, combi, historyVars>>
  BY <1>2 DEF AwaitKeyword, AwaitFunction, Usable
<1>8. PICK old : old = IF waiting[k] = None THEN <<>> ELSE <<waiting[k]>>
  OBVIOUS
<1>9. PICK r : r = Release(old)
  OBVIOUS
<1>10. r \in Frames /\ r.op \in {"release", "method"}
  <2>1. waiting[k] \in Promises \cup {None}
    BY DEF Base, Typed
  <2>2. <<>> \in Seq(Promises) /\ (waiting[k] # None => <<waiting[k]>> \in Seq(Promises))
    BY <2>1
  <2>3. old \in Seq(Promises)
    BY <1>8, <2>2
  <2> QED
    BY <2>3, <1>9, FrameMade DEF Release
<1>11. \/ /\ Pending(p) /\ slot' = [slot EXCEPT ![p] = k] /\ phase' = [phase EXCEPT ![k] = "asleep"]
          /\ stack' = b \/ stack' = Append(b, r)
       \/ /\ ~Pending(p) /\ slot' = [slot EXCEPT ![p] = None] /\ phase' = phase
          /\ stack' = b \o <<Run(k, FALSE), r>>
  BY <1>2, <1>3, <1>8, <1>9 DEF AwaitKeyword, AwaitFunction
<1>12. CASE Pending(p) /\ (stack' = b \/ stack' = Append(b, r))
  <2>1. slot' = [slot EXCEPT ![p] = k] /\ phase' = [phase EXCEPT ![k] = "asleep"]
    BY <1>11, <1>12
  <2>2. Good(stack', st) /\ Alike(b, stack')
    <3>1. CASE stack' = b
      BY <3>1, <1>5 DEF Alike, Keys
    <3>2. CASE stack' = Append(b, r)
      BY <3>2, <1>5, <1>10, Atop
    <3> QED
      BY <3>1, <3>2, <1>12
  <2>3. /\ ~Going(stack', k)
        /\ \A j \in Routines : j # k => (Going(stack', j) <=> Going(stack, j))
        /\ \A q \in Promises : Telling(stack', q) <=> Telling(stack, q)
        /\ \A q \in Promises : Ending(stack', q) <=> Ending(stack, q)
    BY <2>2, <1>5 DEF Alike, Keys
  <2>4. /\ Typed' /\ slot'[p] = k /\ phase'[k] = "asleep" /\ waiting'[k] = p
        /\ \A q \in Promises : q # p => slot'[q] = slot[q]
        /\ \A j \in Routines : j # k => waiting'[j] = waiting[j] /\ phase'[j] = phase[j]
    BY <2>1, <1>7 DEF Base, Typed
  <2>5. Good(stack', state')
    BY <2>2, <1>4, <1>7
  <2> QED
    BY <1>12, <1>5, <1>6, <1>7, <2>3, <2>4, <2>5
<1>13. CASE ~Pending(p)
  <2>1. /\ slot' = [slot EXCEPT ![p] = None] /\ phase' = phase
        /\ stack' = b \o <<Run(k, FALSE), r>>
    BY <1>11, <1>13
  <2>2. PICK f : f = Run(k, FALSE)
    OBVIOUS
  <2>3. /\ f \in Frames /\ ~(f.op \in {"react", "handle", "notify"})
        /\ \A j : Same(f, Run(j, TRUE)) <=> j = k
        /\ \A q : ~Same(f, Notify(q)) /\ ~Same(f, Combined(q))
        /\ \A i : Same(i, f) <=> Same(i, Run(k, TRUE))
    BY <2>2, FrameMade DEF Same, Run, Notify, Combined
  <2>4. ~Has(b, f)
    BY <2>3, <1>5 DEF Going, Has
  <2>5. PICK t : t = Append(b, f)
    OBVIOUS
  <2>6. Good(t, st) /\ \A g : Has(t, g) <=> Has(b, g) \/ Same(f, g)
    BY <2>3, <2>4, <2>5, <1>5, Push
  <2>7. Good(Append(t, r), st) /\ Alike(t, Append(t, r))
    BY <2>6, <1>10, Atop
  <2>8. stack' = Append(t, r)
    <3>1. b \o <<f, r>> = Append(Append(b, f), r)
      BY <1>5, <1>10, <2>3, AppendTwo
    <3> QED
      BY <3>1, <2>1, <2>2, <2>5
  <2>9. /\ \A j \in Routines : Going(t, j) <=> Going(b, j) \/ j = k
        /\ \A q \in Promises : Telling(t, q) <=> Telling(b, q)
        /\ \A q \in Promises : Ending(t, q) <=> Ending(b, q)
    BY <2>3, <2>6 DEF Going, Telling, Ending
  <2>10. /\ Going(stack', k)
         /\ \A j \in Routines : j # k => (Going(stack', j) <=> Going(stack, j))
         /\ \A q \in Promises : Telling(stack', q) <=> Telling(stack, q)
         /\ \A q \in Promises : Ending(stack', q) <=> Ending(stack, q)
    BY <2>7, <2>8, <2>9, <1>5 DEF Alike, Keys
  <2>11. /\ Typed' /\ slot'[p] = None /\ phase'[k] = "running" /\ waiting'[k] = p
         /\ \A q \in Promises : q # p => slot'[q] = slot[q]
         /\ \A j \in Routines : j # k => waiting'[j] = waiting[j] /\ phase'[j] = phase[j]
    BY <2>1, <1>5, <1>7 DEF Base, Typed
  <2>12. Good(stack', state')
    BY <2>7, <2>8, <1>4, <1>7
  <2> QED
    BY <1>13, <1>5, <1>6, <1>7, <2>10, <2>11, <2>12
<1> QED
  BY <1>11, <1>12, <1>13

LEMMA ResumeEffect == ASSUME Base, NotifyRoutine
  PROVE \E p \in Promises, k \in Routines :
    /\ slot[p] = k /\ state[p] \in Ends /\ Telling(stack, p)
    /\ Typed' /\ Good(stack', state')
    /\ UNCHANGED <<state, reactions, held, owed, waiting, result, combi, historyVars>>
    /\ slot'[p] = None /\ \A q \in Promises : q # p => slot'[q] = slot[q]
    /\ phase'[k] = "running" /\ \A j \in Routines : j # k => phase'[j] = phase[j]
    /\ \A j \in Routines : Going(stack', j) <=> Going(stack, j) \/ j = k
    /\ \A q \in Promises : Telling(stack', q) <=> Telling(stack, q) /\ q # p
    /\ \A q \in Promises : Ending(stack', q) <=> Ending(stack, q)
<1>1. stack # <<>> /\ Top.op = "notify" /\ slot[Top.p] \in Routines
  BY DEF NotifyRoutine, At
<1>2. PICK p \in Promises : p = Top.p
  BY <1>1, TopTells
<1>3. PICK k \in Routines : k = slot[p]
  BY <1>1, <1>2
<1>4. PICK b : b = Below
  OBVIOUS
<1>5. PICK st : st = state
  OBVIOUS
<1>6. /\ st[p] \in Ends /\ Telling(stack, p) /\ Good(b, st)
      /\ \A q \in Promises : Telling(b, q) <=> Telling(stack, q) /\ q # p
      /\ Keys(stack, b)
  BY <1>1, <1>2, <1>4, <1>5, TopTells
<1>7. PICK f : f = Run(k, FALSE)
  OBVIOUS
<1>8. /\ f \in Frames /\ ~(f.op \in {"react", "handle", "notify"})
      /\ \A j : Same(f, Run(j, TRUE)) <=> j = k
      /\ \A q : ~Same(f, Notify(q)) /\ ~Same(f, Combined(q))
      /\ \A i : Same(i, f) <=> Same(i, Run(k, TRUE))
  BY <1>7, FrameMade DEF Same, Run, Notify, Combined
<1>9. ~Has(b, f)
  <2>1. ~Going(stack, k)
    BY <1>3 DEF Base, Runs, Sleeps
  <2>2. ~Going(b, k)
    BY <2>1, <1>6 DEF Keys
  <2> QED
    BY <2>2, <1>8 DEF Going, Has
<1>10. Good(Append(b, f), st) /\ \A g : Has(Append(b, f), g) <=> Has(b, g) \/ Same(f, g)
  BY <1>6, <1>8, <1>9, Push
<1>11. /\ slot' = [slot EXCEPT ![p] = None] /\ phase' = [phase EXCEPT ![k] = "running"]
       /\ stack' = Append(b, f)
       /\ UNCHANGED <<state, freed, refs, reactions, held, owed, waiting, result, combi, historyVars>>
  BY <1>2, <1>3, <1>4, <1>7 DEF NotifyRoutine
<1>12. Good(stack', state')
  BY <1>5, <1>10, <1>11
<1>13. /\ \A j \in Routines : Going(stack', j) <=> Going(stack, j) \/ j = k
       /\ \A q \in Promises : Telling(stack', q) <=> Telling(stack, q) /\ q # p
       /\ \A q \in Promises : Ending(stack', q) <=> Ending(stack, q)
  BY <1>6, <1>8, <1>10, <1>11 DEF Keys, Going, Telling, Ending
<1>14. /\ Typed'
       /\ slot'[p] = None /\ \A q \in Promises : q # p => slot'[q] = slot[q]
       /\ phase'[k] = "running" /\ \A j \in Routines : j # k => phase'[j] = phase[j]
  BY <1>11 DEF Base, Typed
<1> QED
  BY <1>3, <1>5, <1>6, <1>11, <1>12, <1>13, <1>14

LEMMA NobodyEffect == ASSUME Base, NotifyNobody
  PROVE \E p \in Promises :
    /\ slot[p] = None /\ Good(stack', state')
    /\ UNCHANGED <<heapVars, held, owed, routineVars, combi, historyVars>>
    /\ Keys(stack, stack')
    /\ \A q \in Promises : Telling(stack', q) <=> Telling(stack, q) /\ q # p
<1>1. /\ stack # <<>> /\ Top.op = "notify" /\ slot[Top.p] = None /\ stack' = Below
      /\ UNCHANGED <<heapVars, held, owed, routineVars, combi, historyVars>>
  BY DEF NotifyNobody, At
<1>2. PICK p \in Promises : p = Top.p
  BY <1>1, TopTells
<1>3. /\ Good(stack', state) /\ Keys(stack, stack')
      /\ \A q \in Promises : Telling(stack', q) <=> Telling(stack, q) /\ q # p
  BY <1>1, <1>2, TopTells
<1> QED
  BY <1>1, <1>2, <1>3 DEF heapVars

LEMMA FreedEffect == ASSUME Base, RoutineFreed
  PROVE \E k \in Routines :
    /\ phase[k] = "running" /\ Typed' /\ Good(stack', state')
    /\ UNCHANGED <<heapVars, held, owed, result, combi, historyVars>>
    /\ phase'[k] = "done" /\ ~Going(stack', k)
    /\ \A j \in Routines : j # k => /\ waiting'[j] = waiting[j] /\ phase'[j] = phase[j]
                                    /\ Going(stack', j) <=> Going(stack, j)
    /\ \A q \in Promises : Telling(stack', q) <=> Telling(stack, q)
    /\ \A q \in Promises : Ending(stack', q) <=> Ending(stack, q)
<1>1. stack # <<>> /\ Top.op = "ended"
  BY DEF RoutineFreed, At
<1>2. PICK k \in Routines : k = Top.k
  BY <1>1, TopRuns
<1>3. PICK b : b = Below
  OBVIOUS
<1>4. PICK st : st = state
  OBVIOUS
<1>5. /\ phase[k] = "running" /\ Good(b, st) /\ ~Going(b, k)
      /\ \A j \in Routines : j # k => (Going(b, j) <=> Going(stack, j))
      /\ \A q \in Promises : Telling(b, q) <=> Telling(stack, q)
      /\ \A q \in Promises : Ending(b, q) <=> Ending(stack, q)
  BY <1>1, <1>2, <1>3, <1>4, TopRuns, TopOf
<1>6. PICK w : w = waiting[k]
  OBVIOUS
<1>7. PICK r : r = Release(<<w>>)
  OBVIOUS
<1>8. /\ stack' = b \/ (w # None /\ stack' = Append(b, r))
      /\ phase' = [phase EXCEPT ![k] = "done"] /\ waiting' = [waiting EXCEPT ![k] = None]
      /\ UNCHANGED <<heapVars, held, owed, result, combi, historyVars>>
  BY <1>2, <1>3, <1>6, <1>7 DEF RoutineFreed
<1>9. Good(stack', st) /\ Alike(b, stack')
  <2>1. CASE stack' = b
    BY <2>1, <1>5 DEF Alike, Keys
  <2>2. CASE w # None /\ stack' = Append(b, r)
    <3>1. w \in Promises
      BY <2>2, <1>6 DEF Base, Typed
    <3>2. <<w>> \in Seq(Promises)
      BY <3>1
    <3>3. r \in Frames /\ r.op \in {"release", "method"}
      BY <3>2, <1>7, FrameMade DEF Release
    <3> QED
      BY <2>2, <3>3, <1>5, Atop
  <2> QED
    BY <2>1, <2>2, <1>8
<1>10. /\ ~Going(stack', k)
       /\ \A j \in Routines : j # k => (Going(stack', j) <=> Going(stack, j))
       /\ \A q \in Promises : Telling(stack', q) <=> Telling(stack, q)
       /\ \A q \in Promises : Ending(stack', q) <=> Ending(stack, q)
  BY <1>9, <1>5 DEF Alike, Keys
<1>11. /\ Typed' /\ phase'[k] = "done"
       /\ \A j \in Routines : j # k => waiting'[j] = waiting[j] /\ phase'[j] = phase[j]
  BY <1>8 DEF Base, Typed, heapVars
<1>12. Good(stack', state')
  BY <1>9, <1>4, <1>8 DEF heapVars
<1> QED
  BY <1>5, <1>8, <1>10, <1>11, <1>12

-----------------------------------------------------------------------------
(* Types, good stacks and detached reactions: every step keeps them.       *)

LEMMA Steps == ASSUME Base, Next
  PROVE \/ Plain
        \/ \E mode \in Modes, ins \in Lists, c \in Promises : Combine(mode, ins, c)
        \/ \E k \in Routines, p \in Promises : Async(k, p)
        \/ \E p \in Promises : AwaitKeyword(p) \/ AwaitFunction(p)
        \/ NotifyCombination \/ CombinationEnds
        \/ NotifyRoutine \/ NotifyNobody \/ RoutineFreed
<1>1. CASE Native
  BY <1>1, ReactionPlain, DonePlain, ReleasePlain DEF Native
<1>2. ASSUME NEW ok \in BOOLEAN, HandlerEnds(ok) \/ RoutineEnds(ok) PROVE Plain
  BY <1>2, HandlerPlain, RoutinePlain
<1>3. ASSUME NEW p \in Promises, New(p) \/ Cancel(p) \/ Collect(p) PROVE Plain
  BY <1>3, NewPlain, CancelPlain, CollectPlain
<1>4. ASSUME NEW p \in Promises, NEW st \in {"fulfilled", "rejected"}, Complete(p, st) PROVE Plain
  BY <1>4, CompletePlain
<1>5. ASSUME NEW p \in Promises, NEW c \in Promises,
             NEW kind \in {"then", "catch", "finally"}, NEW h \in BOOLEAN, Chain(p, c, kind, h)
      PROVE Plain
  BY <1>5, ChainPlain
<1> QED
  BY <1>1, <1>2, <1>3, <1>4, <1>5 DEF Next

\* Who is about to be told of a promise is told of one that is settled.
LEMMA ToldSettled == ASSUME Base, NEW p \in Promises, Telling(stack, p)
  PROVE state[p] \in Ends
  BY DEF Base, Good, Late, Telling, Has, Same, Notify

LEMMA Distinct ==
  /\ \A k \in Routines : k # None /\ k \notin Promises
  /\ \A p \in Promises : p # None /\ p \notin Routines
  BY DEF None

LEMMA BaseInit == Init => Base
<1> SUFFICES ASSUME Init PROVE Base
  OBVIOUS
<1>1. NoCombi \in Combi
  BY DEF NoCombi, Combi
<1>2. Typed
  BY <1>1 DEF Init, Typed, States
<1>3. stack = <<>> /\ stack \in Seq(Frames) /\ Len(stack) = 0
  BY DEF Init
<1>4. Good(stack, state) /\ \A g : ~Has(stack, g)
  BY <1>3 DEF Good, Once, Late, Has
<1>5. Detached /\ Made
  BY DEF Init, Detached, Made
<1>6. Runs /\ Sleeps
  BY <1>4 DEF Init, Runs, Sleeps, Going, None
<1>7. Finishes
  BY <1>4 DEF Init, Finishes, Ending, NoCombi
<1> QED
  BY <1>2, <1>4, <1>5, <1>6, <1>7 DEF Base

LEMMA BaseStep == ASSUME Base, [Next]_vars PROVE Base'
<1>1. CASE UNCHANGED vars
  BY <1>1 DEF vars, heapVars, routineVars, Base, Typed, Good, Detached, Made, Runs, Sleeps,
    Finishes, Pending, Going, Ending, Has, Once, Late
<1>2. CASE Plain
  BY <1>2, PlainBase
<1>3. ASSUME NEW mode \in Modes, NEW ins \in Lists, NEW c \in Promises, Combine(mode, ins, c)
      PROVE Base'
  <2>1. PICK now \in Ends \cup {None} :
          /\ state[c] = "new"
          /\ Typed' /\ stack' = stack /\ Good(stack', state') /\ Detached' /\ Made'
          /\ UNCHANGED routineVars
          /\ state'[c] = (IF now = None THEN "pending" ELSE now)
          /\ combi'[c].mode = mode /\ combi'[c].ins = ins
          /\ \A p \in Promises : p # c => state'[p] = state[p] /\ combi'[p] = combi[p]
          /\ \A p \in Promises : slot'[p] \in {slot[p], None, c}
    BY <1>3, CombineEffect
  <2>2. Runs' /\ Sleeps'
    BY <2>1, Distinct DEF Base, Runs, Sleeps, routineVars
  <2>3. Finishes'
    BY <2>1 DEF Base, Finishes
  <2> QED
    BY <2>1, <2>2, <2>3 DEF Base
<1>4. CASE NotifyCombination
  <2>1. PICK p \in Promises, c \in Promises :
          /\ Typed' /\ Good(stack', state') /\ Detached'
          /\ UNCHANGED <<slot, held, owed, routineVars, historyVars>>
          /\ \A k \in Routines : Going(stack', k) <=> Going(stack, k)
          /\ \A b \in Promises : b # c => /\ combi'[b] = combi[b] /\ state'[b] = state[b]
                                          /\ Ending(stack', b) <=> Ending(stack, b)
          /\ combi'[c].mode = combi[c].mode /\ combi'[c].ins = combi[c].ins
          /\ \/ /\ state'[c] = state[c] /\ combi'[c].done
                /\ Ending(stack', c) <=> Ending(stack, c)
             \/ /\ ~combi[c].done /\ state'[c] = state[c]
                /\ Ending(stack', c) <=> Ending(stack, c)
             \/ combi'[c].done /\ state'[c] \in Ends
    BY <1>4, NotifyEffect
  <2>2. Made' /\ Runs' /\ Sleeps'
    <3>1. \A q \in Promises : state[q] # "new" => state'[q] # "new"
      BY <2>1 DEF Ends
    <3>2. Made'
      BY <2>1, <3>1 DEF Base, Typed, Made
    <3>3. Runs' /\ Sleeps'
      BY <2>1 DEF Base, Runs, Sleeps, routineVars
    <3> QED
      BY <3>2, <3>3
  <2>3. Finishes'
    BY <2>1 DEF Base, Finishes, Ends
  <2> QED
    BY <2>1, <2>2, <2>3 DEF Base
<1>5. CASE CombinationEnds
  <2>1. PICK c \in Promises :
          /\ Typed' /\ Good(stack', state') /\ Detached'
          /\ UNCHANGED <<state, reactions, held, owed, routineVars, historyVars>>
          /\ \A k \in Routines : Going(stack', k) <=> Going(stack, k)
          /\ \A b \in Promises : Ending(stack', b) <=> Ending(stack, b) /\ b # c
          /\ \A q \in Promises : slot'[q] = IF q \in Range(combi[c].ins) THEN None ELSE slot[q]
          /\ \A b \in Promises : b # c => combi'[b] = combi[b]
          /\ combi'[c].mode = combi[c].mode /\ combi'[c].ins = combi[c].ins
          /\ combi'[c].done = combi[c].done
    BY <1>5, EndEffect
  <2>2. Made' /\ Runs' /\ Sleeps'
    BY <2>1, Distinct DEF Base, Made, Runs, Sleeps, routineVars
  <2>3. Finishes'
    BY <2>1 DEF Base, Finishes
  <2> QED
    BY <2>1, <2>2, <2>3 DEF Base
<1>6. ASSUME NEW k \in Routines, NEW p \in Promises, Async(k, p) PROVE Base'
  <2>1. /\ state[p] = "new" /\ phase[k] = "new"
        /\ Typed' /\ Good(stack', state') /\ Detached' /\ Made'
        /\ UNCHANGED <<slot, owed, reactions, waiting, combi, historyVars>>
        /\ state'[p] = "pending" /\ \A q \in Promises : q # p => state'[q] = state[q]
        /\ result'[k] = p /\ phase'[k] = "running"
        /\ \A j \in Routines : j # k => result'[j] = result[j] /\ phase'[j] = phase[j]
        /\ \A j \in Routines : Going(stack', j) <=> Going(stack, j) \/ j = k
        /\ \A q \in Promises : Ending(stack', q) <=> Ending(stack, q)
    BY <1>6, AsyncEffect
  <2>2. Runs' /\ Sleeps'
    BY <2>1 DEF Base, Runs, Sleeps
  <2>3. Finishes'
    BY <2>1 DEF Base, Finishes
  <2> QED
    BY <2>1, <2>2, <2>3 DEF Base
<1>7. ASSUME NEW p \in Promises, AwaitKeyword(p) \/ AwaitFunction(p) PROVE Base'
  <2>1. PICK k \in Routines :
          /\ phase[k] = "running" /\ Typed' /\ Good(stack', state')
          /\ UNCHANGED <<state, reactions, held, owed, result, combi, historyVars>>
          /\ waiting'[k] = p
          /\ \A q \in Promises : q # p => slot'[q] = slot[q]
          /\ \A j \in Routines : j # k => /\ waiting'[j] = waiting[j] /\ phase'[j] = phase[j]
                                          /\ Going(stack', j) <=> Going(stack, j)
          /\ \/ slot'[p] = k /\ phase'[k] = "asleep" /\ ~Going(stack', k)
             \/ slot'[p] = None /\ phase'[k] = "running"
          /\ \A q \in Promises : Ending(stack', q) <=> Ending(stack, q)
    BY <1>7, AwaitEffect
  <2>2. Detached' /\ Made' /\ Runs'
    BY <2>1 DEF Base, Detached, Made, Pending, Runs
  <2>3. Sleeps'
    BY <2>1, Distinct DEF Base, Sleeps
  <2>4. Finishes'
    BY <2>1 DEF Base, Finishes
  <2> QED
    BY <2>1, <2>2, <2>3, <2>4 DEF Base
<1>8. CASE NotifyRoutine
  <2>1. PICK p \in Promises, k \in Routines :
          /\ slot[p] = k
          /\ Typed' /\ Good(stack', state')
          /\ UNCHANGED <<state, reactions, held, owed, waiting, result, combi, historyVars>>
          /\ slot'[p] = None /\ \A q \in Promises : q # p => slot'[q] = slot[q]
          /\ phase'[k] = "running" /\ \A j \in Routines : j # k => phase'[j] = phase[j]
          /\ \A j \in Routines : Going(stack', j) <=> Going(stack, j) \/ j = k
          /\ \A q \in Promises : Ending(stack', q) <=> Ending(stack, q)
    BY <1>8, ResumeEffect
  <2>2. Detached' /\ Made' /\ Runs'
    BY <2>1 DEF Base, Detached, Made, Pending, Runs, Sleeps
  <2>3. Sleeps'
    BY <2>1, Distinct DEF Base, Sleeps
  <2>4. Finishes'
    BY <2>1 DEF Base, Finishes
  <2> QED
    BY <2>1, <2>2, <2>3, <2>4 DEF Base
<1>9. CASE NotifyNobody
  <2>1. /\ Good(stack', state') /\ Keys(stack, stack')
        /\ UNCHANGED <<heapVars, held, owed, routineVars, combi, historyVars>>
    BY <1>9, NobodyEffect
  <2> QED
    BY <2>1 DEF Base, heapVars, routineVars, Typed, Detached, Made, Pending, Runs, Sleeps, Finishes, Keys
<1>10. CASE RoutineFreed
  <2>1. PICK k \in Routines :
          /\ phase[k] = "running" /\ Typed' /\ Good(stack', state')
          /\ UNCHANGED <<heapVars, held, owed, result, combi, historyVars>>
          /\ phase'[k] = "done" /\ ~Going(stack', k)
          /\ \A j \in Routines : j # k => /\ waiting'[j] = waiting[j] /\ phase'[j] = phase[j]
                                          /\ Going(stack', j) <=> Going(stack, j)
          /\ \A q \in Promises : Ending(stack', q) <=> Ending(stack, q)
    BY <1>10, FreedEffect
  <2>2. Detached' /\ Made' /\ Runs'
    BY <2>1 DEF heapVars, Base, Detached, Made, Pending, Runs
  <2>3. Sleeps'
    BY <2>1 DEF heapVars, Base, Sleeps
  <2>4. Finishes'
    BY <2>1 DEF heapVars, Base, Finishes
  <2> QED
    BY <2>1, <2>2, <2>3, <2>4 DEF Base
<1> QED
  BY <1>1, <1>2, <1>3, <1>4, <1>5, <1>6, <1>7, <1>8, <1>9, <1>10, Steps

LEMMA BaseHolds == Spec => []Base
<1>1. Base /\ [Next]_vars => Base'
  BY BaseStep
<1> QED
  BY <1>1, BaseInit, PTL DEF Spec

\* No settled promise keeps a reaction, although handlers chain to promises
\* and settle them while reactions run: a promise detaches its reactions when
\* it is settled, and one that is settled never gets any.
THEOREM NothingLeft == Spec => []NoReactionLeft
<1>1. Base => NoReactionLeft
  BY DEF Base, Detached, NoReactionLeft, Settled, Pending
<1> QED
  BY <1>1, BaseHolds, PTL

-----------------------------------------------------------------------------
(* Who waits for a promise, in programs that let only one wait.            *)

\* A sleeping coroutine is the continuation of what it waits for, which is
\* pending or about to tell it.
Resting == \A k \in Routines : phase[k] = "asleep" =>
  /\ waiting[k] \in Promises /\ slot[waiting[k]] = k
  /\ Pending(waiting[k]) \/ Telling(stack, waiting[k])

\* A combination that waits is the continuation of its pending inputs; of the
\* others no coroutine is about to be told.
Bound == \A c \in Promises :
  /\ combi[c].live =>
       /\ state[c] # "new"
       /\ \A p \in Range(combi[c].ins) :
            /\ p \in Promises /\ state[p] # "new"
            /\ Pending(p) => slot[p] = c
            /\ Telling(stack, p) => slot[p] \in {c, None}
  /\ Ending(stack, c) => combi[c].live
  /\ ~combi[c].done => combi[c].live

Exclusive == Resting /\ Bound

LEMMA DueIs == ASSUME NEW p PROVE Due(p) <=> Telling(stack, p)
  BY DEF Due, Active, Telling, Has, Same, Notify

\* Where a program may wait
LEMMA FreeIs == ASSUME ~Shared, NEW p, Free(p)
  PROVE /\ Pending(p) => slot[p] = None
        /\ Telling(stack, p) => slot[p] = None
  BY DueIs DEF Free, Settled, Pending

LEMMA ExclusivePlain == ASSUME Base, Exclusive, Plain PROVE Exclusive'
<1>1. \A p \in Promises : Pending(p) => state'[p] = "pending" \/ state'[p] \in Ends
  BY DEF Plain, Pending, States, Ends
<1>2. Resting'
  BY <1>1 DEF Exclusive, Resting, Plain, Pending, routineVars
<1>3. \A p \in Promises : state[p] # "new" => state'[p] # "new"
  BY DEF Plain, Base, Typed, States, Ends
<1>4. Bound'
  <2> SUFFICES ASSUME NEW c \in Promises
               PROVE /\ combi[c].live =>
                          /\ state'[c] # "new"
                          /\ \A p \in Range(combi[c].ins) :
                               /\ p \in Promises /\ state'[p] # "new"
                               /\ state'[p] = "pending" => slot[p] = c
                               /\ Telling(stack', p) => slot[p] \in {c, None}
                     /\ Ending(stack', c) => combi[c].live
                     /\ ~combi[c].done => combi[c].live
    BY DEF Bound, Pending, Plain
  <2> QED
    BY <1>3 DEF Exclusive, Bound, Plain, Pending, Keys
<1> QED
  BY <1>2, <1>4 DEF Exclusive

LEMMA ExclusiveStep == ASSUME ~Shared, Base, Exclusive, [Next]_vars PROVE Exclusive'
<1>1. CASE UNCHANGED vars
  BY <1>1 DEF vars, heapVars, routineVars, Exclusive, Resting, Bound, Pending, Telling, Ending, Has
<1>2. CASE Plain
  BY <1>2, ExclusivePlain
<1>3. ASSUME NEW mode \in Modes, NEW ins \in Lists, NEW c \in Promises, Combine(mode, ins, c)
      PROVE Exclusive'
  <2>1. PICK now \in Ends \cup {None} :
          /\ state[c] = "new"
          /\ \A p \in Range(ins) : p \in held /\ Free(p)
          /\ stack' = stack
          /\ UNCHANGED <<reactions, owed, routineVars, historyVars>>
          /\ state'[c] = (IF now = None THEN "pending" ELSE now)
          /\ combi'[c].mode = mode /\ combi'[c].ins = ins
          /\ (combi'[c].done <=> now # None) /\ (combi'[c].live <=> now = None)
          /\ \A p \in Promises : p # c => state'[p] = state[p] /\ combi'[p] = combi[p]
          /\ now = None => \A p \in Promises :
               slot'[p] = IF p \in Range(ins) /\ Pending(p) THEN c ELSE slot[p]
          /\ now # None => \A p \in Promises :
               slot'[p] = slot[p] \/ (slot'[p] = None /\ p \in Range(ins) /\ Pending(p))
    BY <1>3, CombineEffect
  <2>2. \A p \in Range(ins) : /\ p \in Promises /\ state[p] # "new"
                              /\ Pending(p) => slot[p] = None
                              /\ Telling(stack, p) => slot[p] = None
    BY <2>1, FreeIs DEF Base, Typed, Made
  <2>3. \A p \in Promises : slot'[p] # slot[p] => slot[p] = None /\ p \in Range(ins) /\ Pending(p)
    BY <2>1, <2>2
  <2>4. \A p \in Promises : Telling(stack, p) => p # c
    BY <2>1, ToldSettled DEF Ends
  <2>5. \A p \in Promises : Pending(p) => p # c
    BY <2>1 DEF Pending
  <2>6. Resting'
    BY <2>1, <2>3, <2>4, <2>5 DEF Exclusive, Resting, Pending, routineVars, None
  <2>7. ~Ending(stack, c)
    BY <2>1 DEF Base, Finishes
  <2>8. ASSUME NEW b \in Promises, b # c
        PROVE /\ combi'[b].live =>
                   /\ state'[b] # "new"
                   /\ \A p \in Range(combi'[b].ins) :
                        /\ p \in Promises /\ state'[p] # "new"
                        /\ state'[p] = "pending" => slot'[p] = b
                        /\ Telling(stack', p) => slot'[p] \in {b, None}
              /\ Ending(stack', b) => combi'[b].live
              /\ ~combi'[b].done => combi'[b].live
    <3>1. combi'[b] = combi[b] /\ state'[b] = state[b]
      BY <2>1, <2>8
    <3>2. ASSUME combi[b].live, NEW p \in Range(combi[b].ins)
          PROVE /\ p \in Promises /\ state'[p] # "new"
                /\ state'[p] = "pending" => slot'[p] = b
                /\ Telling(stack', p) => slot'[p] \in {b, None}
      <4>1. /\ p \in Promises /\ state[p] # "new"
            /\ Pending(p) => slot[p] = b
            /\ Telling(stack, p) => slot[p] \in {b, None}
        BY <3>2 DEF Exclusive, Bound
      <4>2. p # c
        BY <4>1, <2>1
      <4>3. state'[p] = state[p]
        BY <4>1, <4>2, <2>1
      <4>4. slot'[p] = slot[p] \/ (slot[p] = None /\ Pending(p))
        BY <4>1, <2>3
      <4>5. Telling(stack, p) => ~Pending(p)
        BY <4>1, ToldSettled DEF Pending, Ends
      <4> QED
        BY <2>1, <4>1, <4>3, <4>4, <4>5, Distinct DEF Pending
    <3> QED
      BY <2>1, <3>1, <3>2 DEF Exclusive, Bound
  <2>9. /\ combi'[c].live =>
             /\ state'[c] # "new"
             /\ \A p \in Range(combi'[c].ins) :
                  /\ p \in Promises /\ state'[p] # "new"
                  /\ state'[p] = "pending" => slot'[p] = c
                  /\ Telling(stack', p) => slot'[p] \in {c, None}
        /\ Ending(stack', c) => combi'[c].live
        /\ ~combi'[c].done => combi'[c].live
    <3>1. ASSUME now = None, NEW p \in Range(ins)
          PROVE /\ p \in Promises /\ state'[p] # "new"
                /\ state'[p] = "pending" => slot'[p] = c
                /\ Telling(stack', p) => slot'[p] \in {c, None}
      <4>1. state'[p] = state[p]
        BY <2>1, <2>2
      <4> QED
        BY <2>1, <2>2, <3>1, <4>1 DEF Pending
    <3>2. now = None => state'[c] # "new"
      BY <2>1
    <3> QED
      BY <2>1, <2>7, <3>1, <3>2
  <2>10. Bound'
    BY <2>8, <2>9 DEF Bound, Pending
  <2> QED
    BY <2>6, <2>10 DEF Exclusive
<1>4. CASE NotifyCombination
  <2>1. PICK p \in Promises, c \in Promises :
          /\ slot[p] = c
          /\ UNCHANGED <<slot, held, owed, routineVars, historyVars>>
          /\ \A b \in Promises : b # c => /\ combi'[b] = combi[b] /\ state'[b] = state[b]
                                          /\ Ending(stack', b) <=> Ending(stack, b)
          /\ \A q \in Promises : Telling(stack', q) <=>
               (Telling(stack, q) /\ q # p) \/ (q = c /\ Pending(c) /\ state'[c] \in Ends)
          /\ combi'[c].ins = combi[c].ins /\ combi'[c].live = combi[c].live
          /\ \/ /\ state'[c] = state[c] /\ combi'[c].done
                /\ Ending(stack', c) <=> Ending(stack, c)
             \/ /\ ~combi[c].done /\ state'[c] = state[c]
                /\ Ending(stack', c) <=> Ending(stack, c)
             \/ /\ ~combi[c].done /\ Pending(c) /\ combi'[c].done
                /\ state'[c] \in Ends /\ Ending(stack', c)
    BY <1>4, NotifyEffect
  <2>2. \A k \in Routines : slot[p] # k
    BY <2>1
  <2>3. \A q \in Promises : /\ Pending(q) => state'[q] = "pending" \/ Telling(stack', q)
                            /\ Telling(stack, q) /\ q # p => Telling(stack', q)
                            /\ state[q] # "new" => state'[q] # "new"
                            /\ state'[q] = "pending" => Pending(q)
                            /\ Telling(stack', q) => Telling(stack, q) \/ Pending(q)
    BY <2>1 DEF Pending, Ends
  <2>4. Resting'
    <3> SUFFICES ASSUME NEW k \in Routines, phase[k] = "asleep"
                 PROVE /\ waiting[k] \in Promises /\ slot[waiting[k]] = k
                       /\ state'[waiting[k]] = "pending" \/ Telling(stack', waiting[k])
      BY <2>1 DEF Resting, Pending, routineVars
    <3>1. /\ waiting[k] \in Promises /\ slot[waiting[k]] = k
          /\ Pending(waiting[k]) \/ Telling(stack, waiting[k])
      BY DEF Exclusive, Resting
    <3> QED
      BY <2>2, <2>3, <3>1
  <2>5. ASSUME NEW b \in Promises
        PROVE /\ combi'[b].live = combi[b].live /\ combi'[b].ins = combi[b].ins
              /\ Ending(stack', b) => combi[b].live
              /\ ~combi'[b].done => combi[b].live
    BY <2>1 DEF Exclusive, Bound
  <2>6. Bound'
    <3> SUFFICES ASSUME NEW b \in Promises
                 PROVE combi[b].live =>
                         /\ state'[b] # "new"
                         /\ \A q \in Range(combi[b].ins) :
                              /\ q \in Promises /\ state'[q] # "new"
                              /\ state'[q] = "pending" => slot[q] = b
                              /\ Telling(stack', q) => slot[q] \in {b, None}
      BY <2>1, <2>5 DEF Bound, Pending
    <3> QED
      BY <2>3 DEF Exclusive, Bound
  <2> QED
    BY <2>4, <2>6 DEF Exclusive
<1>5. CASE CombinationEnds
  <2>1. PICK c \in Promises :
          /\ Ending(stack, c)
          /\ UNCHANGED <<state, reactions, held, owed, routineVars, historyVars>>
          /\ \A q \in Promises : Telling(stack', q) <=> Telling(stack, q)
          /\ \A b \in Promises : Ending(stack', b) <=> Ending(stack, b) /\ b # c
          /\ \A q \in Promises : slot'[q] = IF q \in Range(combi[c].ins) THEN None ELSE slot[q]
          /\ \A b \in Promises : b # c => combi'[b] = combi[b]
          /\ combi'[c].done = combi[c].done /\ ~combi'[c].live
    BY <1>5, EndEffect
  <2>2. /\ combi[c].live /\ combi[c].done
        /\ \A q \in Range(combi[c].ins) : /\ q \in Promises
                                          /\ Pending(q) => slot[q] = c
                                          /\ Telling(stack, q) => slot[q] \in {c, None}
    BY <2>1 DEF Exclusive, Bound, Base, Finishes
  <2>3. Resting'
    <3> SUFFICES ASSUME NEW k \in Routines, phase[k] = "asleep"
                 PROVE /\ waiting[k] \in Promises /\ slot'[waiting[k]] = k
                       /\ state[waiting[k]] = "pending" \/ Telling(stack', waiting[k])
      BY <2>1 DEF Resting, Pending, routineVars
    <3>1. /\ waiting[k] \in Promises /\ slot[waiting[k]] = k
          /\ Pending(waiting[k]) \/ Telling(stack, waiting[k])
      BY DEF Exclusive, Resting
    <3>2. k # c /\ k # None
      BY DEF None
    <3>3. waiting[k] \notin Range(combi[c].ins)
      BY <2>2, <3>1, <3>2
    <3> QED
      BY <2>1, <3>1, <3>3 DEF Pending
  <2>4. Bound'
    <3> SUFFICES ASSUME NEW b \in Promises
                 PROVE /\ combi'[b].live =>
                            /\ state[b] # "new"
                            /\ \A q \in Range(combi'[b].ins) :
                                 /\ q \in Promises /\ state[q] # "new"
                                 /\ Pending(q) => slot'[q] = b
                                 /\ Telling(stack', q) => slot'[q] \in {b, None}
                       /\ Ending(stack', b) => combi'[b].live
                       /\ ~combi'[b].done => combi'[b].live
      BY <2>1 DEF Bound, Pending
    <3>1. CASE b = c
      BY <2>1, <2>2, <3>1
    <3>2. CASE b # c
      <4>1. combi'[b] = combi[b]
        BY <2>1, <3>2
      <4>2. ASSUME combi[b].live, NEW q \in Range(combi[b].ins)
            PROVE /\ q \in Promises /\ state[q] # "new"
                  /\ Pending(q) => slot'[q] = b
                  /\ Telling(stack', q) => slot'[q] \in {b, None}
        <5>1. /\ q \in Promises /\ state[q] # "new"
              /\ Pending(q) => slot[q] = b
              /\ Telling(stack, q) => slot[q] \in {b, None}
          BY <4>2 DEF Exclusive, Bound
        <5>2. Pending(q) => q \notin Range(combi[c].ins)
          BY <5>1, <2>2, <3>2
        <5> QED
          BY <2>1, <5>1, <5>2
      <4> QED
        BY <2>1, <4>1, <4>2 DEF Exclusive, Bound
    <3> QED
      BY <3>1, <3>2
  <2> QED
    BY <2>3, <2>4 DEF Exclusive
<1>6. ASSUME NEW k \in Routines, NEW p \in Promises, Async(k, p) PROVE Exclusive'
  <2>1. /\ state[p] = "new"
        /\ UNCHANGED <<slot, owed, reactions, waiting, combi, historyVars>>
        /\ state'[p] = "pending" /\ \A q \in Promises : q # p => state'[q] = state[q]
        /\ phase'[k] = "running"
        /\ \A j \in Routines : j # k => phase'[j] = phase[j]
        /\ \A q \in Promises : Telling(stack', q) <=> Telling(stack, q)
        /\ \A q \in Promises : Ending(stack', q) <=> Ending(stack, q)
    BY <1>6, AsyncEffect
  <2>2. Resting'
    <3> SUFFICES ASSUME NEW j \in Routines, phase'[j] = "asleep"
                 PROVE /\ waiting[j] \in Promises /\ slot[waiting[j]] = j
                       /\ state'[waiting[j]] = "pending" \/ Telling(stack', waiting[j])
      BY <2>1 DEF Resting, Pending
    <3>1. phase[j] = "asleep"
      BY <2>1
    <3>2. /\ waiting[j] \in Promises /\ slot[waiting[j]] = j
          /\ Pending(waiting[j]) \/ Telling(stack, waiting[j])
      BY <3>1 DEF Exclusive, Resting
    <3> QED
      BY <2>1, <3>2 DEF Pending
  <2>3. Bound'
    <3> SUFFICES ASSUME NEW b \in Promises
                 PROVE /\ combi[b].live =>
                            /\ state'[b] # "new"
                            /\ \A q \in Range(combi[b].ins) :
                                 /\ q \in Promises /\ state'[q] # "new"
                                 /\ state'[q] = "pending" => slot[q] = b
                                 /\ Telling(stack', q) => slot[q] \in {b, None}
                       /\ Ending(stack', b) => combi[b].live
                       /\ ~combi[b].done => combi[b].live
      BY <2>1 DEF Bound, Pending
    <3> QED
      BY <2>1 DEF Exclusive, Bound, Pending
  <2> QED
    BY <2>2, <2>3 DEF Exclusive
<1>7. ASSUME NEW p \in Promises, AwaitKeyword(p) \/ AwaitFunction(p) PROVE Exclusive'
  <2>1. PICK k \in Routines :
          /\ p \in held /\ Free(p)
          /\ UNCHANGED <<state, reactions, held, owed, result, combi, historyVars>>
          /\ waiting'[k] = p
          /\ \A q \in Promises : q # p => slot'[q] = slot[q]
          /\ \A j \in Routines : j # k => /\ waiting'[j] = waiting[j] /\ phase'[j] = phase[j]
                                          /\ Going(stack', j) <=> Going(stack, j)
          /\ \/ Pending(p) /\ slot'[p] = k /\ phase'[k] = "asleep" /\ ~Going(stack', k)
             \/ ~Pending(p) /\ slot'[p] = None /\ phase'[k] = "running" /\ Going(stack', k)
          /\ \A q \in Promises : Telling(stack', q) <=> Telling(stack, q)
          /\ \A q \in Promises : Ending(stack', q) <=> Ending(stack, q)
    BY <1>7, AwaitEffect
  <2>2. /\ Pending(p) => slot[p] = None
        /\ Telling(stack, p) => slot[p] = None
    BY <2>1, FreeIs
  <2>3. Resting'
    <3> SUFFICES ASSUME NEW j \in Routines, phase'[j] = "asleep"
                 PROVE /\ waiting'[j] \in Promises /\ slot'[waiting'[j]] = j
                       /\ state[waiting'[j]] = "pending" \/ Telling(stack', waiting'[j])
      BY <2>1 DEF Resting, Pending
    <3>1. CASE j = k
      BY <3>1, <2>1 DEF Pending
    <3>2. CASE j # k
      <4>1. phase[j] = "asleep" /\ waiting'[j] = waiting[j]
        BY <2>1, <3>2
      <4>2. /\ waiting[j] \in Promises /\ slot[waiting[j]] = j
            /\ Pending(waiting[j]) \/ Telling(stack, waiting[j])
        BY <4>1 DEF Exclusive, Resting
      <4>3. waiting[j] # p
        BY <2>2, <4>2 DEF None
      <4> QED
        BY <2>1, <4>1, <4>2, <4>3 DEF Pending
    <3> QED
      BY <3>1, <3>2
  <2>4. Bound'
    <3> SUFFICES ASSUME NEW b \in Promises
                 PROVE combi[b].live =>
                         \A q \in Range(combi[b].ins) :
                              /\ Pending(q) => slot'[q] = b
                              /\ Telling(stack', q) => slot'[q] \in {b, None}
      BY <2>1 DEF Bound, Pending, Exclusive
    <3> SUFFICES ASSUME combi[b].live, NEW q \in Range(combi[b].ins)
                 PROVE /\ Pending(q) => slot'[q] = b
                       /\ Telling(stack', q) => slot'[q] \in {b, None}
      OBVIOUS
    <3>1. /\ q \in Promises
          /\ Pending(q) => slot[q] = b
          /\ Telling(stack, q) => slot[q] \in {b, None}
          /\ Telling(stack, q) => ~Pending(q)
      BY ToldSettled DEF Exclusive, Bound, Pending, Ends
    <3>2. None # b
      BY DEF None
    <3> QED
      BY <2>1, <2>2, <3>1, <3>2
  <2> QED
    BY <2>3, <2>4 DEF Exclusive
<1>8. CASE NotifyRoutine
  <2>1. PICK p \in Promises, k \in Routines :
          /\ slot[p] = k /\ state[p] \in Ends
          /\ UNCHANGED <<state, reactions, held, owed, waiting, result, combi, historyVars>>
          /\ slot'[p] = None /\ \A q \in Promises : q # p => slot'[q] = slot[q]
          /\ phase'[k] = "running" /\ \A j \in Routines : j # k => phase'[j] = phase[j]
          /\ \A q \in Promises : Telling(stack', q) <=> Telling(stack, q) /\ q # p
          /\ \A q \in Promises : Ending(stack', q) <=> Ending(stack, q)
    BY <1>8, ResumeEffect
  <2>2. Resting'
    BY <2>1 DEF Exclusive, Resting, Pending
  <2>3. Bound'
    BY <2>1 DEF Exclusive, Bound, Pending, Ends
  <2> QED
    BY <2>2, <2>3 DEF Exclusive
<1>9. CASE NotifyNobody
  <2>1. PICK p \in Promises :
          /\ slot[p] = None
          /\ UNCHANGED <<heapVars, held, owed, routineVars, combi, historyVars>>
          /\ Keys(stack, stack')
          /\ \A q \in Promises : Telling(stack', q) <=> Telling(stack, q) /\ q # p
    BY <1>9, NobodyEffect
  <2>2. Resting'
    <3>1. \A k \in Routines : slot[p] # k
      BY <2>1 DEF None
    <3> QED
      BY <2>1, <3>1 DEF Exclusive, Resting, Pending, heapVars, routineVars
  <2>3. Bound'
    BY <2>1 DEF Exclusive, Bound, Pending, heapVars, Keys
  <2> QED
    BY <2>2, <2>3 DEF Exclusive
<1>10. CASE RoutineFreed
  <2>1. PICK k \in Routines :
          /\ UNCHANGED <<heapVars, held, owed, result, combi, historyVars>>
          /\ phase'[k] = "done"
          /\ \A j \in Routines : j # k => /\ waiting'[j] = waiting[j] /\ phase'[j] = phase[j]
                                          /\ Going(stack', j) <=> Going(stack, j)
          /\ \A q \in Promises : Telling(stack', q) <=> Telling(stack, q)
          /\ \A q \in Promises : Ending(stack', q) <=> Ending(stack, q)
    BY <1>10, FreedEffect
  <2>2. Resting'
    BY <2>1 DEF Exclusive, Resting, Pending, heapVars
  <2>3. Bound'
    BY <2>1 DEF Exclusive, Bound, Pending, heapVars
  <2> QED
    BY <2>2, <2>3 DEF Exclusive
<1> QED
  BY <1>1, <1>2, <1>3, <1>4, <1>5, <1>6, <1>7, <1>8, <1>9, <1>10, Steps

LEMMA ExclusiveInit == Init => Exclusive
  BY DEF Init, Exclusive, Resting, Bound, NoCombi, Ending, Has

\* Where at most one waits for each promise, a sleeping coroutine is the
\* continuation of what it waits for, which is pending or about to resume it:
\* nobody takes or clears the one continuation of a promise meanwhile.
THEOREM SleepersRegistered == ASSUME ~Shared PROVE Spec => []SleeperRegistered
<1>1. Exclusive => SleeperRegistered
  BY DueIs DEF Exclusive, Resting, SleeperRegistered
<1>2. Base /\ Exclusive /\ [Next]_vars => Exclusive'
  BY ExclusiveStep
<1> QED
  BY <1>1, <1>2, BaseHolds, ExclusiveInit, PTL DEF Spec

-----------------------------------------------------------------------------
(* Who settles what: nobody but a combination settles its promise, unless  *)
(* the program cancels it.                                                 *)

Kids == {x.r.child : x \in chains}

\* The reactions of a list, a frame, a stack settle members of K.
ListKids(x, K) == \A j \in 1 .. Len(x) : x[j].child \in K
FrameKids(f, K) == /\ f.op = "react" => ListKids(f.todo, K)
                   /\ f.op = "handle" => f.r.child \in K
KidsIn(s, K) == s \in Seq(Frames) /\ \A i \in 1 .. Len(s) : FrameKids(s[i], K)

\* Promises that a reaction, an event or a coroutine settles
Others == Kids \cup owed \cup {result[k] : k \in Routines}

Apart ==
  /\ chains \subseteq [parent : Promises, r : Reaction]
  /\ KidsIn(stack, Kids)
  /\ \A p \in Promises : ListKids(reactions[p], Kids)
  /\ \A p \in Promises \cap Others : state[p] # "new" /\ combi[p].mode = None
  /\ \A p \in Promises : combi[p].mode # None => state[p] # "new"

\* A step settles no combination that is not cancelled.
Foreign == \A p \in Promises :
  Pending(p) /\ state'[p] \in Ends => combi[p].mode = None \/ p \in cancels'

LEMMA KidTop == ASSUME Base, Apart, stack # <<>>
  PROVE KidsIn(Below, Kids) /\ Top \in Frames /\ FrameKids(Top, Kids)
<1>1. stack \in Seq(Frames) /\ Len(stack) \in Nat \ {0} /\ Len(stack) \in 1 .. Len(stack)
  BY DEF Base, Good
<1>2. Top \in Frames /\ FrameKids(Top, Kids)
  BY <1>1 DEF Top, Apart, KidsIn
<1>3. PICK s : s = stack
  OBVIOUS
<1>4. PICK n : n = Len(s) - 1
  OBVIOUS
<1>5. n \in Nat /\ 1 \in Int /\ n \in Int /\ \A i \in 1 .. n : s[i] \in Frames
  BY <1>1, <1>3, <1>4
<1>6. /\ SubSeq(s, 1, n) \in Seq(Frames)
      /\ Len(SubSeq(s, 1, n)) = IF 1 <= n THEN n - 1 + 1 ELSE 0
      /\ \A i \in 1 .. n - 1 + 1 : SubSeq(s, 1, n)[i] = s[1 + i - 1]
  BY <1>5, SubSeqProperties
<1>7. Below = SubSeq(s, 1, n)
  BY <1>3, <1>4 DEF Below, Front
<1>8. \A i \in 1 .. n : FrameKids(s[i], Kids)
  BY <1>1, <1>3, <1>4 DEF Apart, KidsIn
<1> QED
  BY <1>2, <1>5, <1>6, <1>7, <1>8 DEF KidsIn

LEMMA KidPush == ASSUME NEW s, NEW K, KidsIn(s, K), NEW f \in Frames, FrameKids(f, K)
  PROVE KidsIn(Append(s, f), K)
  BY DEF KidsIn

LEMMA KidPushes ==
  ASSUME NEW s, NEW K, KidsIn(s, K), NEW f \in Frames, FrameKids(f, K), NEW g \in Frames, FrameKids(g, K)
  PROVE KidsIn(s \o <<f, g>>, K)
<1>1. s \o <<f, g>> = Append(Append(s, f), g)
  BY DEF KidsIn
<1> QED
  BY <1>1, KidPush

\* Frames that settle nothing by themselves
LEMMA Childless == ASSUME NEW f, f.op \notin {"react", "handle"}, NEW K PROVE FrameKids(f, K)
  BY DEF FrameKids

LEMMA SettleApart ==
  ASSUME Base, Apart, NEW p \in Promises, NEW st, NEW b, KidsIn(b, Kids), Settle(p, st, b)
  PROVE KidsIn(stack', Kids) /\ \A q \in Promises : ListKids(reactions'[q], Kids)
<1>1. CASE ~Pending(p)
  BY <1>1 DEF Settle, Apart
<1>2. CASE Pending(p)
  <2>1. /\ reactions' = [reactions EXCEPT ![p] = <<>>]
        /\ stack' = b \o <<Notify(p), React(p, reactions[p])>>
    BY <1>2 DEF Settle
  <2>2. \A q \in Promises : ListKids(reactions'[q], Kids)
    BY <2>1 DEF Apart, Base, Typed, ListKids
  <2>3. PICK f : f = Notify(p)
    OBVIOUS
  <2>4. PICK g : g = React(p, reactions[p])
    OBVIOUS
  <2>5. PICK K : K = Kids
    OBVIOUS
  <2>6. f \in Frames /\ g \in Frames /\ FrameKids(f, K) /\ FrameKids(g, K)
    BY <2>3, <2>4, <2>5, FrameMade DEF Base, Typed, Apart, FrameKids, Notify, React
  <2>7. KidsIn(b \o <<f, g>>, K)
    BY <2>5, <2>6, KidPushes
  <2> QED
    BY <2>1, <2>2, <2>3, <2>4, <2>5, <2>7
<1> QED
  BY <1>1, <1>2

\* Steps that make no promise
LEMMA ApartSame ==
  ASSUME Base, Apart, KidsIn(stack', Kids),
         \A q \in Promises : ListKids(reactions'[q], Kids),
         chains' = chains, owed' \subseteq owed, result' = result,
         \A p \in Promises : combi'[p].mode = combi[p].mode,
         \A p \in Promises : state[p] # "new" => state'[p] # "new"
  PROVE Apart'
<1>1. Kids' = Kids /\ Others' \subseteq Others
  BY DEF Kids, Others
<1> QED
  BY <1>1 DEF Apart

\* Settling something else than a combination
LEMMA SettleForeign ==
  ASSUME Base, Apart, NEW p \in Promises, NEW st \in Ends, NEW b, KidsIn(b, Kids), Settle(p, st, b),
         p \in Others \cup cancels', chains' = chains, owed' \subseteq owed, result' = result,
         combi' = combi
  PROVE Apart' /\ Foreign
<1>1. KidsIn(stack', Kids) /\ \A q \in Promises : ListKids(reactions'[q], Kids)
  BY SettleApart
<1>2. \A q \in Promises : state'[q] = (IF q = p /\ Pending(p) THEN st ELSE state[q])
  BY DEF Settle, Base, Typed
<1>3. \A q \in Promises : state[q] # "new" => state'[q] # "new"
  BY <1>2 DEF Ends
<1>4. Apart'
  BY <1>1, <1>3, ApartSame
<1>5. Foreign
  BY <1>2 DEF Foreign, Apart, Pending, Ends
<1> QED
  BY <1>4, <1>5

LEMMA ForeignSame == ASSUME state' = state PROVE Foreign
  BY DEF Foreign, Pending, Ends

\* Steps that change the stack, and drop reactions at most
LEMMA StackApart ==
  ASSUME Base, Apart, KidsIn(stack', Kids),
         \A q \in Promises : reactions'[q] \in {reactions[q], <<>>},
         UNCHANGED <<state, chains, result>>, owed' \subseteq owed,
         \A p \in Promises : combi'[p].mode = combi[p].mode
  PROVE Apart' /\ Foreign
<1>1. \A q \in Promises : ListKids(reactions'[q], Kids)
  BY DEF Apart, ListKids
<1> QED
  BY <1>1, ApartSame, ForeignSame

LEMMA ApartReaction == ASSUME Base, Apart, RunReaction PROVE Apart' /\ Foreign
<1>1. stack # <<>> /\ Top.op = "react" /\ Top.todo # <<>>
  BY DEF RunReaction, At
<1>2. PICK f \in Frames : f = Top
  BY <1>1, TopOf
<1>3. PICK b : b = Below
  OBVIOUS
<1>4. PICK K : K = Kids
  OBVIOUS
<1>5. KidsIn(b, K) /\ FrameKids(f, K)
  BY <1>1, <1>2, <1>3, <1>4, KidTop
<1>6. f.p \in Promises /\ f.todo \in Seq(Reaction) /\ f.todo # <<>> /\ state[f.p] \in Ends
  BY <1>1, <1>2, FrameKinds, TopOf
<1>7. PICK r : r = Head(f.todo)
  OBVIOUS
<1>8. /\ r \in Reaction /\ r.child \in K /\ Tail(f.todo) \in Seq(Reaction)
      /\ ListKids(Tail(f.todo), K)
  BY <1>1, <1>2, <1>5, <1>6, <1>7 DEF FrameKids, ListKids
<1>9. r.child \in Promises /\ <<r.child>> \in Seq(Promises)
  BY <1>8 DEF Reaction
<1>10. PICK g1 : g1 = React(f.p, Tail(f.todo))
  OBVIOUS
<1>11. PICK g2 : g2 = Release(<<r.child>>)
  OBVIOUS
<1>12. g1 \in Frames /\ g2 \in Frames /\ FrameKids(g1, K) /\ FrameKids(g2, K)
  BY <1>6, <1>8, <1>9, <1>10, <1>11, FrameMade DEF FrameKids, React, Release
<1>13. PICK rest : rest = b \o <<g1, g2>>
  OBVIOUS
<1>14. KidsIn(rest, K)
  BY <1>5, <1>12, <1>13, KidPushes
<1>15. UNCHANGED <<freed, refs, slot, held, owed, routineVars, combi, historyVars>>
  BY DEF RunReaction
<1>16. CASE ~Matches(r, state[f.p])
  <2>1. stack' = rest /\ UNCHANGED <<state, reactions>>
    BY <1>2, <1>3, <1>7, <1>10, <1>11, <1>13, <1>16 DEF RunReaction
  <2> QED
    BY <2>1, <1>4, <1>14, <1>15, StackApart DEF routineVars, historyVars
<1>17. CASE Matches(r, state[f.p]) /\ r.handler
  <2>1. PICK h : h = Handle(f.p, r)
    OBVIOUS
  <2>2. stack' = Append(rest, h) /\ UNCHANGED <<state, reactions>>
    BY <1>2, <1>3, <1>7, <1>10, <1>11, <1>13, <1>17, <2>1 DEF RunReaction
  <2>3. h \in Frames /\ FrameKids(h, K)
    BY <1>6, <1>8, <2>1, FrameMade DEF FrameKids, Handle
  <2>4. KidsIn(stack', Kids)
    BY <1>4, <1>14, <2>2, <2>3, KidPush
  <2> QED
    BY <2>2, <2>4, <1>15, StackApart DEF routineVars, historyVars
<1>18. CASE Matches(r, state[f.p]) /\ ~r.handler
  <2>1. PICK c \in Promises : c = r.child
    BY <1>9
  <2>2. PICK st \in Ends : st = state[f.p]
    BY <1>6
  <2>3. Settle(c, st, rest)
    BY <1>2, <1>3, <1>7, <1>10, <1>11, <1>13, <1>18, <2>1, <2>2 DEF RunReaction
  <2>4. /\ c \in Others \cup cancels' /\ KidsIn(rest, Kids)
        /\ chains' = chains /\ owed' \subseteq owed /\ result' = result /\ combi' = combi
    BY <2>1, <1>4, <1>8, <1>14, <1>15 DEF Others, routineVars, historyVars
  <2> QED
    BY <2>3, <2>4, SettleForeign
<1> QED
  BY <1>16, <1>17, <1>18

LEMMA ApartHandler == ASSUME Base, Apart, NEW ok \in BOOLEAN, HandlerEnds(ok)
  PROVE Apart' /\ Foreign
<1>1. stack # <<>> /\ Top.op = "handle"
  BY DEF HandlerEnds, At
<1>2. PICK f \in Frames : f = Top
  BY <1>1, TopOf
<1>3. PICK b : b = Below
  OBVIOUS
<1>4. KidsIn(b, Kids) /\ FrameKids(f, Kids)
  BY <1>1, <1>2, <1>3, KidTop
<1>5. f.p \in Promises /\ f.r \in Reaction /\ state[f.p] \in Ends
  BY <1>1, <1>2, FrameKinds, TopOf
<1>6. PICK c \in Promises : c = f.r.child
  BY <1>5 DEF Reaction
<1>7. c \in Others
  BY <1>1, <1>2, <1>4, <1>6 DEF FrameKids, Others
<1>8. PICK st : st = IF f.r.kind = "finally" THEN state[f.p]
                     ELSE IF ok THEN "fulfilled" ELSE "rejected"
  OBVIOUS
<1>9. st \in Ends
  BY <1>5, <1>8 DEF Ends
<1>10. Settle(c, st, b)
  BY <1>2, <1>3, <1>6, <1>8 DEF HandlerEnds
<1>11. /\ c \in Others \cup cancels'
       /\ chains' = chains /\ owed' \subseteq owed /\ result' = result /\ combi' = combi
  BY <1>7 DEF HandlerEnds, routineVars, historyVars
<1> QED
  BY <1>4, <1>9, <1>10, <1>11, SettleForeign

LEMMA ApartPops ==
  ASSUME Base, Apart, ReactionsDone \/ Return \/ NotifyNobody PROVE Apart' /\ Foreign
<1>1. /\ stack # <<>> /\ stack' = Below
      /\ UNCHANGED <<heapVars, held, owed, routineVars, combi, historyVars>>
  BY DEF ReactionsDone, Return, NotifyNobody, At
<1>2. KidsIn(stack', Kids)
  BY <1>1, KidTop
<1> QED
  BY <1>1, <1>2, StackApart DEF heapVars, routineVars, historyVars

LEMMA ApartRelease == ASSUME Base, Apart, ReleaseStep PROVE Apart' /\ Foreign
<1>1. stack # <<>> /\ Top.op = "release"
  BY DEF ReleaseStep, At
<1>2. KidsIn(Below, Kids)
  BY <1>1, KidTop
<1>3. Base'
  BY ReleasePlain, PlainBase
<1>4. stack' = Below \/ \E x : stack' = Append(Below, Release(x))
  BY DEF ReleaseStep
<1>5. KidsIn(stack', Kids)
  <2>1. CASE stack' = Below
    BY <2>1, <1>2
  <2>2. ASSUME NEW x, stack' = Append(Below, Release(x)) PROVE KidsIn(stack', Kids)
    <3>1. PICK b : b = Below
      OBVIOUS
    <3>2. PICK f : f = Release(x)
      OBVIOUS
    <3>3. b \in Seq(Frames) /\ stack' \in Seq(Frames) /\ stack' = Append(b, f)
      BY <1>2, <1>3, <2>2, <3>1, <3>2 DEF KidsIn, Base, Good
    <3>4. /\ Len(stack') = Len(b) + 1 /\ \A i \in 1 .. Len(b) : stack'[i] = b[i]
          /\ stack'[Len(b) + 1] = f
      BY <3>3
    <3>5. FrameKids(f, Kids)
      BY <3>2 DEF FrameKids, Release
    <3>6. \A i \in 1 .. Len(b) + 1 : i \in 1 .. Len(b) \/ i = Len(b) + 1
      BY <3>3
    <3> QED
      BY <1>2, <3>1, <3>3, <3>4, <3>5, <3>6 DEF KidsIn
  <2> QED
    BY <1>4, <2>1, <2>2
<1>6. \A q \in Promises : reactions'[q] \in {reactions[q], <<>>}
  <2>1. reactions' = reactions \/ \E q : reactions' = [reactions EXCEPT ![q] = <<>>]
    BY DEF ReleaseStep
  <2> QED
    BY <2>1 DEF Base, Typed
<1> QED
  BY <1>5, <1>6, StackApart DEF ReleaseStep, routineVars, historyVars

LEMMA ApartComplete ==
  ASSUME Base, Apart, NEW p \in Promises, NEW st \in {"fulfilled", "rejected"}, Complete(p, st)
  PROVE Apart' /\ Foreign
<1>1. PICK f : f = Release(<<p>>)
  OBVIOUS
<1>2. <<p>> \in Seq(Promises)
  OBVIOUS
<1>3. PICK s : s = stack
  OBVIOUS
<1>4. PICK K : K = Kids
  OBVIOUS
<1>5. KidsIn(s, K) /\ f \in Frames /\ FrameKids(f, K)
  BY <1>1, <1>2, <1>3, <1>4, FrameMade DEF Apart, FrameKids, Release
<1>6. PICK b : b = Append(s, f)
  OBVIOUS
<1>7. KidsIn(b, Kids)
  BY <1>4, <1>5, <1>6, KidPush
<1>8. /\ Settle(p, st, b) /\ p \in Others \cup cancels' /\ st \in Ends
      /\ chains' = chains /\ owed' \subseteq owed /\ result' = result /\ combi' = combi
  BY <1>1, <1>3, <1>6 DEF Complete, Others, Ends, routineVars, historyVars
<1> QED
  BY <1>7, <1>8, SettleForeign

LEMMA ApartCancel == ASSUME Base, Apart, NEW p \in Promises, Cancel(p)
  PROVE Apart' /\ Foreign
<1>1. PICK f : f = Method(p, None)
  OBVIOUS
<1>2. PICK s : s = stack
  OBVIOUS
<1>3. PICK K : K = Kids
  OBVIOUS
<1>4. KidsIn(s, K) /\ f \in Frames /\ FrameKids(f, K)
  BY <1>1, <1>2, <1>3, FrameMade DEF Apart, FrameKids, Method
<1>5. PICK b : b = Append(s, f)
  OBVIOUS
<1>6. KidsIn(b, Kids)
  BY <1>3, <1>4, <1>5, KidPush
<1>7. PICK st : st = "rejected"
  OBVIOUS
<1>8. /\ Settle(p, st, b) /\ p \in Others \cup cancels' /\ st \in Ends
      /\ chains' = chains /\ owed' \subseteq owed /\ result' = result /\ combi' = combi
  BY <1>1, <1>2, <1>5, <1>7 DEF Cancel, Ends, routineVars
<1> QED
  BY <1>6, <1>8, SettleForeign

LEMMA ApartCollect == ASSUME Base, Apart, NEW p \in Promises, Collect(p)
  PROVE Apart' /\ Foreign
<1>1. PICK f : f = Release(<<p>>)
  OBVIOUS
<1>2. <<p>> \in Seq(Promises)
  OBVIOUS
<1>3. PICK s : s = stack
  OBVIOUS
<1>4. PICK K : K = Kids
  OBVIOUS
<1>5. KidsIn(s, K) /\ f \in Frames /\ FrameKids(f, K)
  BY <1>1, <1>2, <1>3, <1>4, FrameMade DEF Apart, FrameKids, Release
<1>6. KidsIn(Append(s, f), K)
  BY <1>5, KidPush
<1>7. KidsIn(stack', Kids)
  BY <1>1, <1>3, <1>4, <1>6 DEF Collect
<1> QED
  BY <1>7, StackApart DEF Collect, heapVars, routineVars, historyVars

LEMMA ApartRoutine == ASSUME Base, Apart, NEW ok \in BOOLEAN, RoutineEnds(ok)
  PROVE Apart' /\ Foreign
<1>1. stack # <<>> /\ Top.op = "run"
  BY DEF RoutineEnds, At
<1>2. PICK k : k = Top.k
  OBVIOUS
<1>3. k \in Routines /\ result[k] \in Promises
  BY <1>1, <1>2, TopRuns
<1>4. PICK f : f = Ended(k, ~ok)
  OBVIOUS
<1>5. PICK c : c = Below
  OBVIOUS
<1>6. PICK K : K = Kids
  OBVIOUS
<1>7. KidsIn(c, K) /\ f \in Frames /\ FrameKids(f, K)
  <2>1. (~ok) \in BOOLEAN
    OBVIOUS
  <2>2. f \in Frames
    BY <1>3, <1>4, <2>1, FrameMade
  <2>3. FrameKids(f, K)
    BY <1>4 DEF FrameKids, Ended
  <2> QED
    BY <1>1, <1>5, <1>6, <2>2, <2>3, KidTop
<1>8. PICK b : b = Append(c, f)
  OBVIOUS
<1>9. KidsIn(b, Kids)
  BY <1>6, <1>7, <1>8, KidPush
<1>10. PICK st : st = IF ok THEN "fulfilled" ELSE "rejected"
  OBVIOUS
<1>11. PICK p \in Promises : p = result[k]
  BY <1>3
<1>12. /\ Settle(p, st, b) /\ p \in Others \cup cancels' /\ st \in Ends
       /\ chains' = chains /\ owed' \subseteq owed /\ result' = result /\ combi' = combi
  BY <1>2, <1>3, <1>4, <1>5, <1>8, <1>10, <1>11
    DEF RoutineEnds, Others, Ends, routineVars, historyVars
<1> QED
  BY <1>9, <1>12, SettleForeign

\* Making a promise p that something settles
LEMMA MakeApart ==
  ASSUME Base, Apart, NEW p \in Promises, state[p] = "new", state' = [state EXCEPT ![p] = "pending"],
         KidsIn(stack', Kids'), \A q \in Promises : ListKids(reactions'[q], Kids'),
         chains' \subseteq [parent : Promises, r : Reaction],
         Others' \subseteq Others \cup {p}, combi' = combi
  PROVE Apart' /\ Foreign
<1>1. \A q \in Promises : state'[q] = (IF q = p THEN "pending" ELSE state[q])
  BY DEF Base, Typed
<1>2. combi[p].mode = None
  BY DEF Apart
<1>3. Apart'
  BY <1>1, <1>2 DEF Apart
<1>4. Foreign
  BY <1>1 DEF Foreign, Pending, Ends
<1> QED
  BY <1>3, <1>4

LEMMA ApartNew == ASSUME Base, Apart, NEW p \in Promises, New(p) PROVE Apart' /\ Foreign
<1>1. /\ state[p] = "new" /\ state' = [state EXCEPT ![p] = "pending"]
      /\ owed' = owed \cup {p}
      /\ UNCHANGED <<freed, reactions, slot, stack, routineVars, combi, historyVars>>
  BY DEF New, Fresh
<1>2. Kids' = Kids /\ Others' \subseteq Others \cup {p}
  BY <1>1 DEF Kids, Others, routineVars, historyVars
<1>3. KidsIn(stack', Kids') /\ \A q \in Promises : ListKids(reactions'[q], Kids')
  BY <1>1, <1>2 DEF Apart
<1>4. chains' \subseteq [parent : Promises, r : Reaction] /\ combi' = combi
  BY <1>1 DEF Apart, historyVars
<1> QED
  BY <1>1, <1>2, <1>3, <1>4, MakeApart

LEMMA ApartChain ==
  ASSUME Base, Apart, NEW p \in Promises, NEW c \in Promises,
         NEW kind \in {"then", "catch", "finally"}, NEW h \in BOOLEAN, Chain(p, c, kind, h)
  PROVE Apart' /\ Foreign
<1>1. PICK r : r = [kind |-> kind, handler |-> h, child |-> c]
  OBVIOUS
<1>2. r \in Reaction /\ r.child = c
  BY <1>1 DEF Reaction
<1>3. /\ state[c] = "new" /\ state' = [state EXCEPT ![c] = "pending"]
      /\ chains' = chains \cup {[parent |-> p, r |-> r]}
      /\ UNCHANGED <<freed, slot, owed, routineVars, combi, cancels>>
  BY <1>1 DEF Chain, Fresh
<1>4. PICK x : x = <<r>> \o reactions[p]
  OBVIOUS
<1>5. IF Pending(p)
      THEN reactions' = [reactions EXCEPT ![p] = x] /\ UNCHANGED stack
      ELSE /\ reactions' = [reactions EXCEPT ![p] = <<>>]
           /\ stack' = stack \o <<Method(p, c), React(p, x)>>
  BY <1>1, <1>4 DEF Chain
<1>6. PICK new : new = [parent |-> p, r |-> r]
  OBVIOUS
<1>7. new \in [parent : Promises, r : Reaction] /\ new.r.child = c
  BY <1>2, <1>6
<1>8. Kids' = Kids \cup {c}
  BY <1>3, <1>6, <1>7 DEF Kids
<1>9. Others' \subseteq Others \cup {c}
  BY <1>3, <1>8 DEF Others, routineVars
<1>10. PICK K : K = Kids'
  OBVIOUS
<1>11. x \in Seq(Reaction) /\ ListKids(x, K)
  <2>1. PICK y : y = reactions[p]
    OBVIOUS
  <2>2. y \in Seq(Reaction) /\ ListKids(y, K)
    BY <2>1, <1>8, <1>10 DEF Base, Typed, Apart, ListKids
  <2>3. /\ x \in Seq(Reaction) /\ Len(x) = Len(y) + 1 /\ x[1] = r
        /\ \A i \in 1 .. Len(x) : i = 1 \/ (i - 1 \in 1 .. Len(y) /\ x[i] = y[i - 1])
    BY <1>2, <1>4, <2>1, <2>2
  <2> QED
    BY <1>2, <1>8, <1>10, <2>2, <2>3 DEF ListKids
<1>12. \A q \in Promises : ListKids(reactions'[q], K)
  <2>1. \A q \in Promises : ListKids(reactions[q], K)
    BY <1>8, <1>10 DEF Apart, ListKids
  <2>2. ListKids(<<>>, K)
    BY DEF ListKids
  <2> QED
    BY <1>5, <1>11, <2>1, <2>2 DEF Base, Typed
<1>13. PICK s : s = stack
  OBVIOUS
<1>14. KidsIn(s, K)
  BY <1>8, <1>10, <1>13 DEF Apart, KidsIn, FrameKids, ListKids
<1>15. KidsIn(stack', K)
  <2>1. CASE Pending(p)
    BY <2>1, <1>5, <1>13, <1>14
  <2>2. CASE ~Pending(p)
    <3>1. PICK m : m = Method(p, c)
      OBVIOUS
    <3>2. PICK g : g = React(p, x)
      OBVIOUS
    <3>3. m \in Frames /\ g \in Frames /\ FrameKids(m, K) /\ FrameKids(g, K)
      BY <1>11, <3>1, <3>2, FrameMade DEF FrameKids, Method, React
    <3>4. KidsIn(s \o <<m, g>>, K)
      BY <1>14, <3>3, KidPushes
    <3> QED
      BY <2>2, <1>5, <1>13, <3>1, <3>2, <3>4
  <2> QED
    BY <2>1, <2>2
<1>16. chains' \subseteq [parent : Promises, r : Reaction] /\ combi' = combi
  BY <1>3, <1>6, <1>7 DEF Apart
<1> QED
  BY <1>3, <1>9, <1>10, <1>12, <1>15, <1>16, MakeApart

LEMMA ApartAsync == ASSUME Base, Apart, NEW k \in Routines, NEW p \in Promises, Async(k, p)
  PROVE Apart' /\ Foreign
<1>1. /\ state[p] = "new" /\ state' = [state EXCEPT ![p] = "pending"]
      /\ result' = [result EXCEPT ![k] = p]
      /\ stack' = stack \o <<Method(p, p), Run(k, TRUE)>>
      /\ UNCHANGED <<freed, reactions, slot, owed, waiting, combi, historyVars>>
  BY DEF Async, Fresh
<1>2. Kids' = Kids
  BY <1>1 DEF Kids, historyVars
<1>3. Others' \subseteq Others \cup {p}
  <2>1. \A j \in Routines : result'[j] = (IF j = k THEN p ELSE result[j])
    BY <1>1 DEF Base, Typed
  <2> QED
    BY <1>1, <1>2, <2>1 DEF Others
<1>4. PICK s : s = stack
  OBVIOUS
<1>5. PICK K : K = Kids
  OBVIOUS
<1>6. PICK m : m = Method(p, p)
  OBVIOUS
<1>7. PICK f : f = Run(k, TRUE)
  OBVIOUS
<1>8. /\ KidsIn(s, K) /\ m \in Frames /\ f \in Frames /\ FrameKids(m, K) /\ FrameKids(f, K)
  BY <1>4, <1>5, <1>6, <1>7, FrameMade DEF Apart, FrameKids, Method, Run
<1>9. KidsIn(s \o <<m, f>>, K)
  BY <1>8, KidPushes
<1>10. KidsIn(stack', Kids')
  BY <1>1, <1>2, <1>4, <1>5, <1>6, <1>7, <1>9
<1>11. \A q \in Promises : ListKids(reactions'[q], Kids')
  BY <1>1, <1>2 DEF Apart
<1>12. chains' \subseteq [parent : Promises, r : Reaction] /\ combi' = combi
  BY <1>1 DEF Apart, historyVars
<1> QED
  BY <1>1, <1>3, <1>10, <1>11, <1>12, MakeApart

LEMMA ApartAwait ==
  ASSUME Base, Apart, NEW p \in Promises, AwaitKeyword(p) \/ AwaitFunction(p)
  PROVE Apart' /\ Foreign
<1>1. stack # <<>> /\ Top.op = "run"
  BY DEF AwaitKeyword, AwaitFunction, At
<1>2. PICK k \in Routines : k = Top.k
  BY <1>1, TopRuns
<1>3. PICK b : b = Below
  OBVIOUS
<1>4. PICK K : K = Kids
  OBVIOUS
<1>5. KidsIn(b, K)
  BY <1>1, <1>3, <1>4, KidTop
<1>6. PICK old : old = IF waiting[k] = None THEN <<>> ELSE <<waiting[k]>>
  OBVIOUS
<1>7. PICK r : r = Release(old)
  OBVIOUS
<1>8. PICK f : f = Run(k, FALSE)
  OBVIOUS
<1>9. r \in Frames /\ f \in Frames /\ FrameKids(r, K) /\ FrameKids(f, K)
  <2>1. waiting[k] \in Promises \cup {None}
    BY DEF Base, Typed
  <2>2. <<>> \in Seq(Promises) /\ (waiting[k] # None => <<waiting[k]>> \in Seq(Promises))
    BY <2>1
  <2>3. old \in Seq(Promises)
    BY <1>6, <2>2
  <2> QED
    BY <2>3, <1>7, <1>8, FrameMade DEF FrameKids, Release, Run
<1>10. stack' \in {b, Append(b, r), b \o <<f, r>>}
  BY <1>2, <1>3, <1>6, <1>7, <1>8 DEF AwaitKeyword, AwaitFunction
<1>11. KidsIn(stack', Kids)
  <2>1. KidsIn(Append(b, r), K) /\ KidsIn(b \o <<f, r>>, K)
    BY <1>5, <1>9, KidPush, KidPushes
  <2> QED
    BY <1>4, <1>5, <1>10, <2>1
<1>12. UNCHANGED <<state, freed, reactions, held, owed, result, combi, historyVars>>
  BY DEF AwaitKeyword, AwaitFunction
<1> QED
  BY <1>11, <1>12, StackApart DEF historyVars

LEMMA ApartResume == ASSUME Base, Apart, NotifyRoutine \/ RoutineFreed
  PROVE Apart' /\ Foreign
<1>1. /\ stack # <<>>
      /\ UNCHANGED <<state, freed, refs, reactions, held, owed, result, combi, historyVars>>
  BY DEF NotifyRoutine, RoutineFreed, At, heapVars
<1>2. PICK b : b = Below
  OBVIOUS
<1>3. PICK K : K = Kids
  OBVIOUS
<1>4. KidsIn(b, K)
  BY <1>1, <1>2, <1>3, KidTop
<1>5. KidsIn(stack', K)
  <2>1. CASE NotifyRoutine
    <3>1. PICK k \in Routines : k = slot[Top.p]
      BY <2>1 DEF NotifyRoutine
    <3>2. PICK f : f = Run(k, FALSE)
      OBVIOUS
    <3>3. f \in Frames /\ FrameKids(f, K)
      BY <3>2, FrameMade DEF FrameKids, Run
    <3>4. stack' = Append(b, f)
      BY <2>1, <1>2, <3>1, <3>2 DEF NotifyRoutine
    <3> QED
      BY <1>4, <3>3, <3>4, KidPush
  <2>2. CASE RoutineFreed
    <3>1. PICK k \in Routines : k = Top.k
      BY <1>1, <2>2, TopRuns DEF RoutineFreed, At
    <3>2. PICK w : w = waiting[k]
      OBVIOUS
    <3>3. PICK r : r = Release(<<w>>)
      OBVIOUS
    <3>4. stack' = b \/ (w # None /\ stack' = Append(b, r))
      BY <2>2, <1>2, <3>1, <3>2, <3>3 DEF RoutineFreed
    <3>5. ASSUME w # None PROVE r \in Frames /\ FrameKids(r, K)
      <4>1. w \in Promises
        BY <3>2, <3>5 DEF Base, Typed
      <4>2. <<w>> \in Seq(Promises)
        BY <4>1
      <4> QED
        BY <4>2, <3>3, FrameMade DEF FrameKids, Release
    <3> QED
      BY <1>4, <3>4, <3>5, KidPush
  <2> QED
    BY <2>1, <2>2
<1> QED
  BY <1>1, <1>3, <1>5, StackApart DEF historyVars

LEMMA ApartEnds == ASSUME Base, Apart, CombinationEnds PROVE Apart' /\ Foreign
<1>1. stack # <<>> /\ Top.op = "combined"
  BY DEF CombinationEnds, At
<1>2. PICK f \in Frames : f = Top
  BY <1>1, TopOf
<1>3. PICK c \in Promises : c = Top.p
  BY <1>1, <1>2, FrameKinds
<1>4. PICK b : b = Below
  OBVIOUS
<1>5. PICK K : K = Kids
  OBVIOUS
<1>6. PICK g : g = Release(combi[c].ins)
  OBVIOUS
<1>7. combi[c].ins \in Seq(Promises)
  BY DEF Base, Typed, Combi
<1>8. KidsIn(b, K) /\ g \in Frames /\ FrameKids(g, K)
  BY <1>1, <1>4, <1>5, <1>6, <1>7, KidTop, FrameMade DEF FrameKids, Release
<1>9. KidsIn(Append(b, g), K)
  BY <1>8, KidPush
<1>10. KidsIn(stack', Kids)
  BY <1>3, <1>4, <1>5, <1>6, <1>9 DEF CombinationEnds
<1>11. \A p \in Promises : combi'[p].mode = combi[p].mode
  BY EndEffect
<1> QED
  BY <1>10, <1>11, StackApart DEF CombinationEnds, routineVars, historyVars

LEMMA ApartNotify == ASSUME Base, Apart, NotifyCombination PROVE Apart'
<1>1. stack # <<>> /\ Top.op = "notify" /\ slot[Top.p] \in Promises
  BY DEF NotifyCombination, At
<1>2. PICK p \in Promises : p = Top.p
  BY <1>1, TopTells
<1>3. PICK c \in Promises : c = slot[p]
  BY <1>1, <1>2
<1>4. PICK b : b = Below
  OBVIOUS
<1>5. PICK K : K = Kids
  OBVIOUS
<1>6. KidsIn(b, K)
  BY <1>1, <1>4, <1>5, KidTop
<1>7. PICK d : d = Decision(combi[c].mode, combi[c].count, combi[c].ins, state[p])
  OBVIOUS
<1>8. \/ stack' = b /\ UNCHANGED reactions
      \/ Settle(c, d, Append(b, Combined(c)))
  BY <1>2, <1>3, <1>4, <1>7 DEF NotifyCombination
<1>9. KidsIn(stack', Kids) /\ \A q \in Promises : ListKids(reactions'[q], Kids)
  <2>1. CASE stack' = b /\ UNCHANGED reactions
    BY <2>1, <1>5, <1>6 DEF Apart
  <2>2. CASE Settle(c, d, Append(b, Combined(c)))
    <3>1. PICK f : f = Combined(c)
      OBVIOUS
    <3>2. f \in Frames /\ FrameKids(f, K)
      BY <3>1, FrameMade DEF FrameKids, Combined
    <3>3. PICK s : s = Append(b, f)
      OBVIOUS
    <3>4. KidsIn(s, Kids) /\ Settle(c, d, s)
      BY <1>5, <1>6, <2>2, <3>1, <3>2, <3>3, KidPush
    <3> QED
      BY <3>4, SettleApart
  <2> QED
    BY <1>8, <2>1, <2>2
<1>10. /\ \A q \in Promises : combi'[q].mode = combi[q].mode
       /\ \A q \in Promises : state[q] # "new" => state'[q] # "new"
  <2>1. PICK a \in Promises :
          /\ \A q \in Promises : q # a => combi'[q] = combi[q] /\ state'[q] = state[q]
          /\ combi'[a].mode = combi[a].mode
          /\ state'[a] = state[a] \/ state'[a] \in Ends
    BY NotifyEffect
  <2> QED
    BY <2>1 DEF Ends
<1>11. chains' = chains /\ owed' \subseteq owed /\ result' = result
  BY DEF NotifyCombination, routineVars, historyVars
<1> QED
  BY <1>9, <1>10, <1>11, ApartSame

LEMMA ApartCombine ==
  ASSUME Base, Apart, NEW mode \in Modes, NEW ins \in Lists, NEW c \in Promises, Combine(mode, ins, c)
  PROVE Apart'
<1>1. PICK now \in Ends \cup {None} :
        /\ state[c] = "new" /\ stack' = stack
        /\ UNCHANGED <<reactions, owed, routineVars, historyVars>>
        /\ state'[c] = (IF now = None THEN "pending" ELSE now)
        /\ \A p \in Promises : p # c => state'[p] = state[p] /\ combi'[p] = combi[p]
  BY CombineEffect
<1>2. Kids' = Kids /\ Others' = Others
  BY <1>1 DEF Kids, Others, routineVars, historyVars
<1>3. state'[c] # "new" /\ c \notin Others
  BY <1>1 DEF Apart, Ends
<1> QED
  BY <1>1, <1>2, <1>3 DEF Apart, historyVars

LEMMA ApartInit == Init => Apart
<1> SUFFICES ASSUME Init PROVE Apart
  OBVIOUS
<1>1. Kids = {} /\ stack = <<>> /\ <<>> \in Seq(Frames) /\ Len(stack) = 0
  BY DEF Init, Kids
<1>2. \A p \in Promises : p \notin Others
  BY <1>1, Distinct DEF Init, Others
<1>3. \A p \in Promises : combi[p].mode = None
  BY DEF Init, NoCombi
<1>4. \A p \in Promises : ListKids(reactions[p], Kids)
  BY DEF Init, ListKids
<1> QED
  BY <1>1, <1>2, <1>3, <1>4 DEF Apart, KidsIn, Init

\* A plain step settles no combination that is not cancelled.
LEMMA StepsApart == ASSUME Base, Apart, Next
  PROVE /\ Apart'
        /\ \/ Foreign
           \/ \E mode \in Modes, ins \in Lists, c \in Promises : Combine(mode, ins, c)
           \/ NotifyCombination
<1>1. CASE Native
  BY <1>1, ApartReaction, ApartPops, ApartRelease, ApartNotify, ApartEnds, ApartResume DEF Native
<1>2. ASSUME NEW ok \in BOOLEAN, HandlerEnds(ok) \/ RoutineEnds(ok) PROVE Apart' /\ Foreign
  BY <1>2, ApartHandler, ApartRoutine
<1>3. ASSUME NEW p \in Promises, New(p) \/ Cancel(p) \/ Collect(p) \/ AwaitKeyword(p) \/ AwaitFunction(p)
      PROVE Apart' /\ Foreign
  BY <1>3, ApartNew, ApartCancel, ApartCollect, ApartAwait
<1>4. ASSUME NEW p \in Promises, NEW st \in {"fulfilled", "rejected"}, Complete(p, st)
      PROVE Apart' /\ Foreign
  BY <1>4, ApartComplete
<1>5. ASSUME NEW p \in Promises, NEW c \in Promises,
             NEW kind \in {"then", "catch", "finally"}, NEW h \in BOOLEAN, Chain(p, c, kind, h)
      PROVE Apart' /\ Foreign
  BY <1>5, ApartChain
<1>6. ASSUME NEW mode \in Modes, NEW ins \in Lists, NEW c \in Promises, Combine(mode, ins, c)
      PROVE Apart'
  BY <1>6, ApartCombine
<1>7. ASSUME NEW k \in Routines, NEW p \in Promises, Async(k, p) PROVE Apart' /\ Foreign
  BY <1>7, ApartAsync
<1> QED
  BY <1>1, <1>2, <1>3, <1>4, <1>5, <1>6, <1>7 DEF Next

LEMMA ApartHolds == Spec => []Apart
<1>1. ASSUME Apart, UNCHANGED vars PROVE Apart'
  BY <1>1 DEF Apart, Kids, Others, vars, heapVars, routineVars, historyVars
<1>2. Base /\ Apart /\ [Next]_vars => Apart'
  BY <1>1, StepsApart
<1> QED
  BY <1>2, ApartInit, BaseHolds, PTL DEF Spec

-----------------------------------------------------------------------------
(* What a combination has been told.                                       *)

\* Inputs that are settled and whose continuation c is not still to be called
ToldOf(c) == {p \in Range(combi[c].ins) :
  Settled(p) /\ ~(Telling(stack, p) /\ slot[p] = c)}

\* The state e of a combination of the promises R in states st is right.
Right(mode, e, R, st) ==
  /\ mode = "all" =>
       \/ e = "rejected" /\ \E p \in R : st[p] = "rejected"
       \/ e = "fulfilled" /\ \A p \in R : st[p] = "fulfilled"
  /\ mode = "settled" => e = "fulfilled" /\ \A p \in R : st[p] \in Ends
  /\ mode = "race" => e \in Ends /\ \E p \in R : st[p] = e
  /\ mode = "any" =>
       \/ e = "fulfilled" /\ \E p \in R : st[p] = "fulfilled"
       \/ e = "rejected" /\ \A p \in R : st[p] = "rejected"

\* A combination x that has been told of T waits, and has counted all of them,
\* none of which decides it.
Waits(x, e, st, T) ==
  /\ e = "pending"
  /\ x.mode = "race" => T = {}
  /\ x.mode # "race" => x.count = Weigh(x.ins, T) /\ x.count # Len(x.ins)
  /\ x.mode = "all" => \A p \in T : st[p] = "fulfilled"
  /\ x.mode = "any" => \A p \in T : st[p] = "rejected"

Fits(x, e, st, T) ==
  /\ x.done => Right(x.mode, e, Range(x.ins), st)
  /\ ~x.done => Waits(x, e, st, T)

\* Only combinations wait for their inputs as the continuation of them.
Wired == \A p, c \in Promises :
  slot[p] = c => combi[c].mode # None /\ p \in Range(combi[c].ins)

Counts == \A c \in Promises : combi[c].mode # None =>
  /\ combi[c].ins \in Lists
  /\ c \notin cancels => Fits(combi[c], state[c], state, ToldOf(c))

LEMMA RightLasts ==
  ASSUME NEW mode \in Modes, NEW e, NEW R, NEW st, NEW new, Right(mode, e, R, st),
         \A p \in R : st[p] \in Ends => new[p] = st[p]
  PROVE e \in Ends /\ Right(mode, e, R, new)
  BY DEF Right, Ends

\* What a step leaves as it is for a combination b that waits
Kept(b) == \A q \in Range(combi[b].ins) :
  /\ Pending(q) /\ state'[q] \in Ends => Telling(stack', q) /\ slot'[q] = b
  /\ state[q] \in Ends =>
       ((Telling(stack', q) /\ slot'[q] = b) <=> (Telling(stack, q) /\ slot[q] = b))

LEMMA ToldKept ==
  ASSUME Base, Exclusive, NEW b \in Promises, ~combi[b].done, Kept(b),
         combi'[b].ins = combi[b].ins, state' \in [Promises -> States],
         \A q \in Promises : state[q] \in Ends => state'[q] = state[q]
  PROVE ToldOf(b)' = ToldOf(b)
<1>1. \A p \in Range(combi[b].ins) : p \in Promises /\ state[p] # "new"
  BY DEF Exclusive, Bound
<1>2. ToldOf(b)' = {p \in Range(combi[b].ins) :
                      state'[p] \in Ends /\ ~(Telling(stack', p) /\ slot'[p] = b)}
  BY DEF ToldOf, Settled, Ends
<1>3. ToldOf(b) = {p \in Range(combi[b].ins) :
                     state[p] \in Ends /\ ~(Telling(stack, p) /\ slot[p] = b)}
  BY DEF ToldOf, Settled, Ends
<1>4. ASSUME NEW p \in Range(combi[b].ins)
      PROVE (state'[p] \in Ends /\ ~(Telling(stack', p) /\ slot'[p] = b))
            <=> (state[p] \in Ends /\ ~(Telling(stack, p) /\ slot[p] = b))
  <2>1. CASE state[p] \in Ends
    <3>1. state'[p] \in Ends
      BY <1>1, <2>1
    <3> QED
      BY <2>1, <3>1 DEF Kept
  <2>2. CASE state[p] = "pending"
    <3>1. Pending(p) /\ state[p] \notin Ends
      BY <2>2 DEF Pending, Ends
    <3> QED
      BY <3>1 DEF Kept
  <2> QED
    BY <1>1, <2>1, <2>2 DEF Base, Typed, States, Ends
<1> QED
  BY <1>2, <1>3, <1>4

\* What a step leaves as it is for a combination b, and then what b has
\* counted stays right
Carried(b) ==
  /\ \A q \in Promises : state[q] \in Ends => state'[q] = state[q]
  /\ combi'[b].mode = combi[b].mode /\ combi'[b].ins = combi[b].ins
  /\ combi'[b].done = combi[b].done
  /\ ~combi[b].done => combi'[b].count = combi[b].count /\ Kept(b)
  /\ b \notin cancels' => b \notin cancels /\ (Pending(b) => state'[b] = "pending")

CountsOf(c) == combi[c].mode # None =>
  /\ combi[c].ins \in Lists
  /\ c \notin cancels => Fits(combi[c], state[c], state, ToldOf(c))

LEMMA Carry ==
  ASSUME Base, Exclusive, NEW b \in Promises, CountsOf(b), state' \in [Promises -> States], Carried(b)
  PROVE CountsOf(b)'
<1> SUFFICES ASSUME combi[b].mode # None
             PROVE /\ combi[b].ins \in Lists
                   /\ b \notin cancels' => Fits(combi'[b], state'[b], state', ToldOf(b)')
  BY DEF CountsOf, Carried
<1>1. combi[b].ins \in Lists
  BY DEF CountsOf
<1>2. combi[b].mode \in Modes
  BY DEF Base, Typed, Combi
<1>3. \A p \in Range(combi[b].ins) : p \in Promises
  BY <1>1, ListIs
<1>4. ASSUME b \notin cancels' PROVE Fits(combi'[b], state'[b], state', ToldOf(b)')
  <2>1. Fits(combi[b], state[b], state, ToldOf(b))
    BY <1>4 DEF CountsOf, Carried
  <2>2. CASE combi[b].done
    <3>1. PICK old : old = state
      OBVIOUS
    <3>2. PICK new : new = state'
      OBVIOUS
    <3>3. PICK R : R = Range(combi[b].ins)
      OBVIOUS
    <3>4. PICK e, m : e = state[b] /\ m = combi[b].mode
      OBVIOUS
    <3>5. m \in Modes /\ Right(m, e, R, old) /\ \A p \in R : old[p] \in Ends => new[p] = old[p]
      BY <1>2, <1>3, <2>1, <2>2, <3>1, <3>2, <3>3, <3>4 DEF Fits, Carried
    <3>6. e \in Ends /\ Right(m, e, R, new)
      BY <3>5, RightLasts
    <3>7. state'[b] = e
      BY <3>4, <3>6 DEF Carried
    <3> QED
      BY <2>2, <3>2, <3>3, <3>4, <3>6, <3>7 DEF Fits, Carried
  <2>3. CASE ~combi[b].done
    <3>1. ToldOf(b)' = ToldOf(b)
      BY <2>3, ToldKept DEF Carried
    <3>2. \A p \in ToldOf(b) : state'[p] = state[p]
      BY <1>3 DEF ToldOf, Settled, Ends, Carried
    <3>3. state'[b] = "pending"
      BY <1>4, <2>1, <2>3 DEF Carried, Fits, Waits, Pending
    <3> QED
      BY <2>1, <2>3, <3>1, <3>2, <3>3 DEF Fits, Waits, Carried
  <2> QED
    BY <2>2, <2>3
<1> QED
  BY <1>1, <1>4

LEMMA CountsAre == Counts <=> \A c \in Promises : CountsOf(c)
  BY DEF Counts, CountsOf

\* Cancelled promises stay cancelled.
LEMMA CancelsGrow == ASSUME Next PROVE cancels \subseteq cancels'
  BY Zenon DEF Next, Native, RunReaction, ReactionsDone, ReleaseStep, Return, NotifyCombination,
    CombinationEnds, NotifyRoutine, NotifyNobody, RoutineFreed, HandlerEnds, RoutineEnds, New,
    Cancel, Collect, AwaitKeyword, AwaitFunction, Complete, Chain, Combine, Async, historyVars

LEMMA CountsPlain ==
  ASSUME Base, Exclusive, Apart, Counts, Plain, Foreign, cancels \subseteq cancels'
  PROVE Counts'
<1> SUFFICES ASSUME NEW b \in Promises PROVE CountsOf(b)'
  BY DEF Counts, CountsOf
<1>1. CountsOf(b)
  BY CountsAre
<1>2. state' \in [Promises -> States]
  BY DEF Plain
<1>3. CASE combi[b].mode = None
  BY <1>3 DEF Plain, CountsOf
<1>4. CASE combi[b].mode # None
  <2>1. ASSUME b \notin cancels' PROVE b \notin cancels /\ (Pending(b) => state'[b] = "pending")
    BY <1>2, <1>4, <2>1 DEF Foreign, Plain, Pending, States, Ends
  <2>2. ASSUME ~combi[b].done PROVE Kept(b)
    <3> SUFFICES ASSUME NEW q \in Range(combi[b].ins)
                 PROVE /\ Pending(q) /\ state'[q] \in Ends => Telling(stack', q) /\ slot'[q] = b
                       /\ state[q] \in Ends => ((Telling(stack', q) /\ slot'[q] = b)
                                                <=> (Telling(stack, q) /\ slot[q] = b))
      BY DEF Kept
    <3>1. q \in Promises /\ (Pending(q) => slot[q] = b)
      BY <2>2 DEF Exclusive, Bound
    <3>2. slot'[q] = slot[q]
      BY DEF Plain
    <3>3. Telling(stack', q) <=> Telling(stack, q) \/ (Pending(q) /\ state'[q] \in Ends)
      BY <3>1 DEF Plain
    <3> QED
      BY <3>1, <3>2, <3>3 DEF Pending, Ends
  <2>3. Carried(b)
    BY <2>1, <2>2 DEF Carried, Plain
  <2> QED
    BY <1>1, <1>2, <2>3, Carry
<1> QED
  BY <1>3, <1>4

\* Steps that settle nothing and leave all combinations but c as they are
LEMMA CountsOthers ==
  ASSUME Base, Exclusive, Counts, NEW b \in Promises, state' \in [Promises -> States],
         combi'[b].mode = combi[b].mode, combi'[b].ins = combi[b].ins,
         combi'[b].done = combi[b].done, ~combi[b].done => combi'[b].count = combi[b].count,
         cancels \subseteq cancels',
         \A q \in Promises : state[q] # "new" => state'[q] = state[q],
         \A q \in Promises : state[q] \in Ends =>
           ((Telling(stack', q) /\ slot'[q] = b) <=> (Telling(stack, q) /\ slot[q] = b))
  PROVE CountsOf(b)'
<1>1. CountsOf(b)
  BY CountsAre
<1>2. ASSUME ~combi[b].done PROVE Kept(b)
  <2>1. \A q \in Range(combi[b].ins) : q \in Promises
    BY <1>2 DEF Exclusive, Bound
  <2> QED
    BY <2>1 DEF Kept, Pending, Ends
<1>3. Carried(b)
  BY <1>2 DEF Carried, Pending, Ends
<1> QED
  BY <1>1, <1>3, Carry

LEMMA CountsAsync ==
  ASSUME Base, Exclusive, Counts, NEW k \in Routines, NEW p \in Promises, Async(k, p)
  PROVE Counts'
<1> SUFFICES ASSUME NEW b \in Promises PROVE CountsOf(b)'
  BY DEF Counts, CountsOf
<1>1. /\ state[p] = "new" /\ Typed'
      /\ UNCHANGED <<slot, combi, historyVars>>
      /\ \A q \in Promises : q # p => state'[q] = state[q]
      /\ \A q \in Promises : Telling(stack', q) <=> Telling(stack, q)
  BY AsyncEffect
<1> QED
  BY <1>1, CountsOthers DEF Typed, historyVars

LEMMA CountsAwait ==
  ASSUME ~Shared, Base, Exclusive, Counts, NEW p \in Promises, AwaitKeyword(p) \/ AwaitFunction(p)
  PROVE Counts'
<1> SUFFICES ASSUME NEW b \in Promises PROVE CountsOf(b)'
  BY DEF Counts, CountsOf
<1>1. PICK k \in Routines :
        /\ Free(p) /\ Typed'
        /\ UNCHANGED <<state, combi, historyVars>>
        /\ \A q \in Promises : q # p => slot'[q] = slot[q]
        /\ slot'[p] \in {k, None}
        /\ \A q \in Promises : Telling(stack', q) <=> Telling(stack, q)
  BY AwaitEffect
<1>2. Telling(stack, p) => slot[p] = None
  BY <1>1, FreeIs
<1>3. slot'[p] # b /\ (Telling(stack, p) => slot[p] # b)
  BY <1>1, <1>2, Distinct
<1> QED
  BY <1>1, <1>3, CountsOthers DEF Typed, historyVars

LEMMA CountsResume == ASSUME Base, Exclusive, Counts, NotifyRoutine PROVE Counts'
<1> SUFFICES ASSUME NEW b \in Promises PROVE CountsOf(b)'
  BY DEF Counts, CountsOf
<1>1. PICK p \in Promises, k \in Routines :
        /\ slot[p] = k /\ Typed'
        /\ UNCHANGED <<state, combi, historyVars>>
        /\ slot'[p] = None /\ \A q \in Promises : q # p => slot'[q] = slot[q]
        /\ \A q \in Promises : Telling(stack', q) <=> Telling(stack, q) /\ q # p
  BY ResumeEffect
<1>2. slot[p] # b /\ slot'[p] # b
  BY <1>1, Distinct
<1> QED
  BY <1>1, <1>2, CountsOthers DEF Typed, historyVars

LEMMA CountsNobody == ASSUME Base, Exclusive, Counts, NotifyNobody \/ RoutineFreed PROVE Counts'
<1> SUFFICES ASSUME NEW b \in Promises PROVE CountsOf(b)'
  BY DEF Counts, CountsOf
<1>1. CASE NotifyNobody
  <2>1. PICK p \in Promises :
          /\ slot[p] = None
          /\ UNCHANGED <<heapVars, combi, historyVars>>
          /\ \A q \in Promises : Telling(stack', q) <=> Telling(stack, q) /\ q # p
    BY <1>1, NobodyEffect
  <2>2. slot[p] # b
    BY <2>1, Distinct
  <2> QED
    BY <2>1, <2>2, CountsOthers DEF Base, Typed, historyVars, heapVars
<1>2. CASE RoutineFreed
  <2>1. /\ UNCHANGED <<heapVars, combi, historyVars>>
        /\ \A q \in Promises : Telling(stack', q) <=> Telling(stack, q)
    BY <1>2, FreedEffect
  <2> QED
    BY <2>1, CountsOthers DEF Base, Typed, historyVars, heapVars
<1> QED
  BY <1>1, <1>2

LEMMA CountsEnds == ASSUME Base, Exclusive, Counts, CombinationEnds PROVE Counts'
<1> SUFFICES ASSUME NEW b \in Promises PROVE CountsOf(b)'
  BY DEF Counts, CountsOf
<1>1. PICK c \in Promises :
        /\ Ending(stack, c) /\ Typed'
        /\ UNCHANGED <<state, historyVars>>
        /\ \A q \in Promises : Telling(stack', q) <=> Telling(stack, q)
        /\ \A q \in Promises : slot'[q] = IF q \in Range(combi[c].ins) THEN None ELSE slot[q]
        /\ \A a \in Promises : a # c => combi'[a] = combi[a]
        /\ combi'[c].mode = combi[c].mode /\ combi'[c].ins = combi[c].ins
        /\ combi'[c].done = combi[c].done
  BY EndEffect
<1>2. combi[c].live /\ combi[c].done
  BY <1>1 DEF Exclusive, Bound, Base, Finishes
<1>3. CASE b # c
  <2>1. \A q \in Range(combi[c].ins) : Telling(stack, q) => slot[q] # b /\ slot'[q] # b
    BY <1>1, <1>2, <1>3, Distinct DEF Exclusive, Bound
  <2>2. \A q \in Promises : Telling(stack, q) => (slot'[q] = b <=> slot[q] = b)
    BY <1>1, <2>1
  <2> QED
    BY <1>1, <1>3, <2>2, CountsOthers DEF Typed, historyVars
<1>4. CASE b = c
  <2>1. CountsOf(b) /\ Carried(b)
    BY <1>1, <1>2, <1>4, CountsAre DEF Carried, historyVars, Pending
  <2> QED
    BY <1>1, <2>1, Carry DEF Typed
<1> QED
  BY <1>3, <1>4

\* A combination that starts to wait has counted what is settled already.
LEMMA StartsRight ==
  ASSUME NEW mode \in Modes, NEW ins \in Lists, NEW x,
         x.mode = mode, x.ins = ins, x.count = CountedBefore(mode, ins),
         \A p \in Range(ins) : Pending(p) \/ Settled(p), AtOnce(mode, ins) = None
  PROVE Waits(x, "pending", state, {p \in Range(ins) : Settled(p)})
<1>1. PICK T : T = {p \in Range(ins) : Settled(p)}
  OBVIOUS
<1>2. \A p \in Range(ins) : /\ p \in T <=> Settled(p)
                            /\ Settled(p) <=> ~Pending(p)
                            /\ Settled(p) <=> state[p] \in Ends
  BY <1>1 DEF Pending, Settled, Ends
<1>3. mode \in {"all", "race", "settled", "any"} /\ None \notin Ends
  BY DEF None, Ends
<1>4. Weigh(ins, T) = Len(ins) - Cardinality(Unsettled(ins))
  <2>1. T = {p \in Range(ins) : ~Pending(p)}
    BY <1>1, <1>2
  <2> QED
    BY <2>1, UnsettledSays, Weights, UnsettledIs
<1>5. Weigh(ins, T) = Len(ins) <=> Unsettled(ins) = {}
  BY <1>2, UnsettledSays, Weights
<1>6. CASE mode = "all"
  <2>1. ~(Count(ins, "rejected") > 0)
    BY <1>6, AtOnceOf, <1>3 DEF Ends
  <2>2. PICK st, n : st = "rejected" /\ n = Count(ins, st)
    OBVIOUS
  <2>3. n \in 0 .. Len(ins) /\ (n = 0 <=> \A p \in Range(ins) : state[p] # st)
    BY <2>2, CountSays
  <2>4. n = 0
    BY <2>1, <2>2, <2>3, Weights
  <2>5. \A p \in T : state[p] = "fulfilled"
    BY <1>1, <1>2, <2>2, <2>3, <2>4 DEF Ends
  <2>6. Unsettled(ins) # {}
    BY <1>3, <1>6, <2>2, <2>4, AtOnceOf DEF Ends
  <2> QED
    BY <1>1, <1>4, <1>5, <1>6, <2>5, <2>6 DEF Waits, CountedBefore
<1>7. CASE mode = "settled"
  <2>1. Unsettled(ins) # {}
    BY <1>3, <1>7, AtOnceOf DEF Ends
  <2> QED
    BY <1>1, <1>4, <1>5, <1>7, <2>1 DEF Waits, CountedBefore
<1>8. CASE mode = "race"
  <2>1. \A p \in Range(ins) : ~Settled(p)
    BY <1>3, <1>8, AtOnceOf DEF Settled, Ends
  <2>2. T = {}
    BY <1>1, <2>1
  <2> QED
    BY <1>1, <1>8, <2>2 DEF Waits
<1>9. CASE mode = "any"
  <2>1. PICK f, r, n, m : /\ f = "fulfilled" /\ n = Count(ins, f)
                          /\ r = "rejected" /\ m = Count(ins, r)
    OBVIOUS
  <2>2. n \in 0 .. Len(ins) /\ (n = 0 <=> \A p \in Range(ins) : state[p] # f)
    BY <2>1, CountSays
  <2>3. ~(n > 0) /\ m # Len(ins)
    BY <1>3, <1>9, <2>1, AtOnceOf DEF Ends
  <2>4. \A p \in Range(ins) : state[p] # "fulfilled"
    BY <2>1, <2>2, <2>3, Weights
  <2>5. PICK S : S = {p \in Promises : state[p] = r}
    OBVIOUS
  <2>6. m = Weigh(ins, S)
    BY <2>1, <2>5, CountIs
  <2>7. \A p \in Range(ins) : p \in S <=> p \in T
    BY <1>2, <2>1, <2>4, <2>5, ListIs DEF Ends
  <2>8. m = Weigh(ins, T)
    BY <2>6, <2>7, Weights
  <2>9. \A p \in T : state[p] = "rejected"
    BY <1>1, <1>2, <2>4 DEF Ends
  <2> QED
    BY <1>1, <1>9, <2>1, <2>3, <2>8, <2>9 DEF Waits, CountedBefore
<1> QED
  BY <1>3, <1>6, <1>7, <1>8, <1>9

\* A combination that ends at once ends right.
LEMMA EndsRight ==
  ASSUME NEW mode \in Modes, NEW ins \in Lists, NEW now \in Ends, now = AtOnce(mode, ins),
         \A p \in Range(ins) : Pending(p) \/ Settled(p)
  PROVE Right(mode, now, Range(ins), state)
<1>1. mode \in {"all", "race", "settled", "any"} /\ None \notin Ends
  BY DEF None, Ends
<1>2. PICK f, r, n, m : /\ f = "fulfilled" /\ n = Count(ins, f)
                        /\ r = "rejected" /\ m = Count(ins, r)
  OBVIOUS
<1>3. /\ n \in 0 .. Len(ins) /\ (n = 0 <=> \A p \in Range(ins) : state[p] # f)
      /\ m \in 0 .. Len(ins) /\ (m = 0 <=> \A p \in Range(ins) : state[p] # r)
      /\ m = Len(ins) <=> \A p \in Range(ins) : state[p] = r
  BY <1>2, CountSays
<1>4. (n > 0 <=> n # 0) /\ (m > 0 <=> m # 0)
  BY <1>3, Weights
<1>5. Unsettled(ins) = {} => \A p \in Range(ins) : Settled(p)
  BY UnsettledSays
<1>6. CASE mode = "all"
  <2>1. m > 0 => now = "rejected"
    BY <1>2, <1>6, AtOnceOf
  <2>2. ~(m > 0) => now = "fulfilled" /\ Unsettled(ins) = {}
    BY <1>1, <1>2, <1>4, <1>6, AtOnceOf
  <2> QED
    BY <1>2, <1>3, <1>4, <1>5, <1>6, <2>1, <2>2 DEF Right, Settled
<1>7. CASE mode = "settled"
  BY <1>1, <1>5, <1>7, AtOnceOf DEF Right, Settled, Ends
<1>8. CASE mode = "race"
  BY <1>1, <1>8, AtOnceOf DEF Right
<1>9. CASE mode = "any"
  <2>1. n > 0 => now = "fulfilled"
    BY <1>2, <1>9, AtOnceOf
  <2>2. ~(n > 0) => now = "rejected" /\ m = Len(ins)
    BY <1>1, <1>2, <1>4, <1>9, AtOnceOf
  <2> QED
    BY <1>2, <1>3, <1>4, <1>9, <2>1, <2>2 DEF Right
<1> QED
  BY <1>1, <1>6, <1>7, <1>8, <1>9

LEMMA CountsCombine ==
  ASSUME ~Shared, Base, Exclusive, Apart, Wired, Counts,
         NEW mode \in Modes, NEW ins \in Lists, NEW c \in Promises, Combine(mode, ins, c)
  PROVE Counts'
<1>1. PICK now \in Ends \cup {None} :
        /\ now = AtOnce(mode, ins) /\ state[c] = "new"
        /\ \A p \in Range(ins) : p \in held /\ Free(p)
        /\ Typed' /\ stack' = stack /\ cancels' = cancels
        /\ state'[c] = (IF now = None THEN "pending" ELSE now)
        /\ combi'[c].mode = mode /\ combi'[c].ins = ins
        /\ now = None => combi'[c].count = CountedBefore(mode, ins)
        /\ (combi'[c].done <=> now # None)
        /\ \A p \in Promises : p # c => state'[p] = state[p] /\ combi'[p] = combi[p]
        /\ now = None => \A p \in Promises :
             slot'[p] = IF p \in Range(ins) /\ Pending(p) THEN c ELSE slot[p]
        /\ now # None => \A p \in Promises :
             slot'[p] = slot[p] \/ (slot'[p] = None /\ p \in Range(ins) /\ Pending(p))
  BY CombineEffect DEF historyVars
<1>2. \A p \in Range(ins) : /\ p \in Promises /\ state[p] # "new" /\ p # c
                            /\ Telling(stack, p) => slot[p] = None
                            /\ Pending(p) \/ Settled(p)
  BY <1>1, FreeIs DEF Base, Typed, Made, States, Pending, Settled
<1>3. \A p \in Promises : state[p] \in Ends => slot'[p] = slot[p]
  BY <1>1 DEF Pending, Ends
<1>4. ASSUME NEW b \in Promises, b # c PROVE CountsOf(b)'
  BY <1>1, <1>3, <1>4, CountsOthers DEF Typed
<1>5. ASSUME c \notin cancels' PROVE Fits(combi'[c], state'[c], state', ToldOf(c)')
  <2>1. \A p \in Range(ins) : state'[p] = state[p]
    BY <1>1, <1>2
  <2>2. CASE now = None
    <3>1. PICK x : x = combi'[c]
      OBVIOUS
    <3>2. PICK T : T = {p \in Range(ins) : Settled(p)}
      OBVIOUS
    <3>3. Waits(x, "pending", state, T)
      BY <1>1, <1>2, <2>2, <3>1, <3>2, StartsRight
    <3>4. \A p \in Range(ins) : Settled(p) => ~(Telling(stack', p) /\ slot'[p] = c)
      BY <1>1, <1>2, <1>3, Distinct DEF Settled, Ends
    <3>5. ToldOf(c)' = {p \in Range(ins) :
            state'[p] \in Ends /\ ~(Telling(stack', p) /\ slot'[p] = c)}
      BY <1>1 DEF ToldOf, Settled, Ends
    <3>6. ToldOf(c)' = T
      BY <2>1, <3>2, <3>4, <3>5 DEF Settled, Ends
    <3>7. Waits(x, state'[c], state', T)
      BY <1>1, <2>1, <2>2, <3>2, <3>3 DEF Waits
    <3> QED
      BY <1>1, <2>2, <3>1, <3>6, <3>7 DEF Fits
  <2>3. CASE now # None
    <3>1. now \in Ends
      BY <2>3
    <3>2. Right(mode, now, Range(ins), state)
      BY <1>1, <1>2, <3>1, EndsRight
    <3>3. Right(mode, now, Range(ins), state')
      BY <2>1, <3>2 DEF Right
    <3> QED
      BY <1>1, <2>3, <3>3 DEF Fits
  <2> QED
    BY <2>2, <2>3
<1>6. CountsOf(c)'
  BY <1>1, <1>5 DEF CountsOf
<1> QED
  BY <1>4, <1>6, CountsAre DEF Counts, CountsOf

\* A settled input q tells a waiting combination x that has been told of T.
Tells(q, x, e, st, T) ==
  /\ x.mode \in Modes /\ x.ins \in Lists /\ Waits(x, e, st, T)
  /\ q \in Range(x.ins) /\ q \notin T /\ \A p \in T \cup {q} : st[p] \in Ends

\* The combination then ends right or waits on.
WaitsOn(q, x, st, T) ==
  /\ x.mode # "race"
  /\ x.count + 1 = Weigh(x.ins, T \cup {q}) /\ x.count + 1 # Len(x.ins)
  /\ x.mode = "all" => st[q] = "fulfilled"
  /\ x.mode = "any" => st[q] = "rejected"

LEMMA ToldNext ==
  ASSUME NEW x, NEW e, NEW st, NEW T, NEW q, Tells(q, x, e, st, T),
         NEW d, d = Decision(x.mode, x.count, x.ins, st[q])
  PROVE /\ d \in Ends => Right(x.mode, d, Range(x.ins), st)
        /\ d = None => WaitsOn(q, x, st, T)
<1> USE DEF Tells, WaitsOn
<1>1. x.mode \in {"all", "race", "settled", "any"} /\ None \notin Ends
  BY DEF None, Ends
<1>2. PICK ins : ins = x.ins
  OBVIOUS
<1>3. /\ Len(ins) \in Nat /\ Weigh(ins, T) \in 0 .. Len(ins)
      /\ Weigh(ins, T \cup {q}) = Weigh(ins, T) + 1
      /\ Weigh(ins, T) + 1 = Len(ins) <=> \A p \in Range(ins) : p # q => p \in T
  <2>1. ins \in Lists /\ q \in Range(ins) /\ q \notin T
    BY <1>2
  <2>2. Len(ins) \in Nat /\ Weigh(ins, T) \in 0 .. Len(ins)
    BY <2>1, Weights
  <2> QED
    BY <2>1, <2>2, Weights
<1>4. x.mode # "race" => x.count = Weigh(ins, T)
  BY <1>2 DEF Waits
<1>5. CASE x.mode = "race"
  BY <1>1, <1>5 DEF Decision, Right
<1>6. CASE x.mode = "all"
  <2>1. d = IF st[q] = "rejected" THEN "rejected" ELSE IF x.count + 1 = Len(ins) THEN "fulfilled" ELSE None
    BY <1>2, <1>6 DEF Decision
  <2> QED
    BY <1>1, <1>2, <1>3, <1>4, <1>6, <2>1 DEF Right, Waits, Ends
<1>7. CASE x.mode = "settled"
  <2>1. d = IF x.count + 1 = Len(ins) THEN "fulfilled" ELSE None
    BY <1>2, <1>7 DEF Decision
  <2> QED
    BY <1>1, <1>2, <1>3, <1>4, <1>7, <2>1 DEF Right, Waits, Ends
<1>8. CASE x.mode = "any"
  <2>1. d = IF st[q] = "fulfilled" THEN "fulfilled" ELSE IF x.count + 1 = Len(ins) THEN "rejected" ELSE None
    BY <1>2, <1>8 DEF Decision
  <2> QED
    BY <1>1, <1>2, <1>3, <1>4, <1>8, <2>1 DEF Right, Waits, Ends
<1> QED
  BY <1>1, <1>5, <1>6, <1>7, <1>8

LEMMA CountsNotify == ASSUME Base, Exclusive, Wired, Counts, NotifyCombination PROVE Counts'
<1>1. PICK p \in Promises, c \in Promises :
        /\ slot[p] = c /\ state[p] \in Ends /\ Telling(stack, p)
        /\ Typed' /\ slot' = slot /\ cancels' = cancels
        /\ \A b \in Promises : b # c => combi'[b] = combi[b] /\ state'[b] = state[b]
        /\ \A q \in Promises : Telling(stack', q) <=>
             (Telling(stack, q) /\ q # p) \/ (q = c /\ Pending(c) /\ state'[c] \in Ends)
        /\ combi'[c].mode = combi[c].mode /\ combi'[c].ins = combi[c].ins
        /\ \/ /\ combi[c].done \/ ~Pending(c)
              /\ state'[c] = state[c] /\ combi'[c].done
           \/ /\ ~combi[c].done /\ Pending(c) /\ ~combi'[c].done
              /\ Decision(combi[c].mode, combi[c].count, combi[c].ins, state[p]) = None
              /\ combi'[c].count = combi[c].count + 1
              /\ state'[c] = state[c]
           \/ /\ ~combi[c].done /\ Pending(c) /\ combi'[c].done
              /\ state'[c] = Decision(combi[c].mode, combi[c].count, combi[c].ins, state[p])
              /\ state'[c] \in Ends
  BY NotifyEffect DEF historyVars
<1>2. \A q \in Promises : state[q] \in Ends => state'[q] = state[q]
  BY <1>1 DEF Pending, Ends
<1>3. combi[c].mode \in Modes /\ p \in Range(combi[c].ins) /\ CountsOf(c) /\ combi[c].ins \in Lists
  BY <1>1 DEF Wired, Base, Typed, Combi, Counts, CountsOf
<1>4. ASSUME NEW b \in Promises, b # c PROVE CountsOf(b)'
  <2>1. ASSUME ~combi[b].done, NEW q \in Range(combi[b].ins)
        PROVE /\ Pending(q) /\ state'[q] \in Ends => Telling(stack', q) /\ slot'[q] = b
              /\ state[q] \in Ends =>
                   ((Telling(stack', q) /\ slot'[q] = b) <=> (Telling(stack, q) /\ slot[q] = b))
    <3>1. q \in Promises /\ (Pending(q) => slot[q] = b)
      BY <2>1 DEF Exclusive, Bound
    <3>2. Pending(q) /\ state'[q] \in Ends => q = c
      BY <1>1, <3>1 DEF Pending, Ends
    <3>3. state[q] \in Ends => (Telling(stack', q) <=> Telling(stack, q) /\ q # p)
      BY <1>1, <3>1 DEF Pending, Ends
    <3> QED
      BY <1>1, <1>4, <3>1, <3>2, <3>3
  <2>2. Carried(b)
    BY <1>1, <1>2, <1>4, <2>1 DEF Carried, Kept, Pending
  <2>3. CountsOf(b)
    BY CountsAre
  <2> QED
    BY <1>1, <2>2, <2>3, Carry DEF Typed
<1>5. CountsOf(c)'
  <2>1. CASE combi[c].done
    <3>1. Carried(c)
      BY <1>1, <1>2, <2>1 DEF Carried, Pending
    <3> QED
      BY <1>1, <1>3, <3>1, Carry DEF Typed
  <2>2. CASE ~combi[c].done /\ c \in cancels'
    BY <1>1, <1>3, <2>2 DEF CountsOf
  <2>3. CASE ~combi[c].done /\ c \notin cancels'
    <3>1. PICK x, y, T, st : /\ x = combi[c] /\ y = combi'[c]
                             /\ T = ToldOf(c) /\ st = state
      OBVIOUS
    <3>2. Waits(x, state[c], st, T)
      BY <1>1, <1>3, <2>3, <3>1 DEF CountsOf, Fits, None
    <3>3. Pending(c)
      BY <3>2 DEF Waits, Pending
    <3>4. x.mode \in Modes /\ x.ins \in Lists /\ p \in Range(x.ins) /\ p \notin T /\ st[p] \in Ends
      BY <1>1, <1>3, <3>1 DEF ToldOf
    <3>5. T \subseteq Range(x.ins) /\ \A q \in T : q \in Promises /\ st[q] \in Ends
      BY <1>3, <3>1, ListIs DEF ToldOf, Settled, Ends
    <3>6. PICK d : d = Decision(x.mode, x.count, x.ins, st[p])
      OBVIOUS
    <3>7. /\ d \in Ends => Right(x.mode, d, Range(x.ins), st)
          /\ d = None => WaitsOn(p, x, st, T)
      <4>1. PICK e : e = state[c]
        OBVIOUS
      <4>2. Tells(p, x, e, st, T)
        BY <3>2, <3>4, <3>5, <4>1 DEF Tells
      <4> QED
        BY <3>6, <4>2, ToldNext
    <3>8. CASE y.done
      <4>1. state'[c] = d /\ d \in Ends
        BY <1>1, <2>3, <3>1, <3>3, <3>6, <3>8
      <4>2. Right(x.mode, d, Range(x.ins), st)
        BY <3>7, <4>1
      <4>3. PICK R, new, m : R = Range(x.ins) /\ new = state' /\ m = x.mode
        OBVIOUS
      <4>4. \A q \in R : st[q] \in Ends => new[q] = st[q]
        BY <1>2, <1>3, <3>1, <4>3, ListIs
      <4>5. Right(m, d, R, new)
        BY <3>4, <4>2, <4>3, <4>4, RightLasts
      <4> QED
        BY <1>1, <1>3, <3>1, <3>8, <4>1, <4>3, <4>5 DEF CountsOf, Fits
    <3>9. CASE ~y.done
      <4>1. d = None /\ y.count = x.count + 1 /\ state'[c] = state[c] /\ state' = state
        BY <1>1, <2>3, <3>1, <3>3, <3>6, <3>9 DEF Base, Typed
      <4>2. ToldOf(c)' = {q \in Range(combi[c].ins) : Settled(q) /\ ~(Telling(stack', q) /\ slot[q] = c)}
        BY <1>1, <4>1 DEF ToldOf, Settled
      <4>3. \A q \in Range(combi[c].ins) : Settled(q) => (Telling(stack', q) <=> Telling(stack, q) /\ q # p)
        BY <1>1, <1>3, <4>1, ListIs DEF Settled, Pending, Ends
      <4>4. ToldOf(c) = {q \in Range(combi[c].ins) : Settled(q) /\ ~(Telling(stack, q) /\ slot[q] = c)}
        BY DEF ToldOf
      <4>5. Settled(p)
        BY <1>1 DEF Settled, Ends
      <4>6. ToldOf(c)' = T \cup {p}
        BY <1>3, <3>1, <4>2, <4>3, <4>4, <4>5
      <4>7. Waits(y, state'[c], state', T \cup {p})
        BY <1>1, <3>1, <3>2, <3>7, <4>1 DEF Waits, WaitsOn
      <4> QED
        BY <1>1, <1>3, <3>1, <3>9, <4>6, <4>7 DEF CountsOf, Fits
    <3> QED
      BY <3>8, <3>9
  <2> QED
    BY <2>1, <2>2, <2>3
<1> QED
  BY <1>4, <1>5, CountsAre DEF Counts, CountsOf

LEMMA WiredStep == ASSUME Base, Exclusive, Apart, Wired, Next PROVE Wired'
<1>1. CASE Plain
  BY <1>1 DEF Plain, Wired
<1>2. ASSUME NEW mode \in Modes, NEW ins \in Lists, NEW c \in Promises, Combine(mode, ins, c)
      PROVE Wired'
  <2>1. PICK now \in Ends \cup {None} :
          /\ state[c] = "new"
          /\ combi'[c].mode = mode /\ combi'[c].ins = ins
          /\ \A p \in Promises : p # c => combi'[p] = combi[p]
          /\ now = None => \A p \in Promises :
               slot'[p] = IF p \in Range(ins) /\ Pending(p) THEN c ELSE slot[p]
          /\ now # None => \A p \in Promises : slot'[p] = slot[p] \/ slot'[p] = None
    BY <1>2, CombineEffect
  <2>2. \A p \in Promises : slot[p] # c
    BY <2>1 DEF Wired, Apart
  <2>3. mode # None
    BY DEF None
  <2>4. \A p \in Promises : slot'[p] \in {slot[p], None} \/ (slot'[p] = c /\ p \in Range(ins))
    BY <2>1
  <2> QED
    BY <2>1, <2>2, <2>3, <2>4, Distinct DEF Wired
<1>3. ASSUME NEW k \in Routines, NEW p \in Promises, Async(k, p) PROVE Wired'
  BY <1>3, AsyncEffect DEF Wired
<1>4. ASSUME NEW p \in Promises, AwaitKeyword(p) \/ AwaitFunction(p) PROVE Wired'
  <2>1. PICK k \in Routines : /\ combi' = combi /\ slot'[p] \in {k, None}
                              /\ \A q \in Promises : q # p => slot'[q] = slot[q]
    BY <1>4, AwaitEffect
  <2> QED
    BY <2>1, Distinct DEF Wired
<1>5. CASE NotifyCombination
  <2>1. PICK c \in Promises : /\ slot' = slot
                              /\ \A b \in Promises : b # c => combi'[b] = combi[b]
                              /\ combi'[c].mode = combi[c].mode /\ combi'[c].ins = combi[c].ins
    BY <1>5, NotifyEffect
  <2> QED
    BY <2>1 DEF Wired
<1>6. CASE CombinationEnds
  <2>1. PICK c \in Promises :
          /\ \A q \in Promises : slot'[q] \in {slot[q], None}
          /\ \A b \in Promises : b # c => combi'[b] = combi[b]
          /\ combi'[c].mode = combi[c].mode /\ combi'[c].ins = combi[c].ins
    BY <1>6, EndEffect
  <2> QED
    BY <2>1, Distinct DEF Wired
<1>7. CASE NotifyRoutine
  <2>1. PICK p \in Promises : /\ combi' = combi /\ slot'[p] = None
                              /\ \A q \in Promises : q # p => slot'[q] = slot[q]
    BY <1>7, ResumeEffect
  <2> QED
    BY <2>1, Distinct DEF Wired
<1>8. CASE NotifyNobody \/ RoutineFreed
  BY <1>8 DEF NotifyNobody, RoutineFreed, heapVars, Wired
<1> QED
  BY <1>1, <1>2, <1>3, <1>4, <1>5, <1>6, <1>7, <1>8, Steps

LEMMA CountsStep == ASSUME ~Shared, Base, Exclusive, Apart, Wired, Counts, Next PROVE Counts'
<1>1. cancels \subseteq cancels'
  BY CancelsGrow
<1>2. ASSUME NEW mode \in Modes, NEW ins \in Lists, NEW c \in Promises, Combine(mode, ins, c)
      PROVE Counts'
  BY <1>2, CountsCombine
<1>3. CASE NotifyCombination
  BY <1>3, CountsNotify
<1>4. CASE Plain /\ Foreign
  BY <1>1, <1>4, CountsPlain
<1>5. ASSUME NEW k \in Routines, NEW p \in Promises, Async(k, p) PROVE Counts'
  BY <1>5, CountsAsync
<1>6. ASSUME NEW p \in Promises, AwaitKeyword(p) \/ AwaitFunction(p) PROVE Counts'
  BY <1>6, CountsAwait
<1>7. CASE CombinationEnds \/ NotifyRoutine \/ NotifyNobody \/ RoutineFreed
  BY <1>7, CountsEnds, CountsResume, CountsNobody
<1> QED
  BY <1>2, <1>3, <1>4, <1>5, <1>6, <1>7, Steps, StepsApart

LEMMA CountsInit == Init => Wired /\ Counts
  BY Distinct DEF Init, Wired, Counts, NoCombi

LEMMA CountsStutter == ASSUME Wired, Counts, UNCHANGED vars PROVE Wired' /\ Counts'
<1>1. Wired'
  BY DEF Wired, vars, heapVars
<1>2. \A c \in Promises : ToldOf(c)' = ToldOf(c)
  BY DEF ToldOf, Settled, vars, heapVars
<1>3. Counts'
  BY <1>2 DEF Counts, vars, heapVars, historyVars
<1> QED
  BY <1>1, <1>3

LEMMA CountsHold == ASSUME ~Shared PROVE Spec => [](Exclusive /\ Counts)
<1>1. Base /\ Exclusive /\ [Next]_vars => Exclusive'
  BY ExclusiveStep
<1>2. Base /\ Exclusive /\ Apart /\ Wired /\ Counts /\ [Next]_vars => Wired' /\ Counts'
  BY WiredStep, CountsStep, CountsStutter
<1> QED
  BY <1>1, <1>2, BaseHolds, ApartHolds, ExclusiveInit, CountsInit, PTL DEF Spec

\* When nobody is about to be told of anything, a combination has been told
\* of all its settled inputs.
LEMMA Answered ==
  ASSUME Base, Exclusive, Counts, stack = <<>>, NEW c \in Promises, combi[c].mode # None, c \notin cancels
  PROVE state[c] \in (IF Answer(c) = {} THEN {"pending"} ELSE Answer(c))
<1>1. PICK x, ins : x = combi[c] /\ ins = x.ins
  OBVIOUS
<1>2. x.mode \in Modes /\ ins \in Lists /\ Fits(x, state[c], state, ToldOf(c))
  BY <1>1 DEF Counts, Base, Typed, Combi
<1>3. x.mode \in {"all", "race", "settled", "any"}
  BY <1>2
<1>4. PICK f, r, n, m : /\ f = "fulfilled" /\ n = Count(ins, f)
                        /\ r = "rejected" /\ m = Count(ins, r)
  OBVIOUS
<1>5. /\ n \in 0 .. Len(ins) /\ (n = 0 <=> \A p \in Range(ins) : state[p] # f)
      /\ m \in 0 .. Len(ins) /\ (m = 0 <=> \A p \in Range(ins) : state[p] # r)
      /\ m = Len(ins) <=> \A p \in Range(ins) : state[p] = r
  BY <1>2, <1>4, CountSays
<1>6. (n > 0 <=> n # 0) /\ (m > 0 <=> m # 0)
  BY <1>2, <1>5, Weights
<1>7. Unsettled(ins) = {} <=> \A p \in Range(ins) : ~Pending(p)
  BY <1>2, UnsettledSays
<1>8. \A p \in Range(ins) : p \in Promises
  BY <1>2, ListIs
<1>9. /\ x.mode = "all" => Answer(c) = IF m > 0 THEN {r} ELSE IF Unsettled(ins) = {} THEN {f} ELSE {"pending"}
      /\ x.mode = "settled" => Answer(c) = IF Unsettled(ins) = {} THEN {f} ELSE {"pending"}
      /\ x.mode = "race" => Answer(c) = {state[p] : p \in Range(ins)} \ {"pending"}
      /\ x.mode = "any" => Answer(c) = IF n > 0 THEN {f} ELSE IF m = Len(ins) THEN {r} ELSE {"pending"}
  BY <1>1, <1>4 DEF Answer
<1>10. CASE x.done
  <2>1. Right(x.mode, state[c], Range(ins), state)
    BY <1>1, <1>2, <1>10 DEF Fits
  <2>2. CASE x.mode = "all"
    BY <1>4, <1>5, <1>6, <1>7, <1>9, <2>1, <2>2 DEF Right, Pending
  <2>3. CASE x.mode = "settled"
    BY <1>4, <1>7, <1>9, <2>1, <2>3 DEF Right, Pending, Ends
  <2>4. CASE x.mode = "race"
    BY <1>9, <2>1, <2>4 DEF Right, Ends
  <2>5. CASE x.mode = "any"
    <3>1. CASE state[c] = f /\ \E p \in Range(ins) : state[p] = f
      BY <1>5, <1>6, <1>9, <2>5, <3>1
    <3>2. CASE state[c] = r /\ \A p \in Range(ins) : state[p] = r
      BY <1>4, <1>5, <1>6, <1>9, <2>5, <3>2
    <3> QED
      BY <1>4, <2>1, <2>5, <3>1, <3>2 DEF Right
  <2> QED
    BY <1>3, <2>2, <2>3, <2>4, <2>5
<1>11. CASE ~x.done
  <2>1. PICK T : T = ToldOf(c)
    OBVIOUS
  <2>2. Waits(x, state[c], state, T)
    BY <1>2, <1>11, <2>1 DEF Fits
  <2>3. \A p : ~Telling(stack, p)
    BY DEF Telling, Has
  <2>4. \A p \in Range(ins) : state[p] # "new"
    BY <1>1, <1>11 DEF Exclusive, Bound
  <2>5. \A p \in Range(ins) : /\ state[p] \in States
                              /\ p \in T <=> ~Pending(p)
                              /\ p \in T <=> state[p] \in Ends
    BY <1>1, <1>8, <2>1, <2>3, <2>4 DEF ToldOf, Base, Typed, States, Settled, Pending, Ends
  <2>6. Weigh(ins, T) = Len(ins) <=> \A p \in Range(ins) : p \in T
    BY <1>2, Weights
  <2>7. x.mode # "race" => Unsettled(ins) # {}
    BY <1>1, <1>7, <2>2, <2>5, <2>6 DEF Waits
  <2>8. CASE x.mode = "all"
    <3>1. \A p \in Range(ins) : state[p] # r
      BY <1>4, <2>2, <2>5, <2>8 DEF Waits, Ends
    <3> QED
      BY <1>5, <1>6, <1>9, <2>2, <2>7, <2>8, <3>1 DEF Waits
  <2>9. CASE x.mode = "settled"
    BY <1>9, <2>2, <2>7, <2>9 DEF Waits
  <2>10. CASE x.mode = "race"
    BY <1>9, <2>2, <2>5, <2>10 DEF Waits, Pending
  <2>11. CASE x.mode = "any"
    <3>1. \A p \in Range(ins) : state[p] # f
      BY <1>4, <2>2, <2>5, <2>11 DEF Waits, Ends
    <3>2. ~\A p \in Range(ins) : state[p] = r
      BY <1>4, <1>7, <2>7, <2>11 DEF Pending
    <3> QED
      BY <1>5, <1>6, <1>9, <2>2, <2>11, <3>1, <3>2 DEF Waits
  <2> QED
    BY <1>3, <2>8, <2>9, <2>10, <2>11
<1> QED
  BY <1>10, <1>11

\* Where at most one waits for each promise, a combination that nobody has
\* cancelled says what its inputs say whenever all functions have returned:
\* each input is counted exactly once, whether it is settled before or after
\* the combination is made, and no continuation of an input is lost.
THEOREM CombinationsAnswer == ASSUME ~Shared PROVE Spec => []CombinationAnswers
<1>1. Base /\ Exclusive /\ Counts => CombinationAnswers
  BY Answered DEF CombinationAnswers, Quiet
<1> QED
  BY <1>1, BaseHolds, CountsHold, PTL

-----------------------------------------------------------------------------
(* Counting the places of an element in lists.                             *)

Bit(b) == IF b THEN 1 ELSE 0

\* How often q is in the list x
Spots(x, q) == {i \in 1 .. Len(x) : x[i] = q}
Occ(x, q) == Cardinality(Spots(x, q))

LEMMA OccFinite == ASSUME NEW T, NEW x \in Seq(T), NEW q
  PROVE IsFiniteSet(Spots(x, q)) /\ Occ(x, q) \in Nat
<1>1. IsFiniteSet(1 .. Len(x))
  BY FS_Interval
<1>2. Spots(x, q) \in SUBSET (1 .. Len(x))
  BY DEF Spots
<1>3. IsFiniteSet(Spots(x, q))
  BY <1>1, <1>2, FS_Subset
<1> QED
  BY <1>3, FS_CardinalityType DEF Occ

LEMMA OccEmpty == ASSUME NEW q PROVE Occ(<<>>, q) = 0
<1>1. Spots(<<>>, q) = {}
  BY DEF Spots
<1> QED
  BY <1>1, FS_EmptySet DEF Occ

LEMMA OccOne == ASSUME NEW p, NEW q PROVE Occ(<<p>>, q) = Bit(p = q)
<1>1. Spots(<<p>>, q) = IF p = q THEN {1} ELSE {}
  BY DEF Spots
<1> QED
  BY <1>1, FS_EmptySet, FS_Singleton DEF Occ, Bit

LEMMA OccConcat == ASSUME NEW T, NEW x \in Seq(T), NEW y \in Seq(T), NEW q
  PROVE x \o y \in Seq(T) /\ Occ(x \o y, q) = Occ(x, q) + Occ(y, q)
<1>1. PICK n \in Nat : n = Len(x)
  OBVIOUS
<1>2. PICK m \in Nat : m = Len(y)
  OBVIOUS
<1>3. PICK z : z = x \o y
  OBVIOUS
<1>4. /\ z \in Seq(T) /\ Len(z) = n + m
      /\ \A i \in 1 .. n : z[i] = x[i]
      /\ \A i \in 1 .. m : z[n + i] = y[i]
  BY <1>1, <1>2, <1>3
<1> DEFINE A == Spots(x, q)
           B == Spots(y, q)
           C == {i \in n + 1 .. n + m : z[i] = q}
           f == [i \in B |-> n + i]
<1>5. Spots(z, q) = A \cup C /\ A \cap C = {}
  BY <1>1, <1>4 DEF Spots
<1>6. \A i \in B : i \in 1 .. m /\ n + i \in C
  BY <1>2, <1>4 DEF Spots
<1>7. \A j \in C : j - n \in B /\ n + (j - n) = j
  <2>1. ASSUME NEW j \in n + 1 .. n + m PROVE j - n \in 1 .. m /\ n + (j - n) = j
    OBVIOUS
  <2> QED
    BY <1>2, <1>4, <2>1 DEF Spots
<1>8. f \in Bijection(B, C)
  <2>1. f \in Injection(B, C)
    BY <1>6 DEF Injection, IsInjective
  <2>2. f \in Surjection(B, C)
    BY <1>6, <1>7 DEF Surjection
  <2> QED
    BY <2>1, <2>2 DEF Bijection
<1>9. IsFiniteSet(A) /\ IsFiniteSet(B) /\ Occ(x, q) \in Nat /\ Occ(y, q) \in Nat
  BY OccFinite
<1>10. IsFiniteSet(C) /\ Cardinality(C) = Cardinality(B)
  BY <1>8, <1>9, FS_Bijection DEF ExistsBijection
<1>11. Cardinality(A \cup C) = Cardinality(A) + Cardinality(C) - Cardinality(A \cap C)
  BY <1>9, <1>10, FS_Union
<1> HIDE DEF A, B, C
<1>12. Cardinality(A) \in Nat /\ Cardinality(B) \in Nat /\ Cardinality(A \cap C) = 0
  BY <1>5, <1>9, FS_CardinalityType, FS_EmptySet
<1>13. Cardinality(A \cup C) = Cardinality(A) + Cardinality(B)
  BY <1>10, <1>11, <1>12
<1> QED
  BY <1>3, <1>4, <1>5, <1>13 DEF Occ, A, B

LEMMA OccHead == ASSUME NEW T, NEW x \in Seq(T), x # <<>>, NEW q
  PROVE /\ Head(x) \in T /\ Tail(x) \in Seq(T)
        /\ Occ(x, q) = Bit(Head(x) = q) + Occ(Tail(x), q)
<1>1. Head(x) \in T /\ Tail(x) \in Seq(T) /\ <<Head(x)>> \in Seq(T) /\ x = <<Head(x)>> \o Tail(x)
  OBVIOUS
<1>2. PICK h : h = <<Head(x)>>
  OBVIOUS
<1>3. PICK t : t = Tail(x)
  OBVIOUS
<1>4. Occ(h \o t, q) = Occ(h, q) + Occ(t, q)
  <2>1. h \in Seq(T) /\ t \in Seq(T)
    BY <1>1, <1>2, <1>3
  <2> QED
    BY <2>1, OccConcat
<1>5. Occ(h, q) = Bit(Head(x) = q)
  BY <1>2, OccOne
<1>6. Occ(x, q) = Occ(h \o t, q)
  BY <1>1, <1>2, <1>3
<1> QED
  BY ONLY <1>1, <1>3, <1>4, <1>5, <1>6

LEMMA OccIn == ASSUME NEW T, NEW x \in Seq(T), NEW q \in Range(x)
  PROVE Occ(x, q) >= 1
<1>1. PICK i \in 1 .. Len(x) : x[i] = q
  BY DEF Range
<1>2. Spots(x, q) # {}
  BY <1>1 DEF Spots
<1>3. IsFiniteSet(Spots(x, q)) /\ Occ(x, q) \in Nat
  BY OccFinite
<1>4. Occ(x, q) # 0
  BY <1>2, <1>3, FS_EmptySet DEF Occ
<1> QED
  BY <1>3, <1>4

\* An element is in a list of different inputs once or not at all.
LEMMA OccInputs == ASSUME NEW ins \in Lists, NEW q
  PROVE ins \in Seq(Promises) /\ Occ(ins, q) = Bit(q \in Range(ins))
<1>1. /\ ins \in Seq(Promises)
      /\ \A i, j \in 1 .. Len(ins) : ins[i] = ins[j] => i = j
  BY ListIs
<1>2. CASE q \notin Range(ins)
  <2>1. Spots(ins, q) = {}
    BY <1>1, <1>2 DEF Spots, Range
  <2> QED
    BY <1>1, <1>2, <2>1, FS_EmptySet DEF Occ, Bit
<1>3. CASE q \in Range(ins)
  <2>1. PICK i \in 1 .. Len(ins) : ins[i] = q
    BY <1>1, <1>3 DEF Range
  <2>2. Spots(ins, q) = {i}
    BY <1>1, <2>1 DEF Spots
  <2> QED
    BY <1>1, <1>3, <2>2, FS_Singleton DEF Occ, Bit
<1> QED
  BY <1>2, <1>3

\* The places of q in the lists L[d] for the members d of D
Grid(L, D, q) == {c \in D \X Nat : c[2] \in 1 .. Len(L[c[1]]) /\ L[c[1]][c[2]] = q}
Total(L, D, q) == Cardinality(Grid(L, D, q))

LEMMA GridFinite ==
  ASSUME NEW D, IsFiniteSet(D), NEW T, NEW L, \A d \in D : L[d] \in Seq(T), NEW q
  PROVE IsFiniteSet(Grid(L, D, q)) /\ Total(L, D, q) \in Nat
<1> DEFINE R(d) == {d} \X (1 .. Len(L[d]))
           f == [d \in D |-> R(d)]
           S == {R(d) : d \in D}
<1>1. IsFiniteSet(S)
  <2>1. f \in Surjection(D, S)
    BY DEF Surjection
  <2> QED
    BY <2>1, FS_Surjection
<1>2. ASSUME NEW d \in D PROVE IsFiniteSet(R(d))
  <2>1. IsFiniteSet({d})
    BY FS_Singleton
  <2>2. PICK n \in Nat : n = Len(L[d])
    OBVIOUS
  <2>3. IsFiniteSet(1 .. n)
    BY FS_Interval
  <2> QED
    BY <2>1, <2>2, <2>3, FS_Product
<1>3. IsFiniteSet(UNION S)
  BY <1>1, <1>2, FS_UNION
<1>4. Grid(L, D, q) \in SUBSET (UNION S)
  <2>1. ASSUME NEW c \in Grid(L, D, q) PROVE c \in UNION S
    <3>1. PICK d \in D, i \in Nat : c = <<d, i>>
      BY DEF Grid
    <3>2. i \in 1 .. Len(L[d])
      BY <3>1 DEF Grid
    <3>3. c \in R(d)
      BY <3>1, <3>2
    <3> QED
      BY <3>1, <3>3
  <2> QED
    BY <2>1
<1>5. IsFiniteSet(Grid(L, D, q))
  BY <1>3, <1>4, FS_Subset
<1> QED
  BY <1>5, FS_CardinalityType DEF Total

LEMMA GridEmpty == ASSUME NEW L, NEW q PROVE Total(L, {}, q) = 0
<1>1. Grid(L, {}, q) = {}
  BY DEF Grid
<1> QED
  BY <1>1, FS_EmptySet DEF Total

LEMMA GridSame == ASSUME NEW D, NEW L, NEW M, \A d \in D : L[d] = M[d], NEW q
  PROVE Total(L, D, q) = Total(M, D, q)
<1>1. Grid(L, D, q) = Grid(M, D, q)
  BY DEF Grid
<1> QED
  BY <1>1 DEF Total

\* One list more
LEMMA GridRow ==
  ASSUME NEW D, IsFiniteSet(D), NEW d, d \notin D, NEW T, NEW L,
         \A e \in D \cup {d} : L[e] \in Seq(T), NEW q
  PROVE Total(L, D \cup {d}, q) = Total(L, D, q) + Occ(L[d], q)
<1> DEFINE A == Grid(L, D, q)
           B == Grid(L, {d}, q)
           P == Spots(L[d], q)
           f == [i \in P |-> <<d, i>>]
<1>1. Grid(L, D \cup {d}, q) = A \cup B /\ A \cap B = {}
  BY DEF Grid
<1>2. L[d] \in Seq(T)
  OBVIOUS
<1>3. /\ \A i \in P : i \in Nat /\ <<d, i>> \in B
      /\ \A c \in B : c[2] \in P /\ c = <<d, c[2]>>
  BY <1>2 DEF Grid, Spots
<1>4. f \in Bijection(P, B)
  <2>1. /\ f \in [P -> B] /\ \A c \in B : \E i \in P : f[i] = c
        /\ \A i, j \in P : f[i] = f[j] => i = j
    BY <1>3
  <2> QED
    BY <2>1, Fun_IsBij
<1>5. IsFiniteSet(P) /\ Occ(L[d], q) \in Nat
  BY <1>2, OccFinite
<1>6. IsFiniteSet(B) /\ Cardinality(B) = Cardinality(P)
  BY <1>4, <1>5, FS_Bijection DEF ExistsBijection
<1>7. IsFiniteSet(A) /\ Total(L, D, q) \in Nat
  BY GridFinite
<1>8. Cardinality(A \cup B) = Cardinality(A) + Cardinality(B) - Cardinality(A \cap B)
  BY <1>6, <1>7, FS_Union
<1>9. Cardinality(A \cap B) = 0
  BY <1>1, FS_EmptySet
<1>10. /\ Total(L, D \cup {d}, q) = Cardinality(A \cup B)
       /\ Total(L, D, q) = Cardinality(A) /\ Occ(L[d], q) = Cardinality(P)
  BY <1>1 DEF Total, Occ
<1> HIDE DEF A, B, P
<1> QED
  BY ONLY <1>5, <1>6, <1>7, <1>8, <1>9, <1>10

ListsOn(L, D) == \A d \in D : L[d] \in Seq(Promises)
Differ(L, M, D, d) == \A e \in D \ {d} : L[e] = M[e]

\* Another list in the place of one
LEMMA GridChange ==
  ASSUME NEW D, IsFiniteSet(D), NEW d \in D, NEW L, NEW M,
         ListsOn(L, D), ListsOn(M, D), Differ(L, M, D, d), NEW q
  PROVE /\ Total(L, D, q) \in Nat /\ Total(M, D, q) \in Nat
        /\ Total(M, D, q) + Occ(L[d], q) = Total(L, D, q) + Occ(M[d], q)
<1>1. PICK E : E = D \ {d}
  OBVIOUS
<1>2. IsFiniteSet(E) /\ d \notin E /\ E \cup {d} = D
  BY <1>1, FS_Difference
<1>3. /\ \A e \in E \cup {d} : L[e] \in Seq(Promises)
      /\ \A e \in E \cup {d} : M[e] \in Seq(Promises)
  BY <1>2 DEF ListsOn
<1>4. Total(L, E \cup {d}, q) = Total(L, E, q) + Occ(L[d], q)
  BY <1>2, <1>3, GridRow
<1>5. Total(M, E \cup {d}, q) = Total(M, E, q) + Occ(M[d], q)
  BY <1>2, <1>3, GridRow
<1>6. Total(L, E, q) = Total(M, E, q)
  BY <1>1, GridSame DEF Differ
<1>7. Total(L, D, q) \in Nat /\ Total(M, D, q) \in Nat
  BY GridFinite DEF ListsOn
<1>8. Total(L, E, q) \in Nat
  BY <1>1, <1>2, GridFinite DEF ListsOn
<1>9. Occ(L[d], q) \in Nat /\ Occ(M[d], q) \in Nat
  BY OccFinite DEF ListsOn
<1>10. /\ Total(L, D, q) = Total(L, E, q) + Occ(L[d], q)
      /\ Total(M, D, q) = Total(M, E, q) + Occ(M[d], q)
  BY <1>2, <1>4, <1>5
<1> QED
  BY ONLY <1>6, <1>7, <1>8, <1>9, <1>10

\* One element more or less in a set
LEMMA SetChange ==
  ASSUME NEW S, IsFiniteSet(S), NEW A \in SUBSET S, NEW B \in SUBSET S, NEW e \in S,
         \A x \in S \ {e} : x \in A <=> x \in B
  PROVE /\ Cardinality(A) \in Nat /\ Cardinality(B) \in Nat
        /\ Cardinality(B) + Bit(e \in A) = Cardinality(A) + Bit(e \in B)
<1>1. PICK C : C = A \ {e}
  OBVIOUS
<1>2. C = B \ {e} /\ IsFiniteSet(A) /\ IsFiniteSet(B)
  BY <1>1, FS_Subset
<1>3. Cardinality(A \ {e}) = IF e \in A THEN Cardinality(A) - 1 ELSE Cardinality(A)
  BY <1>2, FS_RemoveElement
<1>4. Cardinality(B \ {e}) = IF e \in B THEN Cardinality(B) - 1 ELSE Cardinality(B)
  BY <1>2, FS_RemoveElement
<1>5. Cardinality(A) \in Nat /\ Cardinality(B) \in Nat
  BY <1>2, FS_CardinalityType
<1>6. PICK a, b, c : a = Cardinality(A) /\ b = Cardinality(B) /\ c = Cardinality(C)
  OBVIOUS
<1>7. /\ e \in A => c = a - 1
      /\ e \notin A => c = a
      /\ e \in B => c = b - 1
      /\ e \notin B => c = b
  BY <1>1, <1>2, <1>3, <1>4, <1>6
<1>8. b + Bit(e \in A) = a + Bit(e \in B)
  BY ONLY <1>5, <1>6, <1>7 DEF Bit
<1> QED
  BY <1>5, <1>6, <1>8

-----------------------------------------------------------------------------
(* References that active functions and reactions hold.                    *)

KidsOf(x) == [j \in 1 .. Len(x) |-> x[j].child]

\* The promises that a frame is going to release
Load(f) == IF f.op = "release" THEN f.todo
           ELSE IF f.op = "react" THEN KidsOf(f.todo) ELSE <<>>

Loads(s) == [i \in 1 .. Len(s) |-> Load(s[i])]
OnStack(s, q) == Total(Loads(s), 1 .. Len(s), q)

KidLists(x) == [p \in Promises |-> KidsOf(x[p])]
InReactions(x, q) == Total(KidLists(x), Promises, q)

LEMMA KidsType == ASSUME NEW x \in Seq(Reaction)
  PROVE KidsOf(x) \in Seq(Promises) /\ Len(KidsOf(x)) = Len(x)
<1>1. \A j \in 1 .. Len(x) : x[j] \in Reaction
  OBVIOUS
<1>2. \A j \in 1 .. Len(x) : x[j].child \in Promises
  BY <1>1 DEF Reaction
<1> QED
  BY <1>2 DEF KidsOf

LEMMA KidsEmpty == KidsOf(<<>>) = <<>>
  BY DEF KidsOf

LEMMA KidsHead == ASSUME NEW x \in Seq(Reaction), x # <<>>, NEW q
  PROVE /\ Head(x) \in Reaction /\ Tail(x) \in Seq(Reaction)
        /\ Occ(KidsOf(x), q) = Bit(Head(x).child = q) + Occ(KidsOf(Tail(x)), q)
<1>1. Head(x) \in Reaction /\ Tail(x) \in Seq(Reaction) /\ Len(x) \in Nat \ {0}
  OBVIOUS
<1>2. PICK k \in Seq(Promises) : k = KidsOf(x) /\ Len(k) = Len(x)
  BY KidsType
<1>3. k # <<>> /\ Head(k) = Head(x).child
  BY <1>1, <1>2 DEF KidsOf
<1>4. Tail(k) = KidsOf(Tail(x))
  <2>1. PICK t \in Seq(Promises) : t = KidsOf(Tail(x)) /\ Len(t) = Len(Tail(x))
    BY <1>1, KidsType
  <2>2. Tail(k) \in Seq(Promises) /\ Len(Tail(k)) = Len(t)
    BY <1>1, <1>2, <1>3, <2>1
  <2>3. ASSUME NEW j \in 1 .. Len(t) PROVE Tail(k)[j] = t[j]
    <3>1. j + 1 \in 1 .. Len(x) /\ j \in 1 .. Len(Tail(x))
      BY <1>1, <2>1
    <3>2. Tail(k)[j] = x[j + 1].child
      BY <1>2, <1>3, <2>2, <3>1 DEF KidsOf
    <3>3. t[j] = Tail(x)[j].child
      BY <2>1, <3>1 DEF KidsOf
    <3>4. Tail(x)[j] = x[j + 1]
      BY <1>1, <3>1
    <3> QED
      BY <3>2, <3>3, <3>4
  <2>4. Tail(k) = t
    BY ONLY t \in Seq(Promises), <2>2, <2>3
  <2> QED
    BY <2>1, <2>4
<1>5. Occ(k, q) = Bit(Head(k) = q) + Occ(Tail(k), q)
  BY <1>2, <1>3, OccHead
<1> QED
  BY <1>1, <1>2, <1>3, <1>4, <1>5

LEMMA KidsMore == ASSUME NEW r \in Reaction, NEW x \in Seq(Reaction), NEW q
  PROVE /\ <<r>> \o x \in Seq(Reaction)
        /\ Occ(KidsOf(<<r>> \o x), q) = Bit(r.child = q) + Occ(KidsOf(x), q)
<1>1. PICK y : y = <<r>> \o x
  OBVIOUS
<1>2. y \in Seq(Reaction) /\ y # <<>> /\ Head(y) = r /\ Tail(y) = x
  BY <1>1
<1>3. Occ(KidsOf(y), q) = Bit(Head(y).child = q) + Occ(KidsOf(Tail(y)), q)
  BY <1>2, KidsHead
<1> QED
  BY <1>1, <1>2, <1>3

LEMMA LoadType == ASSUME NEW f \in Frames PROVE Load(f) \in Seq(Promises)
<1>1. f.op = "react" => KidsOf(f.todo) \in Seq(Promises)
  BY FrameKinds, KidsType
<1>2. <<>> \in Seq(Promises)
  OBVIOUS
<1> QED
  BY <1>1, <1>2, FrameKinds DEF Load

LEMMA StackCount == ASSUME NEW s \in Seq(Frames), NEW q
  PROVE OnStack(s, q) \in Nat /\ \A i \in 1 .. Len(s) : Loads(s)[i] \in Seq(Promises)
<1>1. \A i \in 1 .. Len(s) : Loads(s)[i] \in Seq(Promises)
  BY LoadType DEF Loads
<1>2. IsFiniteSet(1 .. Len(s))
  BY FS_Interval
<1> QED
  BY <1>1, <1>2, GridFinite DEF OnStack

LEMMA StackEmpty == ASSUME NEW q PROVE OnStack(<<>>, q) = 0
<1>1. 1 .. Len(<<>>) = {}
  OBVIOUS
<1> QED
  BY <1>1, GridEmpty DEF OnStack

LEMMA StackPush == ASSUME NEW s \in Seq(Frames), NEW f \in Frames, NEW q
  PROVE /\ Append(s, f) \in Seq(Frames)
        /\ OnStack(Append(s, f), q) = OnStack(s, q) + Occ(Load(f), q)
<1>1. PICK t : t = Append(s, f)
  OBVIOUS
<1>2. PICK n \in Nat : n = Len(s)
  OBVIOUS
<1>3. t \in Seq(Frames) /\ Len(t) = n + 1 /\ t[n + 1] = f /\ \A i \in 1 .. n : t[i] = s[i]
  BY <1>1, <1>2
<1>4. /\ 1 .. Len(t) = (1 .. n) \cup {n + 1} /\ n + 1 \notin 1 .. n
      /\ IsFiniteSet(1 .. n)
  <2>1. IsFiniteSet(1 .. n)
    BY FS_Interval
  <2>2. 1 .. n + 1 = (1 .. n) \cup {n + 1} /\ n + 1 \notin 1 .. n
    OBVIOUS
  <2> QED
    BY <1>3, <2>1, <2>2
<1>5. PICK L : L = Loads(t)
  OBVIOUS
<1>6. \A i \in (1 .. n) \cup {n + 1} : L[i] \in Seq(Promises)
  BY <1>3, <1>4, <1>5, StackCount
<1>7. Total(L, (1 .. n) \cup {n + 1}, q) = Total(L, 1 .. n, q) + Occ(L[n + 1], q)
  <2>1. PICK D, d : D = 1 .. n /\ d = n + 1
    OBVIOUS
  <2>2. IsFiniteSet(D) /\ d \notin D /\ \A e \in D \cup {d} : L[e] \in Seq(Promises)
    BY <1>4, <1>6, <2>1
  <2>3. Total(L, D \cup {d}, q) = Total(L, D, q) + Occ(L[d], q)
    BY <2>2, GridRow
  <2> QED
    BY <2>1, <2>3
<1>8. Total(L, 1 .. n, q) = Total(Loads(s), 1 .. n, q)
  <2>1. ASSUME NEW i \in 1 .. n PROVE L[i] = Loads(s)[i]
    <3>1. i \in 1 .. n + 1
      OBVIOUS
    <3> QED
      BY <1>2, <1>3, <1>5, <3>1 DEF Loads
  <2> QED
    BY <2>1, GridSame
<1>9. L[n + 1] = Load(f)
  BY <1>3, <1>5 DEF Loads
<1> QED
  BY <1>1, <1>2, <1>3, <1>4, <1>5, <1>7, <1>8, <1>9 DEF OnStack

LEMMA StackPop == ASSUME NEW s \in Seq(Frames), s # <<>>, NEW q
  PROVE /\ Front(s) \in Seq(Frames) /\ s[Len(s)] \in Frames
        /\ Len(Front(s)) = Len(s) - 1 /\ \A i \in 1 .. Len(s) - 1 : Front(s)[i] = s[i]
        /\ OnStack(s, q) = OnStack(Front(s), q) + Occ(Load(s[Len(s)]), q)
<1>1. Len(s) \in Nat \ {0} /\ s[Len(s)] \in Frames
  OBVIOUS
<1>2. PICK n : n = Len(s) - 1
  OBVIOUS
<1>3. n \in Nat /\ 1 \in Int /\ n \in Int /\ \A i \in 1 .. n : s[i] \in Frames
  BY <1>1, <1>2
<1>4. /\ SubSeq(s, 1, n) \in Seq(Frames)
      /\ Len(SubSeq(s, 1, n)) = IF 1 <= n THEN n - 1 + 1 ELSE 0
      /\ \A i \in 1 .. n - 1 + 1 : SubSeq(s, 1, n)[i] = s[1 + i - 1]
  BY <1>3, SubSeqProperties
<1>5. Front(s) = SubSeq(s, 1, n)
  BY <1>2 DEF Front
<1>6. Front(s) \in Seq(Frames) /\ Len(Front(s)) = n /\ \A i \in 1 .. n : Front(s)[i] = s[i]
  BY <1>3, <1>4, <1>5
<1>7. PICK b \in Seq(Frames), f \in Frames : b = Front(s) /\ f = s[Len(s)]
  BY <1>1, <1>6
<1>8. s = Append(b, f)
  BY <1>1, <1>2, <1>6, <1>7
<1>9. OnStack(Append(b, f), q) = OnStack(b, q) + Occ(Load(f), q)
  BY StackPush
<1> QED
  BY <1>1, <1>2, <1>6, <1>7, <1>8, <1>9

LEMMA ReactionsType == ASSUME IsFiniteSet(Promises), NEW x \in [Promises -> Seq(Reaction)], NEW q
  PROVE InReactions(x, q) \in Nat /\ \A p \in Promises : KidLists(x)[p] \in Seq(Promises)
<1>1. \A p \in Promises : KidLists(x)[p] \in Seq(Promises)
  BY KidsType DEF KidLists
<1> QED
  BY <1>1, GridFinite DEF InReactions

LEMMA ReactionsChange ==
  ASSUME IsFiniteSet(Promises), NEW x \in [Promises -> Seq(Reaction)], NEW p \in Promises,
         NEW z \in [Promises -> Seq(Reaction)], Differ(x, z, Promises, p), NEW q
  PROVE InReactions(z, q) + Occ(KidsOf(x[p]), q) = InReactions(x, q) + Occ(KidsOf(z[p]), q)
<1>1. PICK L, M : L = KidLists(x) /\ M = KidLists(z)
  OBVIOUS
<1>2. ListsOn(L, Promises) /\ ListsOn(M, Promises)
  BY <1>1, ReactionsType DEF ListsOn
<1>3. Differ(L, M, Promises, p)
  BY <1>1 DEF KidLists, Differ
<1>4. L[p] = KidsOf(x[p]) /\ M[p] = KidsOf(z[p])
  BY <1>1 DEF KidLists
<1>5. Total(M, Promises, q) + Occ(L[p], q) = Total(L, Promises, q) + Occ(M[p], q)
  BY <1>2, <1>3, GridChange
<1> QED
  BY <1>1, <1>4, <1>5 DEF InReactions

\* What settling moves from the reactions to the stack
Moved(s, x, q) == OnStack(s, q) + InReactions(x, q)

LEMMA SettleMoves ==
  ASSUME IsFiniteSet(Promises), Typed, NEW p \in Promises, NEW st, NEW b \in Seq(Frames),
         Settle(p, st, b), NEW q
  PROVE /\ stack' \in Seq(Frames) /\ reactions' \in [Promises -> Seq(Reaction)]
        /\ Moved(stack', reactions', q) = Moved(b, reactions, q)
<1>1. CASE ~Pending(p)
  BY <1>1 DEF Settle, Typed
<1>2. CASE Pending(p)
  <2>1. PICK x \in [Promises -> Seq(Reaction)] : x = reactions
    BY DEF Typed
  <2>2. PICK f \in Frames : f = Notify(p)
    BY FrameMade
  <2>3. PICK g \in Frames : g = React(p, x[p])
    BY <2>1, FrameMade
  <2>4. PICK z : z = [x EXCEPT ![p] = <<>>]
    OBVIOUS
  <2>5. stack' = b \o <<f, g>> /\ reactions' = z
    BY <1>2, <2>1, <2>2, <2>3, <2>4 DEF Settle
  <2>6. /\ z \in [Promises -> Seq(Reaction)] /\ z[p] = <<>>
        /\ InReactions(z, q) + Occ(KidsOf(x[p]), q) = InReactions(x, q) + Occ(KidsOf(z[p]), q)
    <3>1. /\ z \in [Promises -> Seq(Reaction)] /\ z[p] = <<>>
          /\ Differ(x, z, Promises, p)
      BY <2>4 DEF Differ
    <3>2. PICK y \in [Promises -> Seq(Reaction)] : y = z
      BY <3>1
    <3>3. Differ(x, y, Promises, p)
      BY <3>1, <3>2
    <3>4. InReactions(y, q) + Occ(KidsOf(x[p]), q) = InReactions(x, q) + Occ(KidsOf(y[p]), q)
      BY ONLY <3>3, ReactionsChange, IsFiniteSet(Promises), p \in Promises,
              x \in [Promises -> Seq(Reaction)], y \in [Promises -> Seq(Reaction)], Zenon
    <3> QED
      BY <3>1, <3>2, <3>4
  <2>7. PICK c \in Seq(Frames) : c = Append(b, f)
    BY StackPush
  <2>8. OnStack(c, q) = OnStack(b, q) + Occ(Load(f), q)
    BY <2>7, StackPush
  <2>9. /\ Append(c, g) \in Seq(Frames)
        /\ OnStack(Append(c, g), q) = OnStack(c, q) + Occ(Load(g), q)
    BY StackPush
  <2>10. stack' = Append(c, g)
    BY <2>5, <2>7
  <2>11. Load(f) = <<>> /\ Load(g) = KidsOf(x[p])
    BY <2>2, <2>3 DEF Load, Notify, React
  <2>12. Occ(KidsOf(z[p]), q) = 0 /\ Occ(Load(f), q) = 0
    BY <2>6, <2>11, KidsEmpty, OccEmpty
  <2>13. /\ InReactions(x, q) \in Nat /\ InReactions(z, q) \in Nat /\ OnStack(b, q) \in Nat
         /\ Occ(KidsOf(x[p]), q) \in Nat
    BY <2>6, ReactionsType, StackCount, KidsType, OccFinite
  <2>14. OnStack(Append(c, g), q) + InReactions(z, q) = OnStack(b, q) + InReactions(x, q)
    BY ONLY <2>6, <2>8, <2>9, <2>11, <2>12, <2>13
  <2> QED
    BY <2>1, <2>5, <2>6, <2>9, <2>10, <2>14 DEF Moved
<1> QED
  BY <1>1, <1>2

-----------------------------------------------------------------------------
(* References counted: the heap, an event, active functions and reactions, *)
(* coroutines and combinations have at most as many as the promise counts. *)

Whole == IsFiniteSet(Promises) /\ IsFiniteSet(Routines)

Waiters(w, q) == {k \in Routines : w[k] = q}
Feeders(x, q) == {c \in Promises : x[c].live /\ q \in Range(x[c].ins)}

Needs(h, o, x, s, w, b, q) ==
  Bit(q \in h) + Bit(q \in o) + Moved(s, x, q)
    + Cardinality(Waiters(w, q)) + Cardinality(Feeders(b, q))

Needed(q) == Needs(held, owed, reactions, stack, waiting, combi, q)

\* No promise is referred to more often than it counts, the memory of one that
\* is freed or not yet made is not referred to at all.
Balanced ==
  /\ refs \in [Promises -> Nat]
  /\ \A q \in Promises : /\ Needed(q) <= refs[q]
                         /\ q \in freed \/ state[q] = "new" => refs[q] = 0
                         /\ state[q] = "new" => q \notin freed

\* Steps that add no reference which the promise does not count
Pays ==
  /\ refs' \in [Promises -> Int]
  /\ \A q \in Promises : Needed(q)' + refs[q] <= Needed(q) + refs'[q]

\* Steps that give no memory back and count for nobody who has none
Sober ==
  /\ freed' = freed
  /\ \A q \in Promises : /\ q \in freed \/ state'[q] = "new" => refs'[q] = refs[q]
                         /\ state'[q] = "new" => state[q] = "new"

LEMMA BitNat == ASSUME NEW b PROVE Bit(b) \in {0, 1} /\ (b => Bit(b) = 1) /\ (~b => Bit(b) = 0)
  BY DEF Bit

LEMMA PartsNat ==
  ASSUME Whole, NEW x \in [Promises -> Seq(Reaction)], NEW s \in Seq(Frames), NEW w, NEW b, NEW q
  PROVE /\ OnStack(s, q) \in Nat /\ InReactions(x, q) \in Nat /\ Moved(s, x, q) \in Nat
        /\ IsFiniteSet(Waiters(w, q)) /\ Cardinality(Waiters(w, q)) \in Nat
        /\ IsFiniteSet(Feeders(b, q)) /\ Cardinality(Feeders(b, q)) \in Nat
<1>1. OnStack(s, q) \in Nat
  BY StackCount
<1>2. InReactions(x, q) \in Nat
  BY ReactionsType DEF Whole
<1>3. Waiters(w, q) \in SUBSET Routines /\ Feeders(b, q) \in SUBSET Promises
  BY DEF Waiters, Feeders
<1>4. IsFiniteSet(Waiters(w, q)) /\ IsFiniteSet(Feeders(b, q))
  BY <1>3, FS_Subset DEF Whole
<1> QED
  BY <1>1, <1>2, <1>4, FS_CardinalityType DEF Moved

LEMMA NeedsNat ==
  ASSUME Whole, NEW x \in [Promises -> Seq(Reaction)], NEW s \in Seq(Frames), NEW h, NEW o,
         NEW w, NEW b, NEW q
  PROVE Needs(h, o, x, s, w, b, q) \in Nat
<1>1. /\ Moved(s, x, q) \in Nat /\ Cardinality(Waiters(w, q)) \in Nat
      /\ Cardinality(Feeders(b, q)) \in Nat
  BY PartsNat
<1>2. Bit(q \in h) \in Nat /\ Bit(q \in o) \in Nat
  BY DEF Bit
<1> QED
  BY <1>1, <1>2 DEF Needs

LEMMA NeededNat == ASSUME Whole, Base, NEW q PROVE Needed(q) \in Nat
<1>1. PICK x : x = reactions
  OBVIOUS
<1>2. PICK s : s = stack
  OBVIOUS
<1>3. x \in [Promises -> Seq(Reaction)] /\ s \in Seq(Frames)
  BY <1>1, <1>2 DEF Base, Typed, Good
<1>4. \A h, o, w, b : Needs(h, o, x, s, w, b, q) \in Nat
  BY <1>3, NeedsNat
<1> QED
  BY <1>1, <1>2, <1>4 DEF Needed

LEMMA NeededNext == ASSUME Whole, Base', NEW q PROVE Needed(q)' \in Nat
<1>1. PICK x : x = reactions'
  OBVIOUS
<1>2. PICK s : s = stack'
  OBVIOUS
<1>3. x \in [Promises -> Seq(Reaction)] /\ s \in Seq(Frames)
  BY <1>1, <1>2 DEF Base, Typed, Good
<1>4. \A h, o, w, b : Needs(h, o, x, s, w, b, q) \in Nat
  BY <1>3, NeedsNat
<1> QED
  BY <1>1, <1>2, <1>4 DEF Needed

LEMMA Paid == ASSUME Whole, Base, Base', Balanced, Pays, Sober PROVE Balanced'
<1>1. ASSUME NEW q \in Promises
      PROVE /\ refs'[q] \in Nat /\ Needed(q)' <= refs'[q]
            /\ q \in freed' \/ state'[q] = "new" => refs'[q] = 0
            /\ state'[q] = "new" => q \notin freed'
  <2>1. Needed(q) \in Nat /\ Needed(q)' \in Nat
    BY NeededNat, NeededNext
  <2>2. Needed(q) <= refs[q] /\ refs[q] \in Nat
    BY DEF Balanced
  <2>3. Needed(q)' + refs[q] <= Needed(q) + refs'[q] /\ refs'[q] \in Int
    BY DEF Pays
  <2>4. refs'[q] \in Nat /\ Needed(q)' <= refs'[q]
    BY ONLY <2>1, <2>2, <2>3
  <2> QED
    BY <2>4 DEF Balanced, Sober
<1>2. refs' \in [Promises -> Nat]
  BY <1>1 DEF Pays
<1> QED
  BY <1>1, <1>2 DEF Balanced

\* Nothing but the heap, events, functions and reactions changes.
LEMMA Shift ==
  ASSUME Whole, Base, Base', Balanced, waiting' = waiting,
         \A c \in Promises : combi'[c].live = combi[c].live /\ combi'[c].ins = combi[c].ins,
         refs' \in [Promises -> Int],
         \A q \in Promises :
           Bit(q \in held') + Bit(q \in owed') + Moved(stack', reactions', q) + refs[q]
             <= Bit(q \in held) + Bit(q \in owed) + Moved(stack, reactions, q) + refs'[q]
  PROVE Pays
<1>1. ASSUME NEW q \in Promises PROVE Needed(q)' + refs[q] <= Needed(q) + refs'[q]
  <2>1. PICK w : w = Cardinality(Waiters(waiting, q))
    OBVIOUS
  <2>2. PICK f : f = Cardinality(Feeders(combi, q))
    OBVIOUS
  <2>3. Waiters(waiting', q) = Waiters(waiting, q) /\ Feeders(combi', q) = Feeders(combi, q)
    BY DEF Waiters, Feeders
  <2>4. PICK n : n = Bit(q \in held) + Bit(q \in owed) + Moved(stack, reactions, q)
    OBVIOUS
  <2>5. PICK m : m = Bit(q \in held') + Bit(q \in owed') + Moved(stack', reactions', q)
    OBVIOUS
  <2>6. Needed(q) = n + w + f /\ Needed(q)' = m + w + f
    BY <2>1, <2>2, <2>3, <2>4, <2>5 DEF Needed, Needs
  <2>7. w \in Nat /\ f \in Nat /\ Moved(stack, reactions, q) \in Nat
    <3>1. PICK x : x = reactions
      OBVIOUS
    <3>2. PICK s : s = stack
      OBVIOUS
    <3>3. PICK v, b : v = waiting /\ b = combi
      OBVIOUS
    <3>4. x \in [Promises -> Seq(Reaction)] /\ s \in Seq(Frames)
      BY <3>1, <3>2 DEF Base, Typed, Good
    <3>5. /\ Moved(s, x, q) \in Nat /\ Cardinality(Waiters(v, q)) \in Nat
          /\ Cardinality(Feeders(b, q)) \in Nat
      BY <3>4, PartsNat
    <3> QED
      BY <2>1, <2>2, <3>1, <3>2, <3>3, <3>5
  <2>8. Moved(stack', reactions', q) \in Nat
    <3>1. PICK x : x = reactions'
      OBVIOUS
    <3>2. PICK s : s = stack'
      OBVIOUS
    <3>3. x \in [Promises -> Seq(Reaction)] /\ s \in Seq(Frames)
      BY <3>1, <3>2 DEF Base, Typed, Good
    <3>4. Moved(s, x, q) \in Nat
      BY <3>3, PartsNat
    <3> QED
      BY <3>1, <3>2, <3>4
  <2>9. n \in Nat /\ m \in Nat
    BY <2>4, <2>5, <2>7, <2>8 DEF Bit
  <2>10. refs[q] \in Nat /\ refs'[q] \in Int /\ m + refs[q] <= n + refs'[q]
    BY <2>4, <2>5 DEF Balanced
  <2> QED
    BY ONLY <2>6, <2>7, <2>9, <2>10
<1> QED
  BY <1>1 DEF Pays

\* Nothing but functions and reactions changes.
LEMMA Rearranged ==
  ASSUME Whole, Base, Base', Balanced,
         UNCHANGED <<refs, freed, held, owed, waiting>>,
         \A c \in Promises : combi'[c].live = combi[c].live /\ combi'[c].ins = combi[c].ins,
         \A q \in Promises : state'[q] = "new" => state[q] = "new",
         \A q \in Promises : Moved(stack', reactions', q) <= Moved(stack, reactions, q)
  PROVE Balanced'
<1>1. refs' \in [Promises -> Int]
  BY DEF Balanced
<1>2. ASSUME NEW q \in Promises
      PROVE Bit(q \in held') + Bit(q \in owed') + Moved(stack', reactions', q) + refs[q]
             <= Bit(q \in held) + Bit(q \in owed) + Moved(stack, reactions, q) + refs'[q]
  <2>1. PICK m, n : m = Moved(stack', reactions', q) /\ n = Moved(stack, reactions, q)
    OBVIOUS
  <2>2. m \in Nat /\ n \in Nat
    <3>1. PICK x, s, y, t : x = reactions /\ s = stack /\ y = reactions' /\ t = stack'
      OBVIOUS
    <3>2. /\ x \in [Promises -> Seq(Reaction)] /\ s \in Seq(Frames)
          /\ y \in [Promises -> Seq(Reaction)] /\ t \in Seq(Frames)
      BY <3>1 DEF Base, Typed, Good
    <3>3. Moved(s, x, q) \in Nat /\ Moved(t, y, q) \in Nat
      BY <3>2, PartsNat
    <3> QED
      BY <2>1, <3>1, <3>3
  <2>3. Bit(q \in held) \in Nat /\ Bit(q \in owed) \in Nat /\ refs[q] \in Nat
    BY DEF Bit, Balanced
  <2>4. m <= n /\ held' = held /\ owed' = owed /\ refs' = refs
    BY <2>1
  <2> QED
    BY <2>1, <2>2, <2>3, <2>4
<1>3. Pays
  BY <1>1, <1>2, Shift
<1>4. Sober
  BY DEF Sober
<1> QED
  BY <1>3, <1>4, Paid

\* A promise that somebody refers to has its memory.
LEMMA Counted ==
  ASSUME Whole, Base, Balanced, NEW q \in Promises,
         \/ q \in held \/ q \in owed
         \/ Moved(stack, reactions, q) > 0
         \/ Waiters(waiting, q) # {} \/ Feeders(combi, q) # {}
  PROVE q \notin freed /\ state[q] # "new" /\ refs[q] > 0
<1>1. PICK x, s, w, b : x = reactions /\ s = stack /\ w = waiting /\ b = combi
  OBVIOUS
<1>2. x \in [Promises -> Seq(Reaction)] /\ s \in Seq(Frames)
  BY <1>1 DEF Base, Typed, Good
<1>3. /\ Moved(s, x, q) \in Nat
      /\ IsFiniteSet(Waiters(w, q)) /\ Cardinality(Waiters(w, q)) \in Nat
      /\ IsFiniteSet(Feeders(b, q)) /\ Cardinality(Feeders(b, q)) \in Nat
  BY <1>2, PartsNat
<1>4. /\ Cardinality(Waiters(w, q)) = 0 <=> Waiters(w, q) = {}
      /\ Cardinality(Feeders(b, q)) = 0 <=> Feeders(b, q) = {}
  BY <1>3, FS_EmptySet
<1>5. Needed(q) = Bit(q \in held) + Bit(q \in owed) + Moved(s, x, q)
                  + Cardinality(Waiters(w, q)) + Cardinality(Feeders(b, q))
  BY <1>1 DEF Needed, Needs
<1>6. Needed(q) > 0
  <2>1. PICK c, d, e : c = Cardinality(Waiters(w, q)) /\ d = Cardinality(Feeders(b, q)) /\ e = Moved(s, x, q)
    OBVIOUS
  <2>2. q \in held \/ q \in owed \/ e > 0 \/ c # 0 \/ d # 0
    BY <1>1, <1>4, <2>1
  <2>3. c \in Nat /\ d \in Nat /\ e \in Nat
    BY <1>3, <2>1
  <2>4. PICK h, o : h = Bit(q \in held) /\ o = Bit(q \in owed)
    OBVIOUS
  <2>5. h \in Nat /\ o \in Nat /\ (q \in held => h = 1) /\ (q \in owed => o = 1)
    BY <2>4 DEF Bit
  <2>6. Needed(q) = h + o + e + c + d
    BY <1>5, <2>1, <2>4
  <2> QED
    BY ONLY <2>2, <2>3, <2>5, <2>6
<1>7. Needed(q) <= refs[q] /\ refs[q] \in Nat /\ Needed(q) \in Nat
  BY NeededNat DEF Balanced
<1>8. refs[q] > 0
  BY ONLY <1>6, <1>7
<1> QED
  BY <1>8 DEF Balanced

-----------------------------------------------------------------------------
(* The count stays right: what the steps do to functions and reactions.    *)

\* What is not made yet was not made before.
Aging == \A q \in Promises : state'[q] = "new" => state[q] = "new"

LEMMA Ages == ASSUME Base, Next PROVE Aging
<1>1. "pending" # "new" /\ \A st \in Ends : st # "new"
  BY DEF Ends
<1>2. CASE Plain
  <2>1. \A q \in Promises : state[q] \in States
    BY DEF Base, Typed
  <2> QED
    BY <1>1, <1>2, <2>1 DEF Plain, States, Ends, Aging
<1>3. ASSUME NEW mode \in Modes, NEW ins \in Lists, NEW c \in Promises, Combine(mode, ins, c)
      PROVE Aging
  <2>1. PICK now \in Ends \cup {None} :
          /\ state'[c] = (IF now = None THEN "pending" ELSE now)
          /\ \A p \in Promises : p # c => state'[p] = state[p]
    BY <1>3, CombineEffect
  <2> QED
    BY <1>1, <2>1 DEF Aging
<1>4. ASSUME NEW k \in Routines, NEW p \in Promises, Async(k, p) PROVE Aging
  BY <1>1, <1>4, AsyncEffect DEF Aging
<1>5. ASSUME NEW p \in Promises, AwaitKeyword(p) \/ AwaitFunction(p) PROVE Aging
  BY <1>5 DEF Aging, AwaitKeyword, AwaitFunction
<1>6. CASE NotifyCombination
  <2>1. PICK c \in Promises : /\ \A b \in Promises : b # c => state'[b] = state[b]
                              /\ state'[c] = state[c] \/ state'[c] \in Ends
    BY <1>6, NotifyEffect
  <2> QED
    BY <1>1, <2>1 DEF Aging
<1>7. CASE CombinationEnds \/ NotifyRoutine \/ NotifyNobody \/ RoutineFreed
  BY <1>7 DEF CombinationEnds, NotifyRoutine, NotifyNobody, RoutineFreed, heapVars, Aging
<1> QED
  BY <1>2, <1>3, <1>4, <1>5, <1>6, <1>7, Steps

LEMMA TopCount == ASSUME Base, stack # <<>>, NEW q
  PROVE /\ stack \in Seq(Frames) /\ Below \in Seq(Frames) /\ Top \in Frames
        /\ Occ(Load(Top), q) \in Nat /\ OnStack(Below, q) \in Nat
        /\ OnStack(stack, q) = OnStack(Below, q) + Occ(Load(Top), q)
<1>1. PICK s : s = stack
  OBVIOUS
<1>2. s \in Seq(Frames) /\ s # <<>>
  BY <1>1 DEF Base, Good
<1>3. /\ Front(s) \in Seq(Frames) /\ s[Len(s)] \in Frames
      /\ OnStack(s, q) = OnStack(Front(s), q) + Occ(Load(s[Len(s)]), q)
  BY <1>2, StackPop
<1>4. PICK b \in Seq(Frames), f \in Frames : b = Front(s) /\ f = s[Len(s)]
  BY <1>3
<1>5. OnStack(b, q) \in Nat /\ Load(f) \in Seq(Promises)
  BY StackCount, LoadType
<1>6. Occ(Load(f), q) \in Nat
  BY <1>5, OccFinite
<1> QED
  BY <1>1, <1>2, <1>3, <1>4, <1>5, <1>6 DEF Top, Below

LEMMA ReactionsNat == ASSUME Whole, Base, NEW q PROVE InReactions(reactions, q) \in Nat
<1>1. PICK x : x = reactions
  OBVIOUS
<1>2. x \in [Promises -> Seq(Reaction)]
  BY <1>1 DEF Base, Typed
<1>3. InReactions(x, q) \in Nat
  BY <1>2, ReactionsType DEF Whole
<1> QED
  BY <1>1, <1>3

\* A frame that holds nothing ends.
LEMMA BalancedPops ==
  ASSUME Whole, Base, Base', Aging, Balanced, ReactionsDone \/ Return \/ NotifyNobody
  PROVE Balanced'
<1>1. /\ stack # <<>> /\ stack' = Below
      /\ UNCHANGED <<heapVars, held, owed, routineVars, combi>>
  BY DEF ReactionsDone, Return, NotifyNobody, At
<1>2. ASSUME NEW q \in Promises
      PROVE Moved(stack', reactions', q) <= Moved(stack, reactions, q)
  <2>1. PICK m, l : m = OnStack(Below, q) /\ l = Occ(Load(Top), q)
    OBVIOUS
  <2>2. m \in Nat /\ l \in Nat /\ OnStack(stack, q) = m + l
    BY <1>1, <2>1, TopCount
  <2>3. PICK r : r = InReactions(reactions, q)
    OBVIOUS
  <2>4. r \in Nat
    BY <2>3, ReactionsNat
  <2>5. OnStack(stack', q) = m /\ reactions' = reactions
    BY <1>1, <2>1 DEF heapVars
  <2> QED
    BY <2>2, <2>3, <2>4, <2>5 DEF Moved
<1> QED
  BY <1>1, <1>2, Rearranged DEF heapVars, routineVars, Aging

\* A promise is settled while a stack of no more references is left.
LEMMA BalancedSettle ==
  ASSUME Whole, Base, Base', Aging, Balanced, NEW p \in Promises, NEW st, NEW b \in Seq(Frames),
         \A q \in Promises : OnStack(b, q) <= OnStack(stack, q),
         Settle(p, st, b),
         UNCHANGED <<refs, freed, held, owed, waiting>>,
         \A c \in Promises : combi'[c].live = combi[c].live /\ combi'[c].ins = combi[c].ins
  PROVE Balanced'
<1>1. ASSUME NEW q \in Promises
      PROVE Moved(stack', reactions', q) <= Moved(stack, reactions, q)
  <2>1. Moved(stack', reactions', q) = Moved(b, reactions, q)
    BY SettleMoves DEF Whole, Base
  <2>2. PICK r : r = InReactions(reactions, q)
    OBVIOUS
  <2>3. PICK m, n : m = OnStack(b, q) /\ n = OnStack(stack, q)
    OBVIOUS
  <2>4. r \in Nat /\ m \in Nat /\ n \in Nat /\ m <= n
    <3>1. PICK s : s = stack
      OBVIOUS
    <3>2. s \in Seq(Frames)
      BY <3>1 DEF Base, Good
    <3>3. OnStack(s, q) \in Nat
      BY <3>2, StackCount
    <3> QED
      BY <2>2, <2>3, <3>1, <3>3, ReactionsNat, StackCount
  <2> QED
    BY <2>1, <2>2, <2>3, <2>4 DEF Moved
<1> QED
  BY <1>1, Rearranged DEF Aging

\* Two frames instead of one
LEMMA TwoFrames ==
  ASSUME NEW s \in Seq(Frames), NEW f \in Frames, NEW g \in Frames, NEW q
  PROVE /\ s \o <<f, g>> \in Seq(Frames)
        /\ OnStack(s \o <<f, g>>, q) = OnStack(s, q) + Occ(Load(f), q) + Occ(Load(g), q)
<1>1. PICK c : c = Append(s, f)
  OBVIOUS
<1>2. c \in Seq(Frames) /\ OnStack(c, q) = OnStack(s, q) + Occ(Load(f), q)
  BY <1>1, StackPush
<1>3. /\ Append(c, g) \in Seq(Frames)
      /\ OnStack(Append(c, g), q) = OnStack(c, q) + Occ(Load(g), q)
  BY <1>2, StackPush
<1>4. s \o <<f, g>> = Append(c, g)
  BY <1>1
<1> QED
  BY <1>2, <1>3, <1>4

LEMMA LoadsAre ==
  /\ \A p : Load(Notify(p)) = <<>> /\ Load(Combined(p)) = <<>>
  /\ \A p, r : Load(Handle(p, r)) = <<>> /\ Load(Method(p, r)) = <<>>
  /\ \A k, b : Load(Run(k, b)) = <<>> /\ Load(Ended(k, b)) = <<>>
  /\ \A x : Load(Release(x)) = x
  /\ \A p, x : Load(React(p, x)) = KidsOf(x)
  BY DEF Load, Notify, Combined, Handle, Method, Run, Ended, Release, React

LEMMA BalancedHandler ==
  ASSUME Whole, Base, Base', Aging, Balanced, NEW ok \in BOOLEAN, HandlerEnds(ok) PROVE Balanced'
<1>1. stack # <<>> /\ Top.op = "handle"
  BY DEF HandlerEnds, At
<1>2. PICK f : f = Top
  OBVIOUS
<1>3. f \in Frames /\ f.r \in Reaction
  BY <1>1, <1>2, TopCount, FrameKinds
<1>4. PICK p : p = Top.r.child
  OBVIOUS
<1>5. p \in Promises
  BY <1>2, <1>3, <1>4 DEF Reaction
<1>6. PICK b : b = Below
  OBVIOUS
<1>7. b \in Seq(Frames) /\ \A q \in Promises : OnStack(b, q) <= OnStack(stack, q)
  <2>1. ASSUME NEW q \in Promises PROVE OnStack(b, q) <= OnStack(stack, q)
    <3>1. PICK m, l : m = OnStack(b, q) /\ l = Occ(Load(Top), q)
      OBVIOUS
    <3>2. m \in Nat /\ l \in Nat /\ OnStack(stack, q) = m + l
      BY <1>1, <1>6, <3>1, TopCount
    <3> QED
      BY <3>1, <3>2
  <2> QED
    BY <1>1, <1>6, <2>1, TopCount
<1>8. \E st : Settle(p, st, b)
  BY <1>4, <1>6 DEF HandlerEnds
<1>9. UNCHANGED <<refs, freed, held, owed, waiting, combi>>
  BY DEF HandlerEnds, routineVars
<1> QED
  BY <1>5, <1>7, <1>8, <1>9, BalancedSettle

LEMMA BalancedReaction ==
  ASSUME Whole, Base, Base', Aging, Balanced, RunReaction PROVE Balanced'
<1>1. stack # <<>> /\ Top.op = "react" /\ Top.todo # <<>>
  BY DEF RunReaction, At
<1>2. PICK p, r, todo : p = Top.p /\ r = Head(Top.todo) /\ todo = Top.todo
  OBVIOUS
<1>3. p \in Promises /\ todo \in Seq(Reaction) /\ Load(Top) = KidsOf(todo)
  <2>1. PICK h \in Frames : h = Top
    BY <1>1, TopCount
  <2>2. h.p \in Promises /\ h.todo \in Seq(Reaction)
    BY <1>1, <2>1, FrameKinds
  <2> QED
    BY <1>1, <1>2, <2>1, <2>2 DEF Load
<1>4. r \in Reaction /\ Tail(todo) \in Seq(Reaction) /\ r.child \in Promises
  <2>1. todo # <<>> /\ r = Head(todo)
    BY <1>1, <1>2
  <2>2. r \in Reaction /\ Tail(todo) \in Seq(Reaction)
    BY <1>3, <2>1
  <2> QED
    BY <2>2 DEF Reaction
<1>5. PICK f \in Frames : f = React(p, Tail(todo))
  BY <1>3, <1>4, FrameMade
<1>6. PICK g \in Frames : g = Release(<<r.child>>)
  <2>1. <<r.child>> \in Seq(Promises)
    BY <1>4
  <2> QED
    BY <2>1, FrameMade
<1>7. PICK b : b = Below
  OBVIOUS
<1>8. PICK rest : rest = b \o <<f, g>>
  OBVIOUS
<1>9. b \in Seq(Frames)
  BY <1>1, <1>7, TopCount
<1>10. rest \in Seq(Frames) /\ \A q \in Promises : OnStack(rest, q) <= OnStack(stack, q)
  <2>1. ASSUME NEW q \in Promises PROVE OnStack(rest, q) <= OnStack(stack, q)
    <3>1. PICK m, l, k, t : /\ m = OnStack(b, q) /\ l = Occ(KidsOf(todo), q)
                            /\ k = Bit(r.child = q) /\ t = Occ(KidsOf(Tail(todo)), q)
      OBVIOUS
    <3>2. m \in Nat /\ l \in Nat /\ OnStack(stack, q) = m + l
      BY <1>1, <1>3, <1>7, <3>1, TopCount, LoadsAre
    <3>3. l = k + t
      BY <1>1, <1>2, <1>3, <3>1, KidsHead
    <3>4. OnStack(rest, q) = m + t + k
      BY <1>5, <1>6, <1>8, <1>9, <3>1, TwoFrames, LoadsAre, OccOne
    <3>5. t \in Nat /\ k \in Nat
      BY <1>4, <3>1, KidsType, OccFinite DEF Bit
    <3> QED
      BY <3>2, <3>3, <3>4, <3>5
  <2> QED
    BY <1>8, <1>9, <2>1, TwoFrames
<1>11. UNCHANGED <<refs, freed, held, owed, waiting, combi>>
  BY DEF RunReaction, routineVars
<1>12. ASSUME NEW t \in Seq(Frames), stack' = t, reactions' = reactions,
              \A q \in Promises : OnStack(t, q) <= OnStack(stack, q)
       PROVE Balanced'
  <2>1. ASSUME NEW q \in Promises
        PROVE Moved(stack', reactions', q) <= Moved(stack, reactions, q)
    <3>1. PICK s, n : s = stack /\ n = InReactions(reactions, q)
      OBVIOUS
    <3>2. s \in Seq(Frames) /\ n \in Nat
      BY <3>1, ReactionsNat DEF Base, Good
    <3>3. OnStack(s, q) \in Nat /\ OnStack(t, q) \in Nat
      BY <3>2, StackCount
    <3>4. OnStack(t, q) + n <= OnStack(s, q) + n
      BY <1>12, <3>1, <3>2, <3>3
    <3> QED
      BY <1>12, <3>1, <3>4 DEF Moved
  <2> QED
    BY <1>11, <2>1, Rearranged DEF Aging
<1>13. \/ stack' = rest /\ reactions' = reactions
       \/ stack' = Append(rest, Handle(p, r)) /\ reactions' = reactions
       \/ Settle(r.child, state[p], rest)
  BY <1>2, <1>5, <1>6, <1>7, <1>8 DEF RunReaction
<1>14. CASE stack' = rest /\ reactions' = reactions
  BY <1>10, <1>12, <1>14
<1>15. CASE stack' = Append(rest, Handle(p, r)) /\ reactions' = reactions
  <2>1. PICK h \in Frames : h = Handle(p, r)
    BY <1>3, <1>4, FrameMade
  <2>2. Append(rest, h) \in Seq(Frames) /\ \A q : OnStack(Append(rest, h), q) = OnStack(rest, q) + Occ(Load(h), q)
    BY <1>10, StackPush
  <2>3. \A q : Occ(Load(h), q) = 0
    BY <2>1, LoadsAre, OccEmpty
  <2>4. \A q : OnStack(rest, q) \in Nat
    BY <1>10, StackCount
  <2>5. \A q \in Promises : OnStack(Append(rest, h), q) <= OnStack(stack, q)
    BY <1>10, <2>2, <2>3, <2>4
  <2> QED
    BY <1>12, <1>15, <2>1, <2>2, <2>5
<1>16. CASE Settle(r.child, state[p], rest)
  BY <1>4, <1>10, <1>11, <1>16, BalancedSettle
<1> QED
  BY <1>13, <1>14, <1>15, <1>16

-----------------------------------------------------------------------------
(* The count stays right: what the steps do to references.                 *)

LEMMA TermsOf == ASSUME Whole, Base, NEW q
  PROVE /\ Moved(stack, reactions, q) \in Nat
        /\ Cardinality(Waiters(waiting, q)) \in Nat
        /\ Cardinality(Feeders(combi, q)) \in Nat
<1>1. PICK x, s, w, b : x = reactions /\ s = stack /\ w = waiting /\ b = combi
  OBVIOUS
<1>2. x \in [Promises -> Seq(Reaction)] /\ s \in Seq(Frames)
  BY <1>1 DEF Base, Typed, Good
<1>3. /\ Moved(s, x, q) \in Nat /\ Cardinality(Waiters(w, q)) \in Nat
      /\ Cardinality(Feeders(b, q)) \in Nat
  BY <1>2, PartsNat
<1> QED
  BY <1>1, <1>3

LEMMA TermsNext == ASSUME Whole, Base', NEW q
  PROVE /\ Moved(stack', reactions', q) \in Nat
        /\ Cardinality(Waiters(waiting', q)) \in Nat
        /\ Cardinality(Feeders(combi', q)) \in Nat
<1>1. PICK x, s, w, b : x = reactions' /\ s = stack' /\ w = waiting' /\ b = combi'
  OBVIOUS
<1>2. x \in [Promises -> Seq(Reaction)] /\ s \in Seq(Frames)
  BY <1>1 DEF Base, Typed, Good
<1>3. /\ Moved(s, x, q) \in Nat /\ Cardinality(Waiters(w, q)) \in Nat
      /\ Cardinality(Feeders(b, q)) \in Nat
  BY <1>2, PartsNat
<1> QED
  BY <1>1, <1>3

\* A coroutine waits for another promise, or none.
LEMMA Rewait ==
  ASSUME Whole, Base, Base', Balanced, NEW k \in Routines, NEW v,
         waiting' = [waiting EXCEPT ![k] = v], UNCHANGED <<held, owed, combi>>,
         refs' \in [Promises -> Int],
         \A q \in Promises :
           Moved(stack', reactions', q) + Bit(v = q) + refs[q]
             <= Moved(stack, reactions, q) + Bit(waiting[k] = q) + refs'[q]
  PROVE Pays
<1>1. ASSUME NEW q \in Promises PROVE Needed(q)' + refs[q] <= Needed(q) + refs'[q]
  <2>1. PICK w, a : w = Cardinality(Waiters(waiting, q)) /\ a = Cardinality(Waiters(waiting', q))
    OBVIOUS
  <2>2. a + Bit(waiting[k] = q) = w + Bit(v = q)
    <3>1. PICK A, B : A = Waiters(waiting, q) /\ B = Waiters(waiting', q)
      OBVIOUS
    <3>2. /\ A \in SUBSET Routines /\ B \in SUBSET Routines
          /\ \A j \in Routines \ {k} : j \in A <=> j \in B
          /\ k \in A <=> waiting[k] = q
          /\ k \in B <=> v = q
      BY <3>1 DEF Waiters, Base, Typed
    <3>3. Cardinality(B) + Bit(k \in A) = Cardinality(A) + Bit(k \in B)
      BY <3>2, SetChange DEF Whole
    <3> QED
      BY <2>1, <3>1, <3>2, <3>3 DEF Bit
  <2>3. PICK f, h, o : f = Cardinality(Feeders(combi, q)) /\ h = Bit(q \in held) /\ o = Bit(q \in owed)
    OBVIOUS
  <2>4. PICK m, n : m = Moved(stack', reactions', q) /\ n = Moved(stack, reactions, q)
    OBVIOUS
  <2>5. PICK x, y : x = Bit(waiting[k] = q) /\ y = Bit(v = q)
    OBVIOUS
  <2>6. Needed(q) = h + o + n + w + f /\ Needed(q)' = h + o + m + a + f
    BY <2>1, <2>3, <2>4 DEF Needed, Needs
  <2>7. /\ w \in Nat /\ a \in Nat /\ f \in Nat /\ m \in Nat /\ n \in Nat
        /\ h \in Nat /\ o \in Nat /\ x \in Nat /\ y \in Nat
    BY <2>1, <2>3, <2>4, <2>5, TermsOf, TermsNext DEF Bit
  <2>8. m + y + refs[q] <= n + x + refs'[q] /\ a + x = w + y
    BY <2>2, <2>4, <2>5
  <2>9. refs[q] \in Nat /\ refs'[q] \in Int
    BY DEF Balanced
  <2> QED
    BY ONLY <2>6, <2>7, <2>8, <2>9
<1> QED
  BY <1>1 DEF Pays

Feeds(x, q) == x.live /\ q \in Range(x.ins)

\* A combination starts or ends.
LEMMA Recombine ==
  ASSUME Whole, Base, Base', Balanced, NEW c \in Promises,
         \A b \in Promises : b # c => combi'[b] = combi[b],
         UNCHANGED <<owed, waiting>>,
         refs' \in [Promises -> Int],
         \A q \in Promises :
           Bit(q \in held') + Moved(stack', reactions', q) + Bit(Feeds(combi'[c], q)) + refs[q]
             <= Bit(q \in held) + Moved(stack, reactions, q) + Bit(Feeds(combi[c], q)) + refs'[q]
  PROVE Pays
<1>1. ASSUME NEW q \in Promises PROVE Needed(q)' + refs[q] <= Needed(q) + refs'[q]
  <2>1. PICK w, a : w = Cardinality(Feeders(combi, q)) /\ a = Cardinality(Feeders(combi', q))
    OBVIOUS
  <2>2. a + Bit(Feeds(combi[c], q)) = w + Bit(Feeds(combi'[c], q))
    <3>1. PICK A, B : A = Feeders(combi, q) /\ B = Feeders(combi', q)
      OBVIOUS
    <3>2. /\ A \in SUBSET Promises /\ B \in SUBSET Promises
          /\ \A j \in Promises \ {c} : j \in A <=> j \in B
          /\ c \in A <=> Feeds(combi[c], q)
          /\ c \in B <=> Feeds(combi'[c], q)
      BY <3>1 DEF Feeders, Feeds
    <3>3. Cardinality(B) + Bit(c \in A) = Cardinality(A) + Bit(c \in B)
      BY <3>2, SetChange DEF Whole
    <3> QED
      BY <2>1, <3>1, <3>2, <3>3 DEF Bit
  <2>3. PICK f, h, g, o : /\ f = Cardinality(Waiters(waiting, q)) /\ o = Bit(q \in owed)
                          /\ h = Bit(q \in held) /\ g = Bit(q \in held')
    OBVIOUS
  <2>4. PICK m, n : m = Moved(stack', reactions', q) /\ n = Moved(stack, reactions, q)
    OBVIOUS
  <2>5. PICK x, y : x = Bit(Feeds(combi[c], q)) /\ y = Bit(Feeds(combi'[c], q))
    OBVIOUS
  <2>6. Needed(q) = h + o + n + f + w /\ Needed(q)' = g + o + m + f + a
    BY <2>1, <2>3, <2>4 DEF Needed, Needs
  <2>7. /\ w \in Nat /\ a \in Nat /\ f \in Nat /\ m \in Nat /\ n \in Nat
        /\ h \in Nat /\ g \in Nat /\ o \in Nat /\ x \in Nat /\ y \in Nat
    BY <2>1, <2>3, <2>4, <2>5, TermsOf, TermsNext DEF Bit
  <2>8. g + m + y + refs[q] <= h + n + x + refs'[q] /\ a + x = w + y
    BY <2>2, <2>3, <2>4, <2>5
  <2>9. refs[q] \in Nat /\ refs'[q] \in Int
    BY DEF Balanced
  <2> QED
    BY ONLY <2>6, <2>7, <2>8, <2>9
<1> QED
  BY <1>1 DEF Pays

\* A promise is made with n references, which somebody has.
LEMMA Makes ==
  ASSUME Whole, Base, Base', Aging, Balanced, NEW p \in Promises, state[p] = "new",
         state'[p] # "new", NEW n \in Nat, refs' = [refs EXCEPT ![p] = n],
         UNCHANGED <<freed, waiting, combi>>,
         \A q \in Promises :
           Bit(q \in held') + Bit(q \in owed') + Moved(stack', reactions', q)
             <= Bit(q \in held) + Bit(q \in owed) + Moved(stack, reactions, q)
                  + (IF q = p THEN n ELSE 0)
  PROVE Balanced'
<1>1. refs[p] = 0 /\ p \notin freed
  BY DEF Balanced
<1>2. refs' \in [Promises -> Int] /\ \A q \in Promises : refs'[q] = IF q = p THEN n ELSE refs[q]
  BY DEF Balanced
<1>3. ASSUME NEW q \in Promises
      PROVE Bit(q \in held') + Bit(q \in owed') + Moved(stack', reactions', q) + refs[q]
             <= Bit(q \in held) + Bit(q \in owed) + Moved(stack, reactions, q) + refs'[q]
  <2>1. PICK x, y : /\ x = Bit(q \in held') + Bit(q \in owed') + Moved(stack', reactions', q)
                    /\ y = Bit(q \in held) + Bit(q \in owed) + Moved(stack, reactions, q)
    OBVIOUS
  <2>2. x \in Nat /\ y \in Nat
    BY <2>1, TermsOf, TermsNext DEF Bit
  <2>3. x <= y + (IF q = p THEN n ELSE 0)
    BY <2>1
  <2>4. refs[q] \in Nat /\ (q = p => refs[q] = 0) /\ refs'[q] = IF q = p THEN n ELSE refs[q]
    BY <1>1, <1>2 DEF Balanced
  <2>5. x + refs[q] <= y + refs'[q]
    BY ONLY <2>2, <2>3, <2>4, n \in Nat
  <2> QED
    BY <2>1, <2>5
<1>4. Pays
  BY <1>2, <1>3, Shift
<1>5. Sober
  BY <1>1, <1>2 DEF Sober, Aging
<1> QED
  BY <1>4, <1>5, Paid

LEMMA BalancedNew ==
  ASSUME Whole, Base, Base', Aging, Balanced, NEW p \in Promises, New(p) PROVE Balanced'
<1>1. /\ state[p] = "new" /\ state' = [state EXCEPT ![p] = "pending"]
      /\ refs' = [refs EXCEPT ![p] = 2] /\ held' = held \cup {p} /\ owed' = owed \cup {p}
      /\ UNCHANGED <<freed, reactions, stack, waiting, combi>>
  BY DEF New, Fresh, routineVars
<1>2. state'[p] # "new"
  BY <1>1 DEF Base, Typed
<1>3. ASSUME NEW q \in Promises
      PROVE Bit(q \in held') + Bit(q \in owed') + Moved(stack', reactions', q)
             <= Bit(q \in held) + Bit(q \in owed) + Moved(stack, reactions, q)
                  + (IF q = p THEN 2 ELSE 0)
  <2>1. PICK m : m = Moved(stack, reactions, q)
    OBVIOUS
  <2>2. m \in Nat /\ m = Moved(stack', reactions', q)
    BY <1>1, <2>1, TermsOf
  <2> QED
    BY <1>1, <2>1, <2>2 DEF Bit
<1> QED
  BY <1>1, <1>2, <1>3, Makes

LEMMA BalancedComplete ==
  ASSUME Whole, Base, Base', Aging, Balanced, NEW p \in Promises, NEW st, Complete(p, st)
  PROVE Balanced'
<1>1. PICK f : f = Release(<<p>>)
  OBVIOUS
<1>2. PICK s : s = stack
  OBVIOUS
<1>3. f \in Frames /\ s \in Seq(Frames) /\ Load(f) = <<p>>
  <2>1. <<p>> \in Seq(Promises)
    OBVIOUS
  <2> QED
    BY <1>1, <1>2, <2>1, FrameMade, LoadsAre DEF Base, Good
<1>4. PICK b : b = Append(s, f)
  OBVIOUS
<1>5. b \in Seq(Frames) /\ \A q : OnStack(b, q) = OnStack(s, q) + Bit(p = q)
  BY <1>3, <1>4, StackPush, OccOne
<1>6. /\ p \in owed /\ owed' = owed \ {p} /\ Settle(p, st, b)
      /\ UNCHANGED <<refs, freed, held, waiting, combi>>
  BY <1>1, <1>2, <1>4 DEF Complete, routineVars
<1>7. ASSUME NEW q \in Promises
      PROVE Bit(q \in held') + Bit(q \in owed') + Moved(stack', reactions', q) + refs[q]
             <= Bit(q \in held) + Bit(q \in owed) + Moved(stack, reactions, q) + refs'[q]
  <2>1. Moved(stack', reactions', q) = Moved(b, reactions, q)
    BY <1>5, <1>6, SettleMoves DEF Whole, Base
  <2>2. PICK n, r, m : n = OnStack(s, q) /\ r = InReactions(reactions, q) /\ m = Moved(stack', reactions', q)
    OBVIOUS
  <2>3. n \in Nat /\ r \in Nat
    BY <1>3, <2>2, StackCount, ReactionsNat
  <2>4. m = n + Bit(p = q) + r /\ Moved(stack, reactions, q) = n + r
    BY <1>2, <1>5, <2>1, <2>2 DEF Moved
  <2>5. refs[q] \in Nat /\ refs'[q] = refs[q] /\ held' = held
    BY <1>6 DEF Balanced
  <2>6. Bit(q \in owed') + Bit(p = q) = Bit(q \in owed)
    BY <1>6 DEF Bit
  <2>7. PICK o, u, t, h : o = Bit(q \in owed) /\ u = Bit(q \in owed') /\ t = Bit(p = q) /\ h = Bit(q \in held)
    OBVIOUS
  <2>8. o \in Nat /\ u \in Nat /\ t \in Nat /\ h \in Nat /\ u + t = o
    BY <2>6, <2>7 DEF Bit
  <2>9. m = n + t + r /\ refs[q] \in Nat
    BY <2>4, <2>5, <2>7
  <2>10. h + u + m + refs[q] <= h + o + (n + r) + refs[q]
    BY ONLY <2>3, <2>8, <2>9
  <2> QED
    BY <2>2, <2>4, <2>5, <2>7, <2>10
<1>8. refs' \in [Promises -> Int]
  BY <1>6 DEF Balanced
<1>9. Pays
  BY <1>6, <1>7, <1>8, Shift
<1>10. Sober
  BY <1>6 DEF Sober, Aging
<1> QED
  BY <1>9, <1>10, Paid

LEMMA BalancedCancel ==
  ASSUME Whole, Base, Base', Aging, Balanced, NEW p \in Promises, Cancel(p) PROVE Balanced'
<1>1. PICK f, s : f = Method(p, None) /\ s = stack
  OBVIOUS
<1>2. f \in Frames /\ s \in Seq(Frames) /\ Load(f) = <<>>
  BY <1>1, FrameMade, LoadsAre DEF Base, Good
<1>3. PICK b : b = Append(s, f)
  OBVIOUS
<1>4. b \in Seq(Frames) /\ \A q \in Promises : OnStack(b, q) <= OnStack(stack, q)
  <2>1. b \in Seq(Frames) /\ \A q : OnStack(b, q) = OnStack(s, q) + 0
    BY <1>2, <1>3, StackPush, OccEmpty
  <2>2. \A q : OnStack(s, q) \in Nat
    BY <1>2, StackCount
  <2> QED
    BY <1>1, <2>1, <2>2
<1>5. Settle(p, "rejected", b) /\ UNCHANGED <<refs, freed, held, owed, waiting, combi>>
  BY <1>1, <1>3 DEF Cancel, routineVars
<1> QED
  BY <1>4, <1>5, BalancedSettle

LEMMA BalancedChain ==
  ASSUME Whole, Base, Base', Aging, Balanced, NEW p \in Promises, NEW c \in Promises,
         NEW kind \in {"then", "catch", "finally"}, NEW h \in BOOLEAN, Chain(p, c, kind, h)
  PROVE Balanced'
<1>1. /\ p \in held /\ state[c] = "new" /\ state' = [state EXCEPT ![c] = "pending"]
      /\ refs' = [refs EXCEPT ![c] = 2] /\ held' = held \cup {c}
      /\ UNCHANGED <<freed, owed, waiting, combi>>
  BY DEF Chain, Fresh, Usable, routineVars
<1>2. state'[c] # "new"
  BY <1>1 DEF Base, Typed
<1>3. PICK r \in Reaction : r = [kind |-> kind, handler |-> h, child |-> c]
  BY DEF Reaction
<1>4. r.child = c
  BY <1>3
<1>5. PICK x, s : x = reactions /\ s = stack
  OBVIOUS
<1>6. x \in [Promises -> Seq(Reaction)] /\ s \in Seq(Frames)
  BY <1>5 DEF Base, Typed, Good
<1>7. PICK y : y = <<r>> \o x[p]
  OBVIOUS
<1>8. y \in Seq(Reaction) /\ \A q : Occ(KidsOf(y), q) = Bit(c = q) + Occ(KidsOf(x[p]), q)
  BY <1>4, <1>6, <1>7, KidsMore
<1>9. \/ reactions' = [x EXCEPT ![p] = y] /\ stack' = s
      \/ reactions' = [x EXCEPT ![p] = <<>>] /\ stack' = s \o <<Method(p, c), React(p, y)>>
  BY <1>3, <1>5, <1>7 DEF Chain
<1>10. ASSUME NEW q \in Promises
       PROVE Moved(stack', reactions', q) = Moved(stack, reactions, q) + Bit(c = q)
  <2>1. PICK a, b, k : a = OnStack(s, q) /\ b = InReactions(x, q) /\ k = Occ(KidsOf(x[p]), q)
    OBVIOUS
  <2>2. a \in Nat /\ b \in Nat /\ k \in Nat
    BY <1>6, <2>1, StackCount, ReactionsType, KidsType, OccFinite DEF Whole
  <2>3. PICK e : e = Bit(c = q)
    OBVIOUS
  <2>4. e \in Nat /\ Occ(KidsOf(y), q) = e + k
    BY <1>8, <2>1, <2>3 DEF Bit
  <2>5. PICK z : z = reactions'
    OBVIOUS
  <2>6. /\ z \in [Promises -> Seq(Reaction)] /\ Differ(x, z, Promises, p)
        /\ z[p] = y \/ z[p] = <<>>
    <3>1. z = [x EXCEPT ![p] = y] \/ z = [x EXCEPT ![p] = <<>>]
      BY <1>9, <2>5
    <3>2. x \in [Promises -> Seq(Reaction)] /\ y \in Seq(Reaction) /\ <<>> \in Seq(Reaction)
      BY <1>5, <1>6, <1>8 DEF Base, Typed
    <3>3. PICK w \in Seq(Reaction) : z = [x EXCEPT ![p] = w] /\ w \in {y, <<>>}
      BY <3>1, <3>2
    <3>4. z \in [Promises -> Seq(Reaction)] /\ z[p] = w /\ \A o \in Promises \ {p} : z[o] = x[o]
      BY ONLY <3>2, <3>3, w \in Seq(Reaction), p \in Promises
    <3> QED
      BY <3>3, <3>4 DEF Differ
  <2>7. InReactions(z, q) + k = b + Occ(KidsOf(z[p]), q)
    <3>1. IsFiniteSet(Promises) /\ p \in Promises
      BY DEF Whole
    <3>2. x \in [Promises -> Seq(Reaction)]
      BY <1>6
    <3>3. z \in [Promises -> Seq(Reaction)] /\ Differ(x, z, Promises, p)
      BY <2>6
    <3>4. InReactions(z, q) + Occ(KidsOf(x[p]), q) = InReactions(x, q) + Occ(KidsOf(z[p]), q)
      BY ONLY <3>1, <3>2, <3>3, ReactionsChange, Zenon
    <3> QED
      BY <2>1, <3>4
  <2>8. PICK i : i = InReactions(z, q)
    OBVIOUS
  <2>9. i \in Nat
    BY <2>6, <2>8, ReactionsType DEF Whole
  <2>10. CASE z[p] = y /\ stack' = s
    <3>1. i = b + e
      <4>1. i + k = b + (e + k)
        BY <2>4, <2>7, <2>8, <2>10
      <4> QED
        BY ONLY <2>2, <2>4, <2>9, <4>1
    <3> QED
      BY <1>5, <2>1, <2>2, <2>3, <2>4, <2>5, <2>8, <2>10, <3>1 DEF Moved
  <2>11. CASE z[p] = <<>> /\ stack' = s \o <<Method(p, c), React(p, y)>>
    <3>1. i + k = b
      BY <2>2, <2>7, <2>8, <2>9, <2>11, KidsEmpty, OccEmpty
    <3>2. PICK f \in Frames, g \in Frames : f = Method(p, c) /\ g = React(p, y)
      BY <1>8, FrameMade
    <3>3. OnStack(s \o <<f, g>>, q) = OnStack(s, q) + Occ(Load(f), q) + Occ(Load(g), q)
      BY <1>6, TwoFrames
    <3>4. Occ(Load(f), q) = 0 /\ Occ(Load(g), q) = e + k
      BY <2>4, <3>2, LoadsAre, OccEmpty
    <3>5. OnStack(stack', q) = a + e + k
      BY <2>1, <2>2, <2>4, <2>11, <3>2, <3>3, <3>4
    <3>6. (a + e + k) + i = (a + b) + e
      BY ONLY <2>2, <2>4, <2>9, <3>1
    <3>7. Moved(stack', reactions', q) = (a + e + k) + i /\ Moved(stack, reactions, q) = a + b
      BY <1>5, <2>1, <2>5, <2>8, <3>5 DEF Moved
    <3> QED
      BY <2>3, <3>6, <3>7
  <2>12. (z[p] = y /\ stack' = s) \/ (z[p] = <<>> /\ stack' = s \o <<Method(p, c), React(p, y)>>)
    BY <1>6, <1>9, <2>5
  <2> QED
    BY <2>10, <2>11, <2>12
<1>11. ASSUME NEW q \in Promises
       PROVE Bit(q \in held') + Bit(q \in owed') + Moved(stack', reactions', q)
              <= Bit(q \in held) + Bit(q \in owed) + Moved(stack, reactions, q)
                   + (IF q = c THEN 2 ELSE 0)
  <2>1. PICK m : m = Moved(stack, reactions, q)
    OBVIOUS
  <2>2. m \in Nat /\ Moved(stack', reactions', q) = m + Bit(c = q) /\ owed' = owed
    BY <1>1, <1>10, <2>1, TermsOf
  <2> QED
    BY <1>1, <2>1, <2>2 DEF Bit
<1> QED
  BY <1>1, <1>2, <1>11, Makes

LEMMA BalancedCollect ==
  ASSUME Whole, Base, Base', Aging, Balanced, NEW p \in Promises, Collect(p) PROVE Balanced'
<1>1. PICK f, s : f = Release(<<p>>) /\ s = stack
  OBVIOUS
<1>2. f \in Frames /\ s \in Seq(Frames) /\ Load(f) = <<p>>
  <2>1. <<p>> \in Seq(Promises)
    OBVIOUS
  <2> QED
    BY <1>1, <2>1, FrameMade, LoadsAre DEF Base, Good
<1>3. /\ p \in held /\ held' = held \ {p} /\ stack' = Append(s, f)
      /\ UNCHANGED <<refs, freed, reactions, owed, waiting, combi>>
  BY <1>1 DEF Collect, heapVars, routineVars
<1>4. ASSUME NEW q \in Promises
      PROVE Bit(q \in held') + Bit(q \in owed') + Moved(stack', reactions', q) + refs[q]
             <= Bit(q \in held) + Bit(q \in owed) + Moved(stack, reactions, q) + refs'[q]
  <2>1. PICK n, r, t : n = OnStack(s, q) /\ r = InReactions(reactions, q) /\ t = Bit(p = q)
    OBVIOUS
  <2>2. n \in Nat /\ r \in Nat
    BY <1>2, <2>1, StackCount, ReactionsNat
  <2>3. OnStack(stack', q) = n + t
    BY <1>2, <1>3, <2>1, StackPush, OccOne
  <2>4. Moved(stack', reactions', q) = (n + t) + r /\ Moved(stack, reactions, q) = n + r
    BY <1>1, <1>3, <2>1, <2>3 DEF Moved
  <2>5. PICK o, h, g : o = Bit(q \in owed) /\ h = Bit(q \in held) /\ g = Bit(q \in held')
    OBVIOUS
  <2>6. o \in Nat /\ h \in Nat /\ g \in Nat /\ t \in Nat /\ g + t = h
    BY <1>3, <2>1, <2>5 DEF Bit
  <2>7. refs[q] \in Nat /\ refs' = refs /\ owed' = owed
    BY <1>3 DEF Balanced
  <2>8. g + o + ((n + t) + r) + refs[q] <= h + o + (n + r) + refs[q]
    BY ONLY <2>2, <2>6, <2>7
  <2> QED
    BY <2>4, <2>5, <2>7, <2>8
<1>5. refs' \in [Promises -> Int]
  BY <1>3 DEF Balanced
<1>6. Pays
  BY <1>3, <1>4, <1>5, Shift
<1>7. Sober
  BY <1>3 DEF Sober, Aging
<1> QED
  BY <1>6, <1>7, Paid

LEMMA BalancedAsync ==
  ASSUME Whole, Base, Base', Aging, Balanced, NEW k \in Routines, NEW p \in Promises, Async(k, p)
  PROVE Balanced'
<1>1. PICK s : s = stack
  OBVIOUS
<1>2. s \in Seq(Frames)
  BY <1>1 DEF Base, Good
<1>3. PICK f \in Frames, g \in Frames : f = Method(p, p) /\ g = Run(k, TRUE)
  BY FrameMade
<1>4. /\ state[p] = "new" /\ state' = [state EXCEPT ![p] = "pending"]
      /\ refs' = [refs EXCEPT ![p] = 1] /\ held' = held \cup {p}
      /\ stack' = s \o <<f, g>>
      /\ UNCHANGED <<freed, reactions, owed, waiting, combi>>
  BY <1>1, <1>3 DEF Async, Fresh
<1>5. state'[p] # "new"
  BY <1>4 DEF Base, Typed
<1>6. ASSUME NEW q \in Promises
      PROVE Bit(q \in held') + Bit(q \in owed') + Moved(stack', reactions', q)
             <= Bit(q \in held) + Bit(q \in owed) + Moved(stack, reactions, q)
                  + (IF q = p THEN 1 ELSE 0)
  <2>1. OnStack(s \o <<f, g>>, q) = OnStack(s, q) + Occ(Load(f), q) + Occ(Load(g), q)
    BY <1>2, TwoFrames
  <2>2. Occ(Load(f), q) = 0 /\ Occ(Load(g), q) = 0 /\ OnStack(s, q) \in Nat
    BY <1>2, <1>3, LoadsAre, OccEmpty, StackCount
  <2>3. OnStack(stack', q) = OnStack(s, q)
    BY <1>4, <2>1, <2>2
  <2>4. PICK m : m = Moved(stack, reactions, q)
    OBVIOUS
  <2>5. m \in Nat /\ Moved(stack', reactions', q) = m
    BY <1>1, <1>4, <2>3, <2>4, TermsOf DEF Moved
  <2>6. Bit(q \in held') <= Bit(q \in held) + (IF q = p THEN 1 ELSE 0) /\ owed' = owed
    BY <1>4 DEF Bit
  <2>7. Bit(q \in held') \in Nat /\ Bit(q \in held) \in Nat /\ Bit(q \in owed) \in Nat
    BY DEF Bit
  <2> QED
    BY <2>4, <2>5, <2>6, <2>7
<1> QED
  BY <1>4, <1>5, <1>6, Makes

\* A frame that holds nothing makes way for one that holds nothing.
LEMMA BalancedSwap ==
  ASSUME Whole, Base, Base', Aging, Balanced, stack # <<>>, NEW f \in Frames, Load(f) = <<>>,
         stack' = Append(Below, f),
         UNCHANGED <<refs, freed, reactions, held, owed, waiting>>,
         \A c \in Promises : combi'[c].live = combi[c].live /\ combi'[c].ins = combi[c].ins
  PROVE Balanced'
<1>1. PICK b : b = Below
  OBVIOUS
<1>2. b \in Seq(Frames)
  BY <1>1, TopCount
<1>3. ASSUME NEW q \in Promises
      PROVE Moved(stack', reactions', q) <= Moved(stack, reactions, q)
  <2>1. OnStack(stack', q) = OnStack(b, q) + 0
    BY <1>1, <1>2, StackPush, OccEmpty
  <2>2. PICK m, l, r : m = OnStack(b, q) /\ l = Occ(Load(Top), q) /\ r = InReactions(reactions, q)
    OBVIOUS
  <2>3. m \in Nat /\ l \in Nat /\ r \in Nat /\ OnStack(stack, q) = m + l
    BY <1>1, <2>2, TopCount, ReactionsNat
  <2> QED
    BY <2>1, <2>2, <2>3 DEF Moved
<1> QED
  BY <1>3, Rearranged DEF Aging

LEMMA BalancedResume ==
  ASSUME Whole, Base, Base', Aging, Balanced, NotifyRoutine PROVE Balanced'
<1>1. PICK k : k = slot[Top.p]
  OBVIOUS
<1>2. /\ stack # <<>> /\ k \in Routines /\ stack' = Append(Below, Run(k, FALSE))
      /\ UNCHANGED <<refs, freed, reactions, held, owed, waiting, combi>>
  BY <1>1 DEF NotifyRoutine, At
<1>3. PICK f \in Frames : f = Run(k, FALSE)
  BY <1>2, FrameMade
<1> QED
  BY <1>2, <1>3, LoadsAre, BalancedSwap

LEMMA BelowLess == ASSUME Base, stack # <<>>
  PROVE Below \in Seq(Frames) /\ \A q : OnStack(Below, q) <= OnStack(stack, q)
<1>1. ASSUME NEW q PROVE OnStack(Below, q) <= OnStack(stack, q)
  <2>1. PICK m, l : m = OnStack(Below, q) /\ l = Occ(Load(Top), q)
    OBVIOUS
  <2>2. m \in Nat /\ l \in Nat /\ OnStack(stack, q) = m + l
    BY <2>1, TopCount
  <2> QED
    BY <2>1, <2>2
<1> QED
  BY <1>1, TopCount

\* A promise is settled, and then one more function goes on that holds nothing.
LEMMA BalancedEnds ==
  ASSUME Whole, Base, Base', Aging, Balanced, stack # <<>>, NEW p \in Promises, NEW st,
         NEW f \in Frames, Load(f) = <<>>, Settle(p, st, Append(Below, f)),
         UNCHANGED <<refs, freed, held, owed, waiting>>,
         \A c \in Promises : combi'[c].live = combi[c].live /\ combi'[c].ins = combi[c].ins
  PROVE Balanced'
<1>1. PICK b, c : b = Below /\ c = Append(b, f)
  OBVIOUS
<1>2. b \in Seq(Frames) /\ \A q : OnStack(b, q) <= OnStack(stack, q)
  BY <1>1, BelowLess
<1>3. c \in Seq(Frames) /\ \A q : OnStack(c, q) = OnStack(b, q) + 0 /\ OnStack(b, q) \in Nat
  BY <1>1, <1>2, StackPush, OccEmpty, StackCount
<1>4. \A q \in Promises : OnStack(c, q) <= OnStack(stack, q)
  BY <1>2, <1>3
<1>5. Settle(p, st, c)
  BY <1>1
<1> QED
  BY <1>3, <1>4, <1>5, BalancedSettle

LEMMA BalancedRoutine ==
  ASSUME Whole, Base, Base', Aging, Balanced, NEW ok \in BOOLEAN, RoutineEnds(ok) PROVE Balanced'
<1>1. stack # <<>> /\ Top.op = "run"
  BY DEF RoutineEnds, At
<1>2. PICK k, p : k = Top.k /\ p = result[k]
  OBVIOUS
<1>3. k \in Routines /\ p \in Promises
  BY <1>1, <1>2, TopRuns
<1>4. PICK f \in Frames : f = Ended(k, ~ok)
  BY <1>3, FrameMade
<1>5. \E st : Settle(p, st, Append(Below, f))
  BY <1>2, <1>4 DEF RoutineEnds
<1>6. UNCHANGED <<refs, freed, held, owed, waiting, combi>>
  BY DEF RoutineEnds, routineVars
<1> QED
  BY <1>1, <1>3, <1>4, <1>5, <1>6, LoadsAre, BalancedEnds

LEMMA BalancedNotify ==
  ASSUME Whole, Base, Base', Aging, Balanced, NotifyCombination PROVE Balanced'
<1>1. stack # <<>> /\ slot[Top.p] \in Promises
  BY DEF NotifyCombination, At
<1>2. PICK c \in Promises : c = slot[Top.p]
  BY <1>1
<1>3. PICK d : d = Decision(combi[c].mode, combi[c].count, combi[c].ins, state[Top.p])
  OBVIOUS
<1>4. \/ /\ combi' = [combi EXCEPT ![c].done = TRUE]
         /\ stack' = Below /\ UNCHANGED <<state, reactions>>
      \/ /\ combi' = [combi EXCEPT ![c].count = @ + 1]
         /\ stack' = Below /\ UNCHANGED <<state, reactions>>
      \/ /\ combi' = [combi EXCEPT ![c].done = TRUE]
         /\ Settle(c, d, Append(Below, Combined(c)))
  BY <1>2, <1>3 DEF NotifyCombination
<1>5. UNCHANGED <<refs, freed, held, owed, waiting>>
  BY DEF NotifyCombination, routineVars
<1>6. \A b \in Promises : combi'[b].live = combi[b].live /\ combi'[b].ins = combi[b].ins
  <2>1. \E e \in Promises : /\ \A b \in Promises : b # e => combi'[b] = combi[b]
                            /\ combi'[e].ins = combi[e].ins /\ combi'[e].live = combi[e].live
    BY NotifyEffect
  <2> QED
    BY <2>1
<1>7. CASE stack' = Below /\ UNCHANGED <<state, reactions>>
  <2>1. ASSUME NEW q \in Promises
        PROVE Moved(stack', reactions', q) <= Moved(stack, reactions, q)
    <3>1. PICK m, l, r : m = OnStack(Below, q) /\ l = Occ(Load(Top), q) /\ r = InReactions(reactions, q)
      OBVIOUS
    <3>2. m \in Nat /\ l \in Nat /\ r \in Nat /\ OnStack(stack, q) = m + l
      BY <1>1, <3>1, TopCount, ReactionsNat
    <3>3. OnStack(stack', q) = m /\ InReactions(reactions', q) = r
      BY <1>7, <3>1
    <3> QED
      BY <3>1, <3>2, <3>3 DEF Moved
  <2> QED
    BY <1>5, <1>6, <2>1, Rearranged DEF Aging
<1>8. CASE Settle(c, d, Append(Below, Combined(c)))
  <2>1. PICK f \in Frames : f = Combined(c)
    BY FrameMade
  <2> QED
    BY <1>1, <1>5, <1>6, <1>8, <2>1, LoadsAre, BalancedEnds
<1> QED
  BY <1>4, <1>7, <1>8

\* A release gives one reference back, or the memory, with the references of
\* reactions that never ran.
LEMMA BalancedRelease ==
  ASSUME Whole, Base, Base', Aging, Balanced, ReleaseStep PROVE Balanced'
<1>1. stack # <<>> /\ Top.op = "release"
  BY DEF ReleaseStep, At
<1>2. PICK todo : todo = Top.todo
  OBVIOUS
<1>3. todo \in Seq(Promises) /\ Load(Top) = todo
  <2>1. PICK f \in Frames : f = Top
    BY <1>1, TopCount
  <2> QED
    BY <1>1, <1>2, <2>1, FrameKinds DEF Load
<1>4. PICK b : b = Below
  OBVIOUS
<1>5. b \in Seq(Frames) /\ \A q : OnStack(b, q) <= OnStack(stack, q)
  BY <1>1, <1>4, BelowLess
<1>6. UNCHANGED <<state, held, owed, waiting, combi>>
  BY DEF ReleaseStep, routineVars
<1>7. CASE todo = <<>>
  <2>1. stack' = b /\ UNCHANGED <<freed, refs, reactions>>
    BY <1>2, <1>4, <1>7 DEF ReleaseStep
  <2>2. ASSUME NEW q \in Promises
        PROVE Moved(stack', reactions', q) <= Moved(stack, reactions, q)
    <3>1. PICK m, n, r : m = OnStack(b, q) /\ n = OnStack(stack, q) /\ r = InReactions(reactions, q)
      OBVIOUS
    <3>2. m \in Nat /\ n \in Nat /\ r \in Nat /\ m <= n
      <4>1. m \in Nat /\ m <= n /\ r \in Nat
        BY <1>5, <3>1, StackCount, ReactionsNat
      <4>2. n \in Nat
        <5>1. PICK s : s = stack
          OBVIOUS
        <5>2. s \in Seq(Frames)
          BY <5>1 DEF Base, Good
        <5> QED
          BY <3>1, <5>1, <5>2, StackCount
      <4> QED
        BY <4>1, <4>2
    <3> QED
      BY <2>1, <3>1, <3>2 DEF Moved
  <2> QED
    BY <1>6, <2>1, <2>2, Rearranged DEF Aging
<1>8. CASE todo # <<>>
  <2>1. PICK p, rest : p = Head(todo) /\ rest = Tail(todo)
    OBVIOUS
  <2>2. /\ p \in Promises /\ rest \in Seq(Promises)
        /\ \A q : Occ(todo, q) = Bit(p = q) + Occ(rest, q)
    BY <1>3, <1>8, <2>1, OccHead
  <2>3. PICK x : x = reactions
    OBVIOUS
  <2>4. x \in [Promises -> Seq(Reaction)]
    BY <2>3 DEF Base, Typed
  <2>5. PICK kids : kids = KidsOf(x[p])
    OBVIOUS
  <2>6. kids \in Seq(Promises)
    BY <2>2, <2>4, <2>5, KidsType
  <2>7. /\ refs' = [refs EXCEPT ![p] = @ - 1]
        /\ \/ /\ refs[p] > 1
              /\ stack' = Append(b, Release(rest)) /\ UNCHANGED <<freed, reactions>>
           \/ /\ ~(refs[p] > 1) /\ freed' = freed \cup {p}
              /\ reactions' = [x EXCEPT ![p] = <<>>]
              /\ stack' = Append(b, Release(kids \o rest))
    BY <1>2, <1>4, <1>8, <2>1, <2>3, <2>5 DEF ReleaseStep, KidsOf
  <2>8. ASSUME NEW q \in Promises
        PROVE Moved(stack', reactions', q) + Bit(p = q) = Moved(stack, reactions, q)
    <3>1. PICK m, r, t, e : /\ m = OnStack(b, q) /\ r = InReactions(x, q)
                            /\ t = Occ(rest, q) /\ e = Bit(p = q)
      OBVIOUS
    <3>2. /\ m \in Nat /\ r \in Nat /\ t \in Nat /\ e \in Nat
          /\ OnStack(stack, q) = m + (e + t)
      <4>1. m \in Nat /\ r \in Nat /\ t \in Nat /\ e \in Nat
        BY <1>5, <2>2, <2>4, <3>1, StackCount, ReactionsType, OccFinite DEF Bit, Whole
      <4>2. OnStack(stack, q) = OnStack(Below, q) + Occ(Load(Top), q)
        BY <1>1, TopCount
      <4> QED
        BY <1>3, <1>4, <2>2, <3>1, <4>1, <4>2
    <3>3. CASE stack' = Append(b, Release(rest)) /\ reactions' = reactions
      <4>1. PICK f \in Frames : f = Release(rest)
        BY <2>2, FrameMade
      <4>2. OnStack(stack', q) = m + t
        BY <1>5, <3>1, <3>3, <4>1, StackPush, LoadsAre
      <4>3. Moved(stack', reactions', q) = (m + t) + r /\ Moved(stack, reactions, q) = (m + (e + t)) + r
        BY <2>3, <3>1, <3>2, <3>3, <4>2 DEF Moved
      <4>4. ((m + t) + r) + e = (m + (e + t)) + r
        BY ONLY <3>2
      <4> QED
        BY <3>1, <4>3, <4>4
    <3>4. CASE reactions' = [x EXCEPT ![p] = <<>>] /\ stack' = Append(b, Release(kids \o rest))
      <4>1. kids \o rest \in Seq(Promises) /\ Occ(kids \o rest, q) = Occ(kids, q) + t
        BY <2>2, <2>6, <3>1, OccConcat
      <4>2. PICK f \in Frames : f = Release(kids \o rest)
        BY <4>1, FrameMade
      <4>3. PICK k : k = Occ(kids, q)
        OBVIOUS
      <4>4. k \in Nat
        BY <2>6, <4>3, OccFinite
      <4>5. OnStack(stack', q) = m + (k + t)
        BY <1>5, <3>1, <3>4, <4>1, <4>2, <4>3, StackPush, LoadsAre
      <4>6. PICK z : z = reactions'
        OBVIOUS
      <4>7. /\ z \in [Promises -> Seq(Reaction)] /\ z[p] = <<>>
            /\ Differ(x, z, Promises, p)
        BY <2>2, <2>4, <3>4, <4>6 DEF Differ, Base, Typed
      <4>8. PICK i : i = InReactions(z, q)
        OBVIOUS
      <4>9. i \in Nat
        BY <4>7, <4>8, ReactionsType DEF Whole
      <4>10. i + k = r + 0
        <5>1. IsFiniteSet(Promises) /\ p \in Promises
          BY <2>2 DEF Whole
        <5>2. InReactions(z, q) + Occ(KidsOf(x[p]), q) = InReactions(x, q) + Occ(KidsOf(z[p]), q)
          BY ONLY <2>4, <4>7, <5>1, ReactionsChange, Zenon
        <5>3. Occ(KidsOf(z[p]), q) = 0
          BY <4>7, KidsEmpty, OccEmpty
        <5> QED
          BY <2>5, <3>1, <4>3, <4>8, <5>2, <5>3
      <4>11. Moved(stack', reactions', q) = (m + (k + t)) + i /\ Moved(stack, reactions, q) = (m + (e + t)) + r
        BY <2>3, <3>1, <3>2, <4>5, <4>6, <4>8 DEF Moved
      <4>12. ((m + (k + t)) + i) + e = (m + (e + t)) + r
        BY ONLY <3>2, <4>4, <4>9, <4>10
      <4> QED
        BY <3>1, <4>11, <4>12
    <3> QED
      BY <2>7, <3>3, <3>4
  <2>9. p \notin freed /\ state[p] # "new" /\ refs[p] > 0
    <3>1. PICK m, n : m = Moved(stack', reactions', p) /\ n = Moved(stack, reactions, p)
      OBVIOUS
    <3>2. m \in Nat /\ n \in Nat /\ m + 1 = n
      BY <2>2, <2>8, <3>1, TermsOf, TermsNext DEF Bit
    <3>3. Moved(stack, reactions, p) > 0
      BY <3>1, <3>2
    <3> QED
      BY <2>2, <3>3, Counted
  <2>10. /\ refs' \in [Promises -> Int]
         /\ \A q \in Promises : refs[q] \in Nat /\ refs'[q] + Bit(p = q) = refs[q]
    <3>1. /\ refs \in [Promises -> Nat] /\ refs' = [refs EXCEPT ![p] = @ - 1]
      BY <2>7 DEF Balanced
    <3>2. \A q \in Promises : /\ refs'[q] = (IF q = p THEN refs[q] - 1 ELSE refs[q])
                             /\ refs[q] \in Nat
      BY <3>1
    <3>3. refs' = [q \in Promises |-> IF q = p THEN refs[q] - 1 ELSE refs[q]]
      BY <3>1
    <3> QED
      BY <3>2, <3>3 DEF Bit
  <2>11. Pays
    <3>1. ASSUME NEW q \in Promises
          PROVE Bit(q \in held') + Bit(q \in owed') + Moved(stack', reactions', q) + refs[q]
                 <= Bit(q \in held) + Bit(q \in owed) + Moved(stack, reactions, q) + refs'[q]
      <4>1. PICK h, o, e, m, n : /\ h = Bit(q \in held) /\ o = Bit(q \in owed) /\ e = Bit(p = q)
                                 /\ m = Moved(stack', reactions', q) /\ n = Moved(stack, reactions, q)
        OBVIOUS
      <4>2. h \in Nat /\ o \in Nat /\ e \in Nat /\ m \in Nat /\ n \in Nat /\ m + e = n
        BY <2>8, <4>1, TermsOf, TermsNext DEF Bit
      <4>3. refs[q] \in Nat /\ refs'[q] \in Int /\ refs'[q] + e = refs[q]
        BY <2>10, <4>1
      <4>4. h + o + m + refs[q] <= h + o + n + refs'[q]
        BY ONLY <4>2, <4>3
      <4> QED
        BY <1>6, <4>1, <4>4
    <3> QED
      BY <1>6, <2>10, <3>1, Shift
  <2>12. CASE refs[p] > 1 /\ freed' = freed
    <3>1. Sober
      BY <1>6, <2>7, <2>9, <2>12 DEF Sober, Balanced
    <3> QED
      BY <2>11, <3>1, Paid
  <2>13. CASE ~(refs[p] > 1) /\ freed' = freed \cup {p}
    <3>1. refs'[p] = 0
      BY <2>2, <2>9, <2>10, <2>13 DEF Bit
    <3>2. ASSUME NEW q \in Promises
          PROVE /\ refs'[q] \in Nat /\ Needed(q)' <= refs'[q]
                /\ q \in freed' \/ state'[q] = "new" => refs'[q] = 0
                /\ state'[q] = "new" => q \notin freed'
      <4>1. Needed(q) \in Nat /\ Needed(q)' \in Nat
        BY NeededNat, NeededNext
      <4>2. Needed(q) <= refs[q] /\ refs[q] \in Nat
        BY DEF Balanced
      <4>3. Needed(q)' + refs[q] <= Needed(q) + refs'[q] /\ refs'[q] \in Int
        BY <2>11 DEF Pays
      <4>4. refs'[q] \in Nat /\ Needed(q)' <= refs'[q]
        BY ONLY <4>1, <4>2, <4>3
      <4>5. q # p => refs'[q] = refs[q]
        BY <2>7 DEF Balanced
      <4> QED
        BY <1>6, <2>9, <2>13, <3>1, <4>4, <4>5 DEF Balanced
    <3>3. refs' \in [Promises -> Nat]
      BY <2>10, <3>2
    <3> QED
      BY <3>2, <3>3 DEF Balanced
  <2> QED
    BY <2>7, <2>12, <2>13
<1> QED
  BY <1>7, <1>8

\* A frame that holds nothing is on top.
LEMMA TopIdle == ASSUME Base, stack # <<>>, Top.op \notin {"release", "react"}, NEW q
  PROVE OnStack(stack, q) = OnStack(Below, q) /\ OnStack(Below, q) \in Nat
<1>1. Load(Top) = <<>>
  BY DEF Load
<1>2. Occ(Load(Top), q) = 0
  BY <1>1, OccEmpty
<1> QED
  BY <1>2, TopCount

\* What a coroutine waited for
Old(k) == IF waiting[k] = None THEN <<>> ELSE <<waiting[k]>>

LEMMA OldCount == ASSUME Base, NEW k \in Routines, NEW q \in Promises
  PROVE Old(k) \in Seq(Promises) /\ Occ(Old(k), q) = Bit(waiting[k] = q)
<1>1. waiting[k] \in Promises \cup {None}
  BY DEF Base, Typed
<1>2. CASE waiting[k] = None
  <2>1. Old(k) = <<>> /\ ~(waiting[k] = q)
    BY <1>2, Distinct DEF Old
  <2> QED
    BY <2>1, OccEmpty DEF Bit
<1>3. CASE waiting[k] # None
  <2>1. PICK o : o = waiting[k]
    OBVIOUS
  <2>2. o \in Promises /\ Old(k) = <<o>>
    BY <1>1, <1>3, <2>1 DEF Old
  <2> QED
    BY <2>1, <2>2, OccOne
<1> QED
  BY <1>2, <1>3

\* A coroutine comes to wait for p, which counts it.
LEMMA Waits1 ==
  ASSUME Whole, Base, Base', Aging, Balanced, NEW k \in Routines, NEW p \in Promises, p \in held,
         NEW n \in Nat, n > 0, refs' = [refs EXCEPT ![p] = @ + n],
         waiting' = [waiting EXCEPT ![k] = p],
         UNCHANGED <<state, freed, held, owed, combi>>,
         \A q \in Promises : Moved(stack', reactions', q)
                               <= Moved(stack, reactions, q) + Bit(waiting[k] = q)
  PROVE Balanced'
<1>1. p \notin freed /\ state[p] # "new" /\ refs[p] > 0
  BY Counted
<1>2. /\ refs' \in [Promises -> Int]
      /\ \A q \in Promises : refs[q] \in Nat /\ refs'[q] = IF q = p THEN refs[q] + n ELSE refs[q]
  <2>1. refs \in [Promises -> Nat]
    BY DEF Balanced
  <2> QED
    BY <2>1
<1>3. ASSUME NEW q \in Promises
      PROVE Moved(stack', reactions', q) + Bit(p = q) + refs[q]
              <= Moved(stack, reactions, q) + Bit(waiting[k] = q) + refs'[q]
  <2>1. PICK m, r, x, y : /\ m = Moved(stack', reactions', q) /\ r = Moved(stack, reactions, q)
                          /\ x = Bit(waiting[k] = q) /\ y = Bit(p = q)
    OBVIOUS
  <2>2. m \in Nat /\ r \in Nat /\ x \in Nat /\ y \in Nat /\ m <= r + x
    BY <2>1, TermsOf, TermsNext DEF Bit
  <2>3. (p = q => y = 1) /\ (p # q => y = 0)
    BY <2>1 DEF Bit
  <2>4. refs[q] \in Nat /\ refs'[q] = IF q = p THEN refs[q] + n ELSE refs[q]
    BY <1>2
  <2>5. m + y + refs[q] <= r + x + refs'[q]
    BY ONLY <2>2, <2>3, <2>4, n \in Nat, n > 0
  <2> QED
    BY <2>1, <2>5
<1>4. Pays
  BY <1>2, <1>3, Rewait
<1>5. Sober
  BY <1>1, <1>2 DEF Sober, Aging
<1> QED
  BY <1>4, <1>5, Paid

LEMMA BalancedKeyword ==
  ASSUME Whole, Base, Base', Aging, Balanced, NEW p \in Promises, AwaitKeyword(p) PROVE Balanced'
<1>1. stack # <<>> /\ Top.op = "run" /\ p \in held
  BY DEF AwaitKeyword, At, Usable
<1>2. PICK k : k = Top.k
  OBVIOUS
<1>3. k \in Routines
  BY <1>1, <1>2, TopRuns
<1>4. PICK b, old : b = Below /\ old = Old(k)
  OBVIOUS
<1>5. b \in Seq(Frames) /\ \A q : OnStack(stack, q) = OnStack(b, q) /\ OnStack(b, q) \in Nat
  BY <1>1, <1>4, TopCount, TopIdle
<1>6. /\ waiting' = [waiting EXCEPT ![k] = p] /\ refs' = [refs EXCEPT ![p] = @ + 1]
      /\ UNCHANGED <<state, freed, reactions, held, owed, combi>>
      /\ stack' = Append(b, Release(old)) \/ stack' = b \o <<Run(k, FALSE), Release(old)>>
  BY <1>2, <1>4 DEF AwaitKeyword, Old
<1>7. ASSUME NEW q \in Promises
      PROVE Moved(stack', reactions', q) <= Moved(stack, reactions, q) + Bit(waiting[k] = q)
  <2>1. PICK m, r, x : m = OnStack(b, q) /\ r = InReactions(reactions, q) /\ x = Bit(waiting[k] = q)
    OBVIOUS
  <2>2. m \in Nat /\ r \in Nat /\ x \in Nat
    BY <1>5, <2>1, ReactionsNat DEF Bit
  <2>3. old \in Seq(Promises) /\ Occ(old, q) = x
    BY <1>3, <1>4, <2>1, OldCount
  <2>4. PICK f \in Frames, g \in Frames : f = Run(k, FALSE) /\ g = Release(old)
    BY <1>3, <2>3, FrameMade
  <2>5. Occ(Load(f), q) = 0 /\ Occ(Load(g), q) = x
    BY <2>3, <2>4, LoadsAre, OccEmpty
  <2>6. OnStack(Append(b, g), q) = m + x
    BY <1>5, <2>1, <2>5, StackPush
  <2>7. OnStack(b \o <<f, g>>, q) = m + 0 + x
    BY <1>5, <2>1, <2>5, TwoFrames
  <2>8. OnStack(stack', q) = m + x
    <3>1. m + 0 + x = m + x
      BY ONLY <2>2
    <3>2. stack' = Append(b, g) \/ stack' = b \o <<f, g>>
      BY <1>6, <2>4
    <3> QED
      BY ONLY <2>6, <2>7, <3>1, <3>2
  <2>9. Moved(stack', reactions', q) = (m + x) + r /\ Moved(stack, reactions, q) = m + r
    BY <1>5, <1>6, <2>1, <2>8 DEF Moved
  <2>10. (m + x) + r <= (m + r) + x
    BY ONLY <2>2
  <2> QED
    BY <2>1, <2>9, <2>10
<1>8. 1 \in Nat /\ 1 > 0
  OBVIOUS
<1> QED
  BY <1>1, <1>3, <1>6, <1>7, <1>8, Waits1

LEMMA BalancedFunction ==
  ASSUME Whole, Base, Base', Aging, Balanced, NEW p \in Promises, AwaitFunction(p) PROVE Balanced'
<1>1. stack # <<>> /\ Top.op = "run" /\ p \in held
  BY DEF AwaitFunction, At, Usable
<1>2. PICK k, n : k = Top.k /\ n = (IF Top.first THEN 2 ELSE 1)
  OBVIOUS
<1>3. k \in Routines /\ n \in Nat /\ n > 0
  BY <1>1, <1>2, TopRuns
<1>4. /\ waiting' = [waiting EXCEPT ![k] = p] /\ refs' = [refs EXCEPT ![p] = @ + n]
      /\ UNCHANGED <<state, freed, reactions, held, owed, combi>>
      /\ stack' = Below
  BY <1>2 DEF AwaitFunction
<1>5. ASSUME NEW q \in Promises
      PROVE Moved(stack', reactions', q) <= Moved(stack, reactions, q) + Bit(waiting[k] = q)
  <2>1. PICK m : m = Moved(stack, reactions, q)
    OBVIOUS
  <2>2. OnStack(stack', q) = OnStack(stack, q) /\ reactions' = reactions
    BY <1>1, <1>4, TopIdle
  <2>3. m \in Nat /\ Moved(stack', reactions', q) = m
    BY <2>1, <2>2, TermsOf DEF Moved
  <2> QED
    BY <2>1, <2>3 DEF Bit
<1> QED
  BY <1>1, <1>3, <1>4, <1>5, Waits1

LEMMA BalancedFreed ==
  ASSUME Whole, Base, Base', Aging, Balanced, RoutineFreed PROVE Balanced'
<1>1. stack # <<>> /\ Top.op = "ended"
  BY DEF RoutineFreed, At
<1>2. PICK k : k = Top.k
  OBVIOUS
<1>3. k \in Routines
  BY <1>1, <1>2, TopRuns
<1>4. PICK b : b = Below
  OBVIOUS
<1>5. b \in Seq(Frames) /\ \A q : OnStack(stack, q) = OnStack(b, q) /\ OnStack(b, q) \in Nat
  BY <1>1, <1>4, TopCount, TopIdle
<1>6. /\ waiting' = [waiting EXCEPT ![k] = None]
      /\ UNCHANGED <<refs, state, freed, reactions, held, owed, combi>>
      /\ stack' = b \/ (stack' = Append(b, Release(<<waiting[k]>>)) /\ waiting[k] # None)
  BY <1>2, <1>4 DEF RoutineFreed, heapVars
<1>7. refs' \in [Promises -> Int]
  BY <1>6 DEF Balanced
<1>8. ASSUME NEW q \in Promises
      PROVE Moved(stack', reactions', q) + Bit(None = q) + refs[q]
              <= Moved(stack, reactions, q) + Bit(waiting[k] = q) + refs'[q]
  <2>1. PICK m, r, x : m = OnStack(b, q) /\ r = InReactions(reactions, q) /\ x = Bit(waiting[k] = q)
    OBVIOUS
  <2>2. m \in Nat /\ r \in Nat /\ x \in Nat /\ refs[q] \in Nat /\ refs'[q] = refs[q]
    BY <1>5, <1>6, <2>1, ReactionsNat DEF Bit, Balanced
  <2>3. Bit(None = q) = 0
    BY Distinct DEF Bit
  <2>4. OnStack(stack', q) = m \/ OnStack(stack', q) = m + x
    <3>1. CASE stack' = b
      BY <2>1, <3>1
    <3>2. CASE stack' = Append(b, Release(<<waiting[k]>>)) /\ waiting[k] # None
      <4>1. Old(k) = <<waiting[k]>>
        BY <3>2 DEF Old
      <4>2. Old(k) \in Seq(Promises) /\ Occ(Old(k), q) = x
        BY <1>3, <2>1, OldCount
      <4>3. PICK g \in Frames : g = Release(Old(k))
        BY <4>2, FrameMade
      <4> QED
        BY <1>5, <2>1, <3>2, <4>1, <4>2, <4>3, StackPush, LoadsAre
    <3> QED
      BY <1>6, <3>1, <3>2
  <2>5. PICK t : t = OnStack(stack', q)
    OBVIOUS
  <2>6. Moved(stack', reactions', q) = t + r /\ Moved(stack, reactions, q) = m + r
    BY <1>5, <1>6, <2>1, <2>5 DEF Moved
  <2>7. (t + r) + 0 + refs[q] <= (m + r) + x + refs[q]
    BY ONLY <2>2, <2>4, <2>5
  <2> QED
    BY <2>1, <2>2, <2>3, <2>6, <2>7
<1>9. Pays
  BY <1>3, <1>6, <1>7, <1>8, Rewait
<1>10. Sober
  BY <1>6 DEF Sober, Aging
<1> QED
  BY <1>9, <1>10, Paid

-----------------------------------------------------------------------------
(* The context of a combination lasts until it has ended.                  *)

Lasts == \A c \in Promises :
  /\ ~combi[c].done => combi[c].live
  /\ Ending(stack, c) => combi[c].live
  /\ combi[c].live => combi[c].ins \in Lists

LEMMA LastsStep == ASSUME Base, Lasts, Next PROVE Lasts'
<1>1. CASE Plain
  BY <1>1 DEF Plain, Keys, Lasts
<1>2. ASSUME NEW mode \in Modes, NEW ins \in Lists, NEW c \in Promises, Combine(mode, ins, c)
      PROVE Lasts'
  <2>1. PICK now \in Ends \cup {None} :
          /\ state[c] = "new" /\ stack' = stack
          /\ combi'[c].ins = ins
          /\ (combi'[c].done <=> now # None) /\ (combi'[c].live <=> now = None)
          /\ \A p \in Promises : p # c => combi'[p] = combi[p]
    BY <1>2, CombineEffect
  <2>2. ~Ending(stack, c)
    BY <2>1 DEF Base, Finishes
  <2> QED
    BY <2>1, <2>2 DEF Lasts
<1>3. ASSUME NEW k \in Routines, NEW p \in Promises, Async(k, p) PROVE Lasts'
  <2>1. combi' = combi /\ \A q \in Promises : Ending(stack', q) <=> Ending(stack, q)
    BY <1>3, AsyncEffect
  <2> QED
    BY <2>1 DEF Lasts
<1>4. ASSUME NEW p \in Promises, AwaitKeyword(p) \/ AwaitFunction(p) PROVE Lasts'
  <2>1. combi' = combi /\ \A q \in Promises : Ending(stack', q) <=> Ending(stack, q)
    BY <1>4, AwaitEffect
  <2> QED
    BY <2>1 DEF Lasts
<1>5. CASE NotifyCombination
  <2>1. PICK c \in Promises :
          /\ \A b \in Promises : b # c => /\ combi'[b] = combi[b]
                                          /\ Ending(stack', b) <=> Ending(stack, b)
          /\ combi'[c].ins = combi[c].ins /\ combi'[c].live = combi[c].live
          /\ (combi'[c].done \/ ~combi[c].done)
          /\ (Ending(stack', c) => Ending(stack, c) \/ ~combi[c].done)
    BY <1>5, NotifyEffect
  <2> QED
    BY <2>1 DEF Lasts
<1>6. CASE CombinationEnds
  <2>1. PICK c \in Promises :
          /\ Ending(stack, c)
          /\ \A b \in Promises : Ending(stack', b) <=> Ending(stack, b) /\ b # c
          /\ \A b \in Promises : b # c => combi'[b] = combi[b]
          /\ combi'[c].done = combi[c].done /\ ~combi'[c].live
    BY <1>6, EndEffect
  <2>2. combi[c].done
    BY <2>1 DEF Base, Finishes
  <2> QED
    BY <2>1, <2>2 DEF Lasts
<1>7. CASE NotifyRoutine
  <2>1. combi' = combi /\ \A q \in Promises : Ending(stack', q) <=> Ending(stack, q)
    BY <1>7, ResumeEffect
  <2> QED
    BY <2>1 DEF Lasts
<1>8. CASE NotifyNobody
  <2>1. combi' = combi /\ Keys(stack, stack')
    BY <1>8, NobodyEffect
  <2> QED
    BY <2>1 DEF Lasts, Keys
<1>9. CASE RoutineFreed
  <2>1. combi' = combi /\ \A q \in Promises : Ending(stack', q) <=> Ending(stack, q)
    BY <1>9, FreedEffect
  <2> QED
    BY <2>1 DEF Lasts
<1> QED
  BY <1>1, <1>2, <1>3, <1>4, <1>5, <1>6, <1>7, <1>8, <1>9, Steps

LEMMA LastsInit == Init => Lasts
<1> SUFFICES ASSUME Init PROVE Lasts
  OBVIOUS
<1>1. stack = <<>> /\ Len(stack) = 0
  BY DEF Init
<1> QED
  BY <1>1 DEF Init, Lasts, NoCombi, Ending, Has

\* A combination ends: it gives back what it holds of its inputs.
LEMMA BalancedEndsCombination ==
  ASSUME Whole, Base, Base', Aging, Balanced, Lasts, CombinationEnds PROVE Balanced'
<1>1. stack # <<>> /\ Top.op = "combined"
  BY DEF CombinationEnds, At
<1>2. PICK f \in Frames : f = Top
  BY <1>1, TopOf
<1>3. PICK c \in Promises : c = Top.p
  BY <1>1, <1>2, FrameKinds
<1>4. Ending(stack, c)
  <2>1. Len(stack) \in 1 .. Len(stack) /\ stack[Len(stack)] = f
    BY <1>1, <1>2 DEF Top, Base, Good
  <2>2. Same(f, Combined(c))
    BY <1>1, <1>2, <1>3 DEF Same, Combined
  <2> QED
    BY <2>1, <2>2 DEF Ending, Has
<1>5. PICK ins \in Lists : ins = combi[c].ins
  BY <1>4 DEF Lasts
<1>6. combi[c].live
  BY <1>4 DEF Lasts
<1>7. /\ combi' = [combi EXCEPT ![c].live = FALSE]
      /\ stack' = Append(Below, Release(ins))
      /\ UNCHANGED <<state, freed, refs, reactions, held, owed, waiting>>
  BY <1>3, <1>5 DEF CombinationEnds, routineVars
<1>8. /\ \A b \in Promises : b # c => combi'[b] = combi[b]
      /\ ~combi'[c].live
  <2>1. combi \in [Promises -> Combi]
    BY DEF Base, Typed
  <2> QED
    BY <1>7, <2>1 DEF Combi
<1>9. PICK b : b = Below
  OBVIOUS
<1>10. b \in Seq(Frames) /\ \A q : OnStack(b, q) = OnStack(stack, q)
  BY <1>1, <1>9, BelowLess, TopIdle
<1>11. ins \in Seq(Promises)
  BY <1>5, OccInputs
<1>12. PICK g \in Frames : g = Release(ins)
  BY <1>11, FrameMade
<1>13. ASSUME NEW q \in Promises
       PROVE Bit(q \in held') + Moved(stack', reactions', q) + Bit(Feeds(combi'[c], q)) + refs[q]
              <= Bit(q \in held) + Moved(stack, reactions, q) + Bit(Feeds(combi[c], q)) + refs'[q]
  <2>1. PICK m, r, h, e : /\ m = OnStack(b, q) /\ r = InReactions(reactions, q)
                          /\ h = Bit(q \in held) /\ e = Bit(q \in Range(ins))
    OBVIOUS
  <2>2. m \in Nat /\ r \in Nat /\ h \in Nat /\ e \in Nat /\ refs[q] \in Nat
    BY <1>10, <2>1, StackCount, ReactionsNat DEF Bit, Balanced
  <2>3. Occ(ins, q) = e
    BY <1>5, <2>1, OccInputs
  <2>4. OnStack(stack', q) = m + e
    BY <1>7, <1>9, <1>10, <1>12, <2>1, <2>3, StackPush, LoadsAre
  <2>5. Moved(stack', reactions', q) = (m + e) + r /\ Moved(stack, reactions, q) = m + r
    BY <1>7, <1>10, <2>1, <2>4 DEF Moved
  <2>6. Bit(Feeds(combi'[c], q)) = 0 /\ Bit(Feeds(combi[c], q)) = e
    BY <1>5, <1>6, <1>8, <2>1 DEF Feeds, Bit
  <2>7. h + ((m + e) + r) + 0 + refs[q] <= h + (m + r) + e + refs[q]
    BY ONLY <2>2
  <2> QED
    BY <1>7, <2>1, <2>5, <2>6, <2>7
<1>14. refs' \in [Promises -> Int]
  BY <1>7 DEF Balanced
<1>15. Pays
  BY <1>7, <1>8, <1>13, <1>14, Recombine
<1>16. Sober
  BY <1>7 DEF Sober, Aging
<1> QED
  BY <1>15, <1>16, Paid

\* A combination is made: it counts for every input that it holds.
LEMMA TakenNat ==
  ASSUME NEW mode, NEW ins, NEW now, NEW q \in Promises
  PROVE /\ Taken(mode, ins, now)[q] \in Nat
        /\ q \notin Range(ins) => Taken(mode, ins, now)[q] = 0
        /\ now = None /\ q \in Range(ins) => Taken(mode, ins, now)[q] >= 1
  BY DEF Taken

LEMMA BalancedCombine ==
  ASSUME Whole, Base, Base', Aging, Balanced, NEW mode \in Modes, NEW ins \in Lists,
         NEW c \in Promises, Combine(mode, ins, c)
  PROVE Balanced'
<1>1. PICK now : now = AtOnce(mode, ins)
  OBVIOUS
<1>2. /\ state[c] = "new" /\ \A p \in Range(ins) : p \in held
      /\ refs' = [p \in Promises |-> refs[p] + Taken(mode, ins, now)[p] + (IF p = c THEN 1 ELSE 0)]
      /\ held' = held \cup {c}
      /\ UNCHANGED <<freed, reactions, owed, stack, waiting>>
  BY <1>1 DEF Combine, Fresh, Usable, routineVars
<1>3. /\ state'[c] # "new" /\ combi'[c].ins = ins /\ (combi'[c].live <=> now = None)
      /\ \A p \in Promises : p # c => combi'[p] = combi[p]
  <2>1. PICK n \in Ends \cup {None} :
          /\ n = AtOnce(mode, ins)
          /\ state'[c] = (IF n = None THEN "pending" ELSE n)
          /\ combi'[c].ins = ins /\ (combi'[c].live <=> n = None)
          /\ \A p \in Promises : p # c => state'[p] = state[p] /\ combi'[p] = combi[p]
    BY CombineEffect
  <2> QED
    BY <1>1, <2>1 DEF Ends
<1>4. \A q \in Promises : /\ refs[q] \in Nat
                          /\ refs'[q] = refs[q] + Taken(mode, ins, now)[q] + (IF q = c THEN 1 ELSE 0)
  BY <1>2 DEF Balanced
<1>5. refs' \in [Promises -> Int]
  BY <1>2, <1>4, TakenNat
<1>6. ASSUME NEW q \in Promises
      PROVE Bit(q \in held') + Moved(stack', reactions', q) + Bit(Feeds(combi'[c], q)) + refs[q]
             <= Bit(q \in held) + Moved(stack, reactions, q) + Bit(Feeds(combi[c], q)) + refs'[q]
  <2>1. PICK m, h, g, e, f, t : /\ m = Moved(stack, reactions, q)
                                /\ h = Bit(q \in held) /\ g = Bit(q \in held')
                                /\ e = Bit(Feeds(combi[c], q)) /\ f = Bit(Feeds(combi'[c], q))
                                /\ t = Taken(mode, ins, now)[q]
    OBVIOUS
  <2>2. m \in Nat /\ h \in Nat /\ g \in Nat /\ e \in Nat /\ f \in Nat /\ t \in Nat
    BY <2>1, TermsOf, TakenNat DEF Bit
  <2>3. g <= h + (IF q = c THEN 1 ELSE 0)
    BY <1>2, <2>1 DEF Bit
  <2>4. f <= t
    <3>1. CASE now = None /\ q \in Range(ins)
      <4>1. t >= 1
        BY <2>1, <3>1, TakenNat
      <4> QED
        BY <2>1, <2>2, <4>1 DEF Bit
    <3>2. CASE ~(now = None /\ q \in Range(ins))
      <4>1. f = 0
        BY <1>3, <2>1, <3>2 DEF Feeds, Bit
      <4> QED
        BY <2>2, <4>1
    <3> QED
      BY <3>1, <3>2
  <2>5. refs[q] \in Nat /\ refs'[q] = refs[q] + t + (IF q = c THEN 1 ELSE 0)
    BY <1>4, <2>1
  <2>6. g + m + f + refs[q] <= h + m + e + refs'[q]
    BY ONLY <2>2, <2>3, <2>4, <2>5
  <2>7. Moved(stack', reactions', q) = m
    BY <1>2, <2>1
  <2> QED
    BY <2>1, <2>6, <2>7
<1>7. Pays
  BY <1>2, <1>3, <1>5, <1>6, Recombine
<1>8. Sober
  <2>1. c \notin freed
    BY <1>2 DEF Balanced
  <2>2. \A q \in Range(ins) : q \in Promises => q \notin freed /\ state[q] # "new"
    BY <1>2, Counted
  <2>3. ASSUME NEW q \in Promises, q \in freed \/ state'[q] = "new" PROVE refs'[q] = refs[q]
    <3>1. q # c
      BY <1>3, <2>1, <2>3
    <3>2. q \notin Range(ins)
      BY <2>2, <2>3 DEF Aging
    <3>3. Taken(mode, ins, now)[q] = 0
      BY <3>2, TakenNat
    <3> QED
      BY <1>4, <3>1, <3>3
  <2> QED
    BY <1>2, <2>3 DEF Sober, Aging
<1> QED
  BY <1>7, <1>8, Paid

LEMMA BalancedNext == ASSUME Whole, Base, Balanced, Lasts, Next PROVE Balanced'
<1>1. Base' /\ Aging
  BY BaseStep, Ages
<1>2. CASE Native
  BY <1>1, <1>2, BalancedReaction, BalancedPops, BalancedRelease, BalancedNotify,
     BalancedEndsCombination, BalancedResume, BalancedFreed DEF Native
<1>3. ASSUME NEW ok \in BOOLEAN, HandlerEnds(ok) \/ RoutineEnds(ok) PROVE Balanced'
  BY <1>1, <1>3, BalancedHandler, BalancedRoutine
<1>4. ASSUME NEW p \in Promises,
             New(p) \/ Cancel(p) \/ Collect(p) \/ AwaitKeyword(p) \/ AwaitFunction(p)
      PROVE Balanced'
  BY <1>1, <1>4, BalancedNew, BalancedCancel, BalancedCollect, BalancedKeyword, BalancedFunction
<1>5. ASSUME NEW p \in Promises, NEW st \in {"fulfilled", "rejected"}, Complete(p, st)
      PROVE Balanced'
  BY <1>1, <1>5, BalancedComplete
<1>6. ASSUME NEW p \in Promises, NEW c \in Promises,
             NEW kind \in {"then", "catch", "finally"}, NEW h \in BOOLEAN, Chain(p, c, kind, h)
      PROVE Balanced'
  BY <1>1, <1>6, BalancedChain
<1>7. ASSUME NEW mode \in Modes, NEW ins \in Lists, NEW c \in Promises, Combine(mode, ins, c)
      PROVE Balanced'
  BY <1>1, <1>7, BalancedCombine
<1>8. ASSUME NEW k \in Routines, NEW p \in Promises, Async(k, p) PROVE Balanced'
  BY <1>1, <1>8, BalancedAsync
<1> QED
  BY <1>2, <1>3, <1>4, <1>5, <1>6, <1>7, <1>8 DEF Next

LEMMA BalancedSame == ASSUME Balanced, UNCHANGED vars PROVE Balanced'
<1>1. ASSUME NEW q PROVE Needed(q)' = Needed(q)
  BY DEF vars, heapVars, routineVars, Needed
<1> QED
  BY <1>1 DEF Balanced, vars, heapVars

LEMMA BalancedInit == ASSUME IsFiniteSet(Promises), Init PROVE Balanced
<1>1. ASSUME NEW q \in Promises PROVE Needed(q) = 0
  <2>1. Waiters(waiting, q) = {} /\ Feeders(combi, q) = {}
    BY Distinct DEF Init, Waiters, Feeders, NoCombi
  <2>2. Cardinality(Waiters(waiting, q)) = 0 /\ Cardinality(Feeders(combi, q)) = 0
    BY <2>1, FS_EmptySet
  <2>3. OnStack(stack, q) = 0
    BY StackEmpty DEF Init
  <2>4. InReactions(reactions, q) = 0
    <3>1. \A p \in Promises : KidLists(reactions)[p] = <<>>
      BY KidsEmpty DEF Init, KidLists
    <3>2. Grid(KidLists(reactions), Promises, q) = {}
      BY <3>1 DEF Grid
    <3> QED
      BY <3>2, FS_EmptySet DEF InReactions, Total
  <2>5. Bit(q \in held) = 0 /\ Bit(q \in owed) = 0
    BY DEF Init, Bit
  <2> QED
    BY <2>2, <2>3, <2>4, <2>5 DEF Needed, Needs, Moved
<1> QED
  BY <1>1 DEF Balanced, Init

-----------------------------------------------------------------------------
(* What keeps the promises of active functions: a frame further out.       *)

\* A frame that has a reference of p, or whose function was called with p
Supports(f, p, res) ==
  \/ f.op = "release" /\ p \in Range(f.todo)
  \/ f.op = "method" /\ f.p = p
  \/ f.op = "ended" /\ res[f.k] = p
  \/ f.op = "combined" /\ f.p = p

Propped(s, n, p, res) == \E j \in 1 .. n : Supports(s[j], p, res)
Carries(s, n, q) == \E j \in 1 .. n : s[j].op = "release" /\ q \in Range(s[j].todo)

\* What the frame f uses is kept by one of the n frames under it, or by Lua.
Secure(s, n, f, res, h) ==
  /\ f.op \in {"react", "handle", "notify"} => Propped(s, n, f.p, res)
  /\ f.op = "handle" => Carries(s, n, f.r.child)
  /\ f.op = "method" => f.p \in h

Stands(s, res, h) ==
  s \in Seq(Frames) /\ \A i \in 1 .. Len(s) : Secure(s, i - 1, s[i], res, h)

Self(f) == f.op \in {"release", "run", "ended", "combined"}

LEMMA SecureSelf == ASSUME NEW f, Self(f), NEW s, NEW n, NEW res, NEW h
  PROVE Secure(s, n, f, res, h)
  BY DEF Self, Secure

LEMMA SecureSame ==
  ASSUME NEW s, NEW t, NEW n, \A j \in 1 .. n : t[j] = s[j], NEW f, NEW res, NEW h
  PROVE Secure(t, n, f, res, h) <=> Secure(s, n, f, res, h)
  BY DEF Secure, Propped, Carries

LEMMA StandsPush ==
  ASSUME NEW s, NEW res, NEW h, Stands(s, res, h), NEW f \in Frames, Secure(s, Len(s), f, res, h)
  PROVE Stands(Append(s, f), res, h)
<1>1. s \in Seq(Frames)
  BY DEF Stands
<1>2. PICK n \in Nat : n = Len(s)
  BY <1>1
<1>3. PICK t : t = Append(s, f)
  OBVIOUS
<1>4. t \in Seq(Frames) /\ Len(t) = n + 1 /\ t[n + 1] = f /\ \A i \in 1 .. n : t[i] = s[i]
  BY <1>1, <1>2, <1>3
<1>5. ASSUME NEW i \in 1 .. n + 1 PROVE Secure(t, i - 1, t[i], res, h)
  <2>1. CASE i \in 1 .. n
    <3>1. Secure(s, i - 1, s[i], res, h)
      BY <1>2, <2>1 DEF Stands
    <3>2. PICK m : m = i - 1
      OBVIOUS
    <3>3. \A j \in 1 .. m : t[j] = s[j]
      BY <1>2, <1>4, <2>1, <3>2
    <3>4. Secure(t, m, s[i], res, h) <=> Secure(s, m, s[i], res, h)
      BY <3>3, SecureSame
    <3> QED
      BY <1>4, <2>1, <3>1, <3>2, <3>4
  <2>2. CASE i = n + 1
    <3>1. Secure(t, n, f, res, h) <=> Secure(s, n, f, res, h)
      BY <1>4, SecureSame
    <3>2. i - 1 = n
      BY <1>2, <2>2
    <3> QED
      BY <1>2, <1>4, <2>2, <3>1, <3>2
  <2> QED
    BY <1>2, <2>1, <2>2
<1> QED
  BY <1>3, <1>4, <1>5 DEF Stands

LEMMA StandsPop == ASSUME NEW s, NEW res, NEW h, Stands(s, res, h), s # <<>>
  PROVE /\ Stands(Front(s), res, h) /\ s[Len(s)] \in Frames
        /\ Secure(Front(s), Len(Front(s)), s[Len(s)], res, h)
<1>1. s \in Seq(Frames)
  BY DEF Stands
<1>2. PICK n : n = Len(s) - 1
  OBVIOUS
<1>3. n \in Nat /\ Len(s) = n + 1 /\ n + 1 \in 1 .. Len(s)
  BY <1>1, <1>2
<1>4. PICK t : t = Front(s)
  OBVIOUS
<1>5. t \in Seq(Frames) /\ Len(t) = n /\ \A i \in 1 .. n : t[i] = s[i]
  BY <1>1, <1>2, <1>4, StackPop
<1>6. ASSUME NEW i \in 1 .. n + 1 PROVE Secure(t, i - 1, s[i], res, h)
  <2>1. PICK m : m = i - 1
    OBVIOUS
  <2>2. \A j \in 1 .. m : t[j] = s[j]
    BY <1>3, <1>5, <2>1
  <2>3. Secure(t, m, s[i], res, h) <=> Secure(s, m, s[i], res, h)
    BY <2>2, SecureSame
  <2> QED
    BY <1>3, <2>1, <2>3 DEF Stands
<1>7. Secure(t, n, s[n + 1], res, h)
  <2>1. n + 1 \in 1 .. n + 1 /\ (n + 1) - 1 = n
    BY <1>3
  <2> QED
    BY <1>6, <2>1
<1>8. \A i \in 1 .. n : Secure(t, i - 1, t[i], res, h)
  <2>1. ASSUME NEW i \in 1 .. n PROVE Secure(t, i - 1, t[i], res, h)
    <3>1. i \in 1 .. n + 1 /\ t[i] = s[i]
      BY <1>3, <1>5
    <3> QED
      BY <1>6, <3>1
  <2> QED
    BY <2>1
<1> QED
  BY <1>1, <1>3, <1>4, <1>5, <1>7, <1>8 DEF Stands

\* The programme keeps what functions were called with, and results stay.
LEMMA StandsAge ==
  ASSUME NEW s, NEW res, NEW h, NEW new, NEW g, Stands(s, res, h),
         \A i \in 1 .. Len(s) : /\ s[i].op = "method" /\ s[i].p \in h => s[i].p \in g
                                /\ s[i].op = "ended" => new[s[i].k] = res[s[i].k]
  PROVE Stands(s, new, g)
<1>1. ASSUME NEW i \in 1 .. Len(s) PROVE Secure(s, i - 1, s[i], new, g)
  <2>1. Secure(s, i - 1, s[i], res, h)
    BY DEF Stands
  <2>2. PICK m : m = i - 1
    OBVIOUS
  <2>3. \A j \in 1 .. m : j \in 1 .. Len(s)
    <3>1. Len(s) \in Nat
      BY DEF Stands
    <3> QED
      BY <2>2, <3>1
  <2>4. ASSUME NEW p, Propped(s, m, p, res) PROVE Propped(s, m, p, new)
    BY <2>3, <2>4 DEF Propped, Supports
  <2> QED
    BY <2>1, <2>2, <2>4 DEF Secure
<1> QED
  BY <1>1 DEF Stands

LEMMA StandsSettle ==
  ASSUME Typed, NEW p \in Promises, NEW st, NEW b, NEW res, NEW h, Stands(b, res, h),
         Propped(b, Len(b), p, res), Settle(p, st, b)
  PROVE Stands(stack', res, h)
<1>1. CASE ~Pending(p)
  BY <1>1 DEF Settle
<1>2. CASE Pending(p)
  <2>1. PICK f \in Frames : f = Notify(p)
    BY FrameMade
  <2>2. PICK g \in Frames : g = React(p, reactions[p])
    BY FrameMade DEF Typed
  <2>3. PICK c : c = Append(b, f)
    OBVIOUS
  <2>4. b \in Seq(Frames)
    BY DEF Stands
  <2>5. Stands(c, res, h)
    <3>1. Secure(b, Len(b), f, res, h)
      BY <2>1 DEF Secure, Notify
    <3> QED
      BY <2>3, <3>1, StandsPush
  <2>6. Secure(c, Len(c), g, res, h)
    <3>1. PICK n \in Nat : n = Len(b)
      BY <2>4
    <3>2. Len(c) = n + 1 /\ \A j \in 1 .. n : c[j] = b[j] /\ j \in 1 .. n + 1
      BY <2>3, <2>4, <3>1
    <3>3. Propped(c, n + 1, p, res)
      BY <3>1, <3>2 DEF Propped
    <3> QED
      BY <2>2, <3>2, <3>3 DEF Secure, React
  <2>7. Stands(Append(c, g), res, h)
    BY <2>5, <2>6, StandsPush
  <2>8. stack' = Append(c, g)
    BY <1>2, <2>1, <2>2, <2>3, <2>4 DEF Settle
  <2> QED
    BY <2>7, <2>8
<1> QED
  BY <1>1, <1>2

\* What is under a frame is also under the next ones; the last supports.
LEMMA ProppedPush ==
  ASSUME NEW s \in Seq(Frames), NEW f \in Frames, NEW p, NEW res,
         Propped(s, Len(s), p, res) \/ Supports(f, p, res)
  PROVE Propped(Append(s, f), Len(Append(s, f)), p, res)
<1>1. PICK n \in Nat : n = Len(s)
  OBVIOUS
<1>2. PICK t : t = Append(s, f)
  OBVIOUS
<1>3. /\ Len(t) = n + 1 /\ t[n + 1] = f /\ n + 1 \in 1 .. n + 1
      /\ \A i \in 1 .. n : t[i] = s[i] /\ i \in 1 .. n + 1
  BY <1>1, <1>2
<1> QED
  BY <1>1, <1>2, <1>3 DEF Propped

LEMMA CarriesPush ==
  ASSUME NEW s \in Seq(Frames), NEW f \in Frames, NEW q,
         Carries(s, Len(s), q) \/ (f.op = "release" /\ q \in Range(f.todo))
  PROVE Carries(Append(s, f), Len(Append(s, f)), q)
<1>1. PICK n \in Nat : n = Len(s)
  OBVIOUS
<1>2. PICK t : t = Append(s, f)
  OBVIOUS
<1>3. /\ Len(t) = n + 1 /\ t[n + 1] = f /\ n + 1 \in 1 .. n + 1
      /\ \A i \in 1 .. n : t[i] = s[i] /\ i \in 1 .. n + 1
  BY <1>1, <1>2
<1> QED
  BY <1>1, <1>2, <1>3 DEF Carries

LEMMA CarriesProps == ASSUME NEW s, NEW n, NEW q, Carries(s, n, q), NEW res
  PROVE Propped(s, n, q, res)
  BY DEF Carries, Propped, Supports

Standing == Stands(stack, result, held)

LEMMA StandTop == ASSUME Standing, stack # <<>>
  PROVE /\ Stands(Below, result, held) /\ Top \in Frames /\ Below \in Seq(Frames)
        /\ Secure(Below, Len(Below), Top, result, held)
<1>1. PICK s, res, h : s = stack /\ res = result /\ h = held
  OBVIOUS
<1>2. Stands(s, res, h) /\ s # <<>>
  BY <1>1 DEF Standing
<1>3. /\ Stands(Front(s), res, h) /\ s[Len(s)] \in Frames
      /\ Secure(Front(s), Len(Front(s)), s[Len(s)], res, h)
  BY <1>2, StandsPop
<1>4. Front(s) \in Seq(Frames)
  BY <1>3 DEF Stands
<1> QED
  BY <1>1, <1>3, <1>4 DEF Top, Below

LEMMA StandNext ==
  ASSUME NEW s, Stands(s, result, held), stack' = s, held \subseteq held', result' = result
  PROVE Standing'
<1>1. PICK res, h, g : res = result /\ h = held /\ g = held'
  OBVIOUS
<1>2. Stands(s, res, h) /\ h \subseteq g
  BY <1>1
<1>3. Stands(s, res, g)
  BY <1>2, StandsAge
<1> QED
  BY <1>1, <1>3 DEF Standing

\* A frame that keeps itself
LEMMA StandSelf == ASSUME NEW s, NEW res, NEW h, Stands(s, res, h), NEW f \in Frames, Self(f)
  PROVE Stands(Append(s, f), res, h)
<1>1. Secure(s, Len(s), f, res, h)
  BY SecureSelf
<1> QED
  BY <1>1, StandsPush

LEMMA StandTwo ==
  ASSUME NEW s, NEW res, NEW h, Stands(s, res, h), NEW f \in Frames, NEW g \in Frames,
         Secure(s, Len(s), f, res, h), Self(g)
  PROVE Stands(s \o <<f, g>>, res, h)
<1>1. PICK c : c = Append(s, f)
  OBVIOUS
<1>2. Stands(c, res, h)
  BY <1>1, StandsPush
<1>3. Stands(Append(c, g), res, h)
  BY <1>2, StandSelf
<1>4. s \o <<f, g>> = Append(c, g)
  BY <1>1 DEF Stands
<1> QED
  BY <1>3, <1>4

\* A promise is settled, and what was under it stays.
LEMMA StandSettled ==
  ASSUME Base, NEW p \in Promises, NEW st, NEW b, Stands(b, result, held),
         Propped(b, Len(b), p, result), Settle(p, st, b), held' = held, result' = result
  PROVE Standing'
<1>1. PICK res, h : res = result /\ h = held
  OBVIOUS
<1>2. Stands(b, res, h) /\ Propped(b, Len(b), p, res)
  BY <1>1
<1>3. Stands(stack', res, h)
  BY <1>2, StandsSettle DEF Base
<1> QED
  BY <1>1, <1>3 DEF Standing

LEMMA StandingReaction == ASSUME Base, Standing, RunReaction PROVE Standing'
<1>1. stack # <<>> /\ Top.op = "react" /\ Top.todo # <<>>
  BY DEF RunReaction, At
<1>2. PICK res, h, b : res = result /\ h = held /\ b = Below
  OBVIOUS
<1>3. PICK t \in Frames : t = Top
  BY <1>1, StandTop
<1>4. /\ Stands(b, res, h) /\ b \in Seq(Frames) /\ Propped(b, Len(b), t.p, res)
  BY <1>1, <1>2, <1>3, StandTop DEF Secure
<1>5. PICK p, r, todo : p = t.p /\ r = Head(t.todo) /\ todo = Tail(t.todo)
  OBVIOUS
<1>6. p \in Promises /\ r \in Reaction /\ todo \in Seq(Reaction)
  <2>1. t.p \in Promises /\ t.todo \in Seq(Reaction) /\ t.todo # <<>>
    BY <1>1, <1>3, FrameKinds
  <2> QED
    BY <1>5, <2>1
<1>7. r.child \in Promises
  BY <1>6 DEF Reaction
<1>8. PICK f \in Frames : f = React(p, todo)
  BY <1>6, FrameMade
<1>9. PICK g \in Frames : g = Release(<<r.child>>)
  <2>1. <<r.child>> \in Seq(Promises)
    BY <1>7
  <2> QED
    BY <2>1, FrameMade
<1>10. PICK c : c = Append(b, f)
  OBVIOUS
<1>11. PICK rest : rest = Append(c, g)
  OBVIOUS
<1>12. Secure(b, Len(b), f, res, h) /\ Self(g) /\ g.op = "release" /\ r.child \in Range(g.todo)
  <2>1. Range(<<r.child>>) = {r.child}
    BY DEF Range
  <2> QED
    BY <1>4, <1>5, <1>8, <1>9, <2>1 DEF Secure, React, Self, Release
<1>13. Stands(c, res, h) /\ c \in Seq(Frames)
  <2>1. Stands(c, res, h)
    BY <1>4, <1>10, <1>12, StandsPush
  <2> QED
    BY <2>1 DEF Stands
<1>14. Stands(rest, res, h) /\ rest \in Seq(Frames)
  <2>1. Stands(rest, res, h)
    BY <1>11, <1>12, <1>13, StandSelf
  <2> QED
    BY <2>1 DEF Stands
<1>15. Propped(rest, Len(rest), p, res) /\ Carries(rest, Len(rest), r.child)
  <2>1. Propped(c, Len(c), p, res)
    BY <1>4, <1>5, <1>10, ProppedPush
  <2>2. Propped(rest, Len(rest), p, res)
    BY <1>11, <1>13, <2>1, ProppedPush
  <2>3. Carries(rest, Len(rest), r.child)
    BY <1>11, <1>12, <1>13, CarriesPush
  <2> QED
    BY <2>2, <2>3
<1>16. rest = b \o <<f, g>>
  BY <1>4, <1>10, <1>11
<1>17. \/ stack' = rest
       \/ stack' = Append(rest, Handle(p, r))
       \/ Settle(r.child, state[p], rest)
  BY <1>2, <1>3, <1>5, <1>8, <1>9, <1>16 DEF RunReaction
<1>18. held' = held /\ result' = result
  BY DEF RunReaction, routineVars
<1>19. CASE stack' = rest
  BY <1>2, <1>14, <1>18, <1>19, StandNext
<1>20. CASE stack' = Append(rest, Handle(p, r))
  <2>1. PICK e \in Frames : e = Handle(p, r)
    BY <1>6, FrameMade
  <2>2. Secure(rest, Len(rest), e, res, h)
    BY <1>15, <2>1 DEF Secure, Handle
  <2>3. Stands(Append(rest, e), res, h)
    BY <1>14, <2>2, StandsPush
  <2> QED
    BY <1>2, <1>18, <1>20, <2>1, <2>3, StandNext
<1>21. CASE Settle(r.child, state[p], rest)
  <2>1. Propped(rest, Len(rest), r.child, res)
    BY <1>15, CarriesProps
  <2> QED
    BY <1>2, <1>7, <1>14, <1>18, <1>21, <2>1, StandSettled
<1> QED
  BY <1>17, <1>19, <1>20, <1>21

LEMMA StandingHandler == ASSUME Base, Standing, NEW ok \in BOOLEAN, HandlerEnds(ok) PROVE Standing'
<1>1. stack # <<>> /\ Top.op = "handle"
  BY DEF HandlerEnds, At
<1>2. PICK t \in Frames : t = Top
  BY <1>1, StandTop
<1>3. PICK q \in Promises : q = t.r.child
  BY <1>1, <1>2, FrameKinds DEF Reaction
<1>4. Stands(Below, result, held) /\ Carries(Below, Len(Below), q)
  BY <1>1, <1>2, <1>3, StandTop DEF Secure
<1>5. PICK b, res : b = Below /\ res = result
  OBVIOUS
<1>6. Propped(b, Len(b), q, res)
  BY <1>4, <1>5, CarriesProps
<1>7. (\E st : Settle(q, st, b)) /\ held' = held /\ result' = result
  BY <1>2, <1>3, <1>5 DEF HandlerEnds, routineVars
<1> QED
  BY <1>4, <1>5, <1>6, <1>7, StandSettled

LEMMA StandingPops == ASSUME Base, Standing, ReactionsDone \/ Return \/ NotifyNobody PROVE Standing'
<1>1. stack # <<>> /\ stack' = Below /\ held' = held /\ result' = result
  BY DEF ReactionsDone, Return, NotifyNobody, At, routineVars
<1> QED
  BY <1>1, StandTop, StandNext

\* One frame is replaced by one that keeps itself, and perhaps nothing else.
LEMMA StandingSwap ==
  ASSUME Standing, stack # <<>>, NEW f \in Frames, Self(f),
         stack' = Append(Below, f), held' = held, result' = result
  PROVE Standing'
<1>1. PICK b, res, h : b = Below /\ res = result /\ h = held
  OBVIOUS
<1>2. Stands(b, res, h)
  BY <1>1, StandTop
<1>3. Stands(Append(b, f), res, h)
  BY <1>2, StandSelf
<1> QED
  BY <1>1, <1>3, StandNext

LEMMA StandingPush ==
  ASSUME Standing, NEW f \in Frames, Self(f), stack' = Append(stack, f), held \subseteq held', result' = result
  PROVE Standing'
<1>1. PICK b, res, h : b = stack /\ res = result /\ h = held
  OBVIOUS
<1>2. Stands(b, res, h)
  BY <1>1 DEF Standing
<1>3. Stands(Append(b, f), res, h)
  BY <1>2, StandSelf
<1> QED
  BY <1>1, <1>3, StandNext

LEMMA StandingRelease == ASSUME Base, Standing, ReleaseStep PROVE Standing'
<1>1. stack # <<>> /\ Top.op = "release" /\ held' = held /\ result' = result
  BY DEF ReleaseStep, At, routineVars
<1>2. PICK t \in Frames : t = Top
  BY <1>1, StandTop
<1>3. t.todo \in Seq(Promises)
  BY <1>1, <1>2, FrameKinds
<1>4. CASE t.todo = <<>>
  <2>1. stack' = Below
    BY <1>2, <1>4 DEF ReleaseStep
  <2> QED
    BY <1>1, <2>1, StandTop, StandNext
<1>5. CASE t.todo # <<>>
  <2>1. PICK p, rest : p = Head(t.todo) /\ rest = Tail(t.todo)
    OBVIOUS
  <2>2. p \in Promises /\ rest \in Seq(Promises)
    BY <1>3, <1>5, <2>1
  <2>3. PICK x : x = reactions[p]
    OBVIOUS
  <2>4. KidsOf(x) \in Seq(Promises)
    BY <2>2, <2>3, KidsType DEF Base, Typed
  <2>5. stack' = Append(Below, Release(rest)) \/ stack' = Append(Below, Release(KidsOf(x) \o rest))
    BY <1>2, <1>5, <2>1, <2>3 DEF ReleaseStep, KidsOf
  <2>6. KidsOf(x) \o rest \in Seq(Promises)
    BY <2>2, <2>4, OccConcat
  <2>7. PICK f \in Frames, g \in Frames : f = Release(rest) /\ g = Release(KidsOf(x) \o rest)
    BY <2>2, <2>6, FrameMade
  <2>8. Self(f) /\ Self(g)
    BY <2>7 DEF Self, Release
  <2>9. stack' = Append(Below, f) \/ stack' = Append(Below, g)
    BY <2>5, <2>7
  <2> QED
    BY <1>1, <2>8, <2>9, StandingSwap
<1> QED
  BY <1>4, <1>5

LEMMA StackFrames == ASSUME Standing PROVE stack \in Seq(Frames)
  BY DEF Standing, Stands

LEMMA StandingComplete ==
  ASSUME Base, Standing, NEW p \in Promises, NEW st, Complete(p, st) PROVE Standing'
<1>1. PICK s, res, h : s = stack /\ res = result /\ h = held
  OBVIOUS
<1>2. Stands(s, res, h) /\ s \in Seq(Frames)
  BY <1>1, StackFrames DEF Standing
<1>3. PICK f \in Frames : f = Release(<<p>>)
  <2>1. <<p>> \in Seq(Promises)
    OBVIOUS
  <2> QED
    BY <2>1, FrameMade
<1>4. Self(f) /\ f.op = "release" /\ p \in Range(f.todo)
  <2>1. Range(<<p>>) = {p}
    BY DEF Range
  <2> QED
    BY <1>3, <2>1 DEF Self, Release
<1>5. Stands(Append(s, f), res, h)
  BY <1>2, <1>4, StandSelf
<1>6. Propped(Append(s, f), Len(Append(s, f)), p, res)
  BY <1>2, <1>4, ProppedPush DEF Supports
<1>7. PICK b : b = Append(s, f)
  OBVIOUS
<1>8. Settle(p, st, b) /\ held' = held /\ result' = result
  BY <1>1, <1>3, <1>7 DEF Complete, routineVars
<1> QED
  BY <1>1, <1>5, <1>6, <1>7, <1>8, StandSettled

\* A function that Lua calls with a promise, and what it then does with it
LEMMA StandMethod ==
  ASSUME NEW s, NEW res, NEW h, Stands(s, res, h), NEW p \in Promises, p \in h,
         NEW f \in Frames, f.op = "method", f.p = p
  PROVE /\ Secure(s, Len(s), f, res, h)
        /\ Stands(Append(s, f), res, h)
        /\ Propped(Append(s, f), Len(Append(s, f)), p, res)
<1>1. Secure(s, Len(s), f, res, h)
  BY DEF Secure
<1>2. s \in Seq(Frames)
  BY DEF Stands
<1>3. Supports(f, p, res)
  BY DEF Supports
<1> QED
  BY <1>1, <1>2, <1>3, StandsPush, ProppedPush

LEMMA StandingCancel ==
  ASSUME Base, Standing, NEW p \in Promises, Cancel(p) PROVE Standing'
<1>1. PICK s, res, h : s = stack /\ res = result /\ h = held
  OBVIOUS
<1>2. Stands(s, res, h) /\ p \in h
  BY <1>1 DEF Standing, Cancel, Usable
<1>3. PICK f \in Frames : f = Method(p, None)
  BY FrameMade
<1>4. f.op = "method" /\ f.p = p
  BY <1>3 DEF Method
<1>5. PICK b : b = Append(s, f)
  OBVIOUS
<1>6. Stands(b, res, h) /\ Propped(b, Len(b), p, res)
  BY <1>2, <1>4, <1>5, StandMethod
<1>7. Settle(p, "rejected", b) /\ held' = held /\ result' = result
  BY <1>1, <1>3, <1>5 DEF Cancel, routineVars
<1> QED
  BY <1>1, <1>6, <1>7, StandSettled

LEMMA StandingChain ==
  ASSUME Base, Standing, NEW p \in Promises, NEW c \in Promises,
         NEW kind \in {"then", "catch", "finally"}, NEW h \in BOOLEAN, Chain(p, c, kind, h)
  PROVE Standing'
<1>1. PICK s, res, lua : s = stack /\ res = result /\ lua = held
  OBVIOUS
<1>2. Stands(s, res, lua) /\ p \in lua /\ s \in Seq(Frames)
  BY <1>1, StackFrames DEF Standing, Chain, Usable
<1>3. PICK r \in Reaction : r = [kind |-> kind, handler |-> h, child |-> c]
  BY DEF Reaction
<1>4. PICK y : y = <<r>> \o reactions[p] /\ y \in Seq(Reaction)
  <2>1. reactions[p] \in Seq(Reaction)
    BY DEF Base, Typed
  <2>2. <<r>> \o reactions[p] \in Seq(Reaction)
    BY <2>1
  <2> QED
    BY <2>2
<1>5. PICK f \in Frames : f = Method(p, c)
  BY FrameMade
<1>6. PICK g \in Frames : g = React(p, y)
  BY <1>4, FrameMade
<1>7. stack' = s \/ stack' = s \o <<f, g>>
  BY <1>1, <1>3, <1>4, <1>5, <1>6 DEF Chain
<1>8. held \subseteq held' /\ result' = result
  BY DEF Chain, routineVars
<1>9. PICK b : b = Append(s, f)
  OBVIOUS
<1>10. Stands(b, res, lua) /\ Propped(b, Len(b), p, res)
  BY <1>2, <1>5, <1>9, StandMethod DEF Method
<1>11. Secure(b, Len(b), g, res, lua)
  BY <1>6, <1>10 DEF Secure, React
<1>12. Stands(Append(b, g), res, lua)
  BY <1>10, <1>11, StandsPush
<1>13. s \o <<f, g>> = Append(b, g)
  BY <1>2, <1>9
<1> QED
  BY <1>1, <1>2, <1>7, <1>8, <1>12, <1>13, StandNext

LEMMA StandingCollect ==
  ASSUME Base, Standing, NEW p \in Promises, Collect(p) PROVE Standing'
<1>1. PICK s, res, h, g : s = stack /\ res = result /\ h = held /\ g = held'
  OBVIOUS
<1>2. Stands(s, res, h)
  BY <1>1 DEF Standing
<1>3. \A i \in 1 .. Len(s) : s[i].op = "method" => s[i].p # p
  BY <1>1 DEF Collect, Active
<1>4. g = h \ {p} /\ result' = result
  BY <1>1 DEF Collect, routineVars
<1>5. Stands(s, res, g)
  BY <1>2, <1>3, <1>4, StandsAge
<1>6. PICK f \in Frames : f = Release(<<p>>)
  <2>1. <<p>> \in Seq(Promises)
    OBVIOUS
  <2> QED
    BY <2>1, FrameMade
<1>7. Self(f)
  BY <1>6 DEF Self, Release
<1>8. Stands(Append(s, f), res, g)
  BY <1>5, <1>7, StandSelf
<1>9. stack' = Append(s, f)
  BY <1>1, <1>6 DEF Collect
<1> QED
  BY <1>1, <1>4, <1>8, <1>9 DEF Standing

\* A function settles a promise that the next one on its way keeps.
LEMMA StandingSettles ==
  ASSUME Base, Standing, stack # <<>>, NEW p \in Promises, NEW st, NEW f \in Frames, Self(f),
         Supports(f, p, result), Settle(p, st, Append(Below, f)), held' = held, result' = result
  PROVE Standing'
<1>1. PICK b, res, h : b = Below /\ res = result /\ h = held
  OBVIOUS
<1>2. Stands(b, res, h) /\ b \in Seq(Frames) /\ Supports(f, p, res)
  BY <1>1, StandTop
<1>3. Stands(Append(b, f), res, h) /\ Propped(Append(b, f), Len(Append(b, f)), p, res)
  BY <1>2, StandSelf, ProppedPush
<1>4. PICK c : c = Append(b, f)
  OBVIOUS
<1> QED
  BY <1>1, <1>3, <1>4, StandSettled

LEMMA StandingNotify == ASSUME Base, Standing, NotifyCombination PROVE Standing'
<1>1. stack # <<>> /\ slot[Top.p] \in Promises /\ held' = held /\ result' = result
  BY DEF NotifyCombination, At, routineVars
<1>2. PICK c \in Promises : c = slot[Top.p]
  BY <1>1
<1>3. PICK f \in Frames : f = Combined(c)
  BY FrameMade
<1>4. Self(f) /\ Supports(f, c, result)
  BY <1>3 DEF Self, Supports, Combined
<1>5. stack' = Below \/ \E st : Settle(c, st, Append(Below, f))
  BY <1>2, <1>3 DEF NotifyCombination
<1> QED
  BY <1>1, <1>4, <1>5, StandTop, StandNext, StandingSettles

LEMMA StandingRoutine == ASSUME Base, Standing, NEW ok \in BOOLEAN, RoutineEnds(ok) PROVE Standing'
<1>1. stack # <<>> /\ Top.op = "run" /\ held' = held /\ result' = result
  BY DEF RoutineEnds, At, routineVars
<1>2. PICK k, p : k = Top.k /\ p = result[k]
  OBVIOUS
<1>3. k \in Routines /\ p \in Promises
  BY <1>1, <1>2, TopRuns
<1>4. PICK f \in Frames : f = Ended(k, ~ok)
  BY <1>3, FrameMade
<1>5. Self(f) /\ Supports(f, p, result)
  BY <1>2, <1>4 DEF Self, Supports, Ended
<1>6. \E st : Settle(p, st, Append(Below, f))
  BY <1>2, <1>4 DEF RoutineEnds
<1> QED
  BY <1>1, <1>3, <1>5, <1>6, StandingSettles

LEMMA StandingEnds == ASSUME Base, Standing, CombinationEnds PROVE Standing'
<1>1. stack # <<>> /\ Top.op = "combined" /\ held' = held /\ result' = result
  BY DEF CombinationEnds, At, routineVars
<1>2. Top.p \in Promises
  <2>1. PICK t \in Frames : t = Top
    BY <1>1, StandTop
  <2> QED
    BY <1>1, <2>1, FrameKinds
<1>3. PICK ins : ins = combi[Top.p].ins
  OBVIOUS
<1>4. ins \in Seq(Promises)
  BY <1>2, <1>3 DEF Base, Typed, Combi
<1>5. PICK f \in Frames : f = Release(ins)
  BY <1>4, FrameMade
<1>6. Self(f) /\ stack' = Append(Below, f)
  BY <1>3, <1>5 DEF CombinationEnds, Self, Release
<1> QED
  BY <1>1, <1>6, StandingSwap

LEMMA StandingResume == ASSUME Base, Standing, NotifyRoutine PROVE Standing'
<1>1. PICK k : k = slot[Top.p]
  OBVIOUS
<1>2. /\ stack # <<>> /\ k \in Routines /\ held' = held /\ result' = result
      /\ stack' = Append(Below, Run(k, FALSE))
  BY <1>1 DEF NotifyRoutine, At
<1>3. PICK f \in Frames : f = Run(k, FALSE)
  BY <1>2, FrameMade
<1>4. Self(f)
  BY <1>3 DEF Self, Run
<1> QED
  BY <1>2, <1>3, <1>4, StandingSwap

LEMMA StandingFreed == ASSUME Base, Standing, RoutineFreed PROVE Standing'
<1>1. stack # <<>> /\ Top.op = "ended" /\ held' = held /\ result' = result
  BY DEF RoutineFreed, At
<1>2. PICK k : k = Top.k
  OBVIOUS
<1>3. k \in Routines
  BY <1>1, <1>2, TopRuns
<1>4. stack' = Below \/ (stack' = Append(Below, Release(Old(k))) /\ waiting[k] # None)
  BY <1>2 DEF RoutineFreed, Old
<1>5. CASE stack' = Below
  BY <1>1, <1>5, StandTop, StandNext
<1>6. CASE stack' = Append(Below, Release(Old(k))) /\ waiting[k] # None
  <2>1. Old(k) \in Seq(Promises)
    BY <1>3, <1>6 DEF Old, Base, Typed
  <2>2. PICK f \in Frames : f = Release(Old(k))
    BY <2>1, FrameMade
  <2>3. Self(f)
    BY <2>2 DEF Self, Release
  <2> QED
    BY <1>1, <1>6, <2>2, <2>3, StandingSwap
<1> QED
  BY <1>4, <1>5, <1>6

LEMMA StandingAwait ==
  ASSUME Base, Standing, NEW p \in Promises, AwaitKeyword(p) \/ AwaitFunction(p) PROVE Standing'
<1>1. stack # <<>> /\ Top.op = "run" /\ held' = held /\ result' = result
  BY DEF AwaitKeyword, AwaitFunction, At
<1>2. PICK k : k = Top.k
  OBVIOUS
<1>3. k \in Routines
  BY <1>1, <1>2, TopRuns
<1>4. PICK old : old = Old(k)
  OBVIOUS
<1>5. old \in Seq(Promises)
  BY <1>3, <1>4 DEF Old, Base, Typed
<1>6. PICK f \in Frames, g \in Frames : f = Run(k, FALSE) /\ g = Release(old)
  BY <1>3, <1>5, FrameMade
<1>7. Self(f) /\ Self(g)
  BY <1>6 DEF Self, Run, Release
<1>8. stack' = Below \/ stack' = Append(Below, g) \/ stack' = Below \o <<f, g>>
  BY <1>2, <1>4, <1>6 DEF AwaitKeyword, AwaitFunction, Old
<1>9. CASE stack' = Below
  BY <1>1, <1>9, StandTop, StandNext
<1>10. CASE stack' = Append(Below, g)
  BY <1>1, <1>7, <1>10, StandingSwap
<1>11. CASE stack' = Below \o <<f, g>>
  <2>1. PICK b, res, h : b = Below /\ res = result /\ h = held
    OBVIOUS
  <2>2. Stands(b, res, h)
    BY <1>1, <2>1, StandTop
  <2>3. Stands(b \o <<f, g>>, res, h)
    BY <1>7, <2>2, SecureSelf, StandTwo
  <2> QED
    BY <1>1, <1>11, <2>1, <2>3, StandNext
<1> QED
  BY <1>8, <1>9, <1>10, <1>11

LEMMA StandingAsync ==
  ASSUME Base, Standing, NEW k \in Routines, NEW p \in Promises, Async(k, p) PROVE Standing'
<1>1. PICK s, res, h, new, lua :
        s = stack /\ res = result /\ h = held /\ new = result' /\ lua = held'
  OBVIOUS
<1>2. Stands(s, res, h)
  BY <1>1 DEF Standing
<1>3. PICK f \in Frames, g \in Frames : f = Method(p, p) /\ g = Run(k, TRUE)
  BY FrameMade
<1>4. phase[k] = "new" /\ lua = h \cup {p} /\ new = [res EXCEPT ![k] = p] /\ stack' = s \o <<f, g>>
  BY <1>1, <1>3 DEF Async
<1>5. ~Going(s, k)
  BY <1>1, <1>4 DEF Base, Runs
<1>6. \A i \in 1 .. Len(s) : s[i].op = "ended" => s[i].k # k
  BY <1>5 DEF Going, Has, Same, Run
<1>7. res \in [Routines -> Promises \cup {None}]
  BY <1>1 DEF Base, Typed
<1>8. \A i \in 1 .. Len(s) : s[i].op = "ended" => new[s[i].k] = res[s[i].k]
  <2>1. \A i \in 1 .. Len(s) : s[i].op = "ended" => s[i].k \in Routines
    BY <1>2, FrameKinds DEF Stands
  <2> QED
    BY <1>4, <1>6, <1>7, <2>1
<1>9. Stands(s, new, lua)
  BY <1>2, <1>4, <1>8, StandsAge
<1>10. f.op = "method" /\ f.p = p /\ p \in lua /\ Self(g)
  BY <1>3, <1>4 DEF Method, Self, Run
<1>11. Secure(s, Len(s), f, new, lua)
  BY <1>9, <1>10, StandMethod
<1>12. Stands(s \o <<f, g>>, new, lua)
  BY <1>9, <1>10, <1>11, StandTwo
<1> QED
  BY <1>1, <1>4, <1>12 DEF Standing

LEMMA StandingStep == ASSUME Base, Standing, Next PROVE Standing'
<1>1. CASE Native
  BY <1>1, StandingReaction, StandingPops, StandingRelease, StandingNotify, StandingEnds,
     StandingResume, StandingFreed DEF Native
<1>2. ASSUME NEW ok \in BOOLEAN, HandlerEnds(ok) \/ RoutineEnds(ok) PROVE Standing'
  BY <1>2, StandingHandler, StandingRoutine
<1>3. ASSUME NEW p \in Promises, New(p) PROVE Standing'
  <2>1. stack' = stack /\ held \subseteq held' /\ result' = result
    BY <1>3 DEF New, routineVars
  <2> QED
    BY <2>1, StandNext DEF Standing
<1>4. ASSUME NEW p \in Promises, Cancel(p) \/ Collect(p) \/ AwaitKeyword(p) \/ AwaitFunction(p)
      PROVE Standing'
  BY <1>4, StandingCancel, StandingCollect, StandingAwait
<1>5. ASSUME NEW p \in Promises, NEW st \in {"fulfilled", "rejected"}, Complete(p, st)
      PROVE Standing'
  BY <1>5, StandingComplete
<1>6. ASSUME NEW p \in Promises, NEW c \in Promises,
             NEW kind \in {"then", "catch", "finally"}, NEW h \in BOOLEAN, Chain(p, c, kind, h)
      PROVE Standing'
  BY <1>6, StandingChain
<1>7. ASSUME NEW mode \in Modes, NEW ins \in Lists, NEW c \in Promises, Combine(mode, ins, c)
      PROVE Standing'
  <2>1. stack' = stack /\ held \subseteq held' /\ result' = result
    BY <1>7 DEF Combine, routineVars
  <2> QED
    BY <2>1, StandNext DEF Standing
<1>8. ASSUME NEW k \in Routines, NEW p \in Promises, Async(k, p) PROVE Standing'
  BY <1>8, StandingAsync
<1> QED
  BY <1>1, <1>2, <1>3, <1>4, <1>5, <1>6, <1>7, <1>8 DEF Next

-----------------------------------------------------------------------------
(* Who is still to be settled is held; and nothing that is used was freed. *)

Guarded ==
  /\ freed \subseteq Promises
  /\ \A k \in Routines : phase[k] \notin {"new", "done"} => result[k] \in held
  /\ \A c \in Promises : combi[c].live => c \in held

\* Only the collector takes a promise from Lua, only a release frees one.
LEMMA HeldGrows == ASSUME Next
  PROVE held \subseteq held' \/ \E p \in Promises : Collect(p)
<1>1. CASE Native
  BY <1>1 DEF Native, RunReaction, ReactionsDone, ReleaseStep, Return, NotifyCombination,
     CombinationEnds, NotifyRoutine, NotifyNobody, RoutineFreed
<1>2. ASSUME NEW ok \in BOOLEAN, HandlerEnds(ok) \/ RoutineEnds(ok) PROVE held' = held
  BY <1>2 DEF HandlerEnds, RoutineEnds
<1>3. ASSUME NEW p \in Promises, New(p) \/ Cancel(p) \/ AwaitKeyword(p) \/ AwaitFunction(p)
      PROVE held \subseteq held'
  BY <1>3 DEF New, Cancel, AwaitKeyword, AwaitFunction
<1>4. ASSUME NEW p \in Promises, NEW st \in {"fulfilled", "rejected"}, Complete(p, st)
      PROVE held' = held
  BY <1>4 DEF Complete
<1>5. ASSUME NEW p \in Promises, NEW c \in Promises,
             NEW kind \in {"then", "catch", "finally"}, NEW h \in BOOLEAN, Chain(p, c, kind, h)
      PROVE held \subseteq held'
  BY <1>5 DEF Chain
<1>6. ASSUME NEW mode \in Modes, NEW ins \in Lists, NEW c \in Promises, Combine(mode, ins, c)
      PROVE held \subseteq held'
  BY <1>6 DEF Combine
<1>7. ASSUME NEW k \in Routines, NEW p \in Promises, Async(k, p) PROVE held \subseteq held'
  BY <1>7 DEF Async
<1> QED
  BY <1>1, <1>2, <1>3, <1>4, <1>5, <1>6, <1>7 DEF Next

LEMMA FreedGrows == ASSUME Base, Next
  PROVE \/ freed' = freed
        \/ /\ stack # <<>> /\ Top.op = "release" /\ UNCHANGED state
           /\ \E p \in Promises : p \in Range(Top.todo) /\ freed' = freed \cup {p} /\ ~(refs[p] > 1)
<1>1. CASE ReleaseStep
  <2>1. stack # <<>> /\ Top.op = "release" /\ UNCHANGED state
    BY <1>1 DEF ReleaseStep, At
  <2>2. PICK t \in Frames : t = Top
    BY <2>1, TopOf
  <2>3. t.todo \in Seq(Promises)
    BY <2>1, <2>2, FrameKinds
  <2>4. CASE t.todo # <<>>
    <3>1. Head(t.todo) \in Promises /\ Head(t.todo) \in Range(t.todo)
      BY <2>3, <2>4 DEF Range
    <3>2. freed' = freed \/ (freed' = freed \cup {Head(t.todo)} /\ ~(refs[Head(t.todo)] > 1))
      BY <1>1, <2>2, <2>4 DEF ReleaseStep
    <3> QED
      BY <2>1, <2>2, <3>1, <3>2
  <2>5. CASE t.todo = <<>>
    BY <1>1, <2>2, <2>5 DEF ReleaseStep
  <2> QED
    BY <2>4, <2>5
<1>2. CASE Native /\ ~ReleaseStep
  BY <1>2 DEF Native, RunReaction, ReactionsDone, Return, NotifyCombination, heapVars,
     CombinationEnds, NotifyRoutine, NotifyNobody, RoutineFreed
<1>3. ASSUME NEW ok \in BOOLEAN, HandlerEnds(ok) \/ RoutineEnds(ok) PROVE freed' = freed
  BY <1>3 DEF HandlerEnds, RoutineEnds
<1>4. ASSUME NEW p \in Promises,
             New(p) \/ Cancel(p) \/ Collect(p) \/ AwaitKeyword(p) \/ AwaitFunction(p)
      PROVE freed' = freed
  BY <1>4 DEF New, Cancel, Collect, AwaitKeyword, AwaitFunction, heapVars
<1>5. ASSUME NEW p \in Promises, NEW st \in {"fulfilled", "rejected"}, Complete(p, st)
      PROVE freed' = freed
  BY <1>5 DEF Complete
<1>6. ASSUME NEW p \in Promises, NEW c \in Promises,
             NEW kind \in {"then", "catch", "finally"}, NEW h \in BOOLEAN, Chain(p, c, kind, h)
      PROVE freed' = freed
  BY <1>6 DEF Chain
<1>7. ASSUME NEW mode \in Modes, NEW ins \in Lists, NEW c \in Promises, Combine(mode, ins, c)
      PROVE freed' = freed
  BY <1>7 DEF Combine
<1>8. ASSUME NEW k \in Routines, NEW p \in Promises, Async(k, p) PROVE freed' = freed
  BY <1>8 DEF Async
<1> QED
  BY <1>1, <1>2, <1>3, <1>4, <1>5, <1>6, <1>7, <1>8 DEF Next

LEMMA GuardedStep == ASSUME ~Forgetful, Base, Guarded, Next PROVE Guarded'
<1>1. freed' \subseteq Promises
  <2>1. freed' = freed \/ \E p \in Promises : freed' = freed \cup {p}
    BY FreedGrows
  <2> QED
    BY <2>1 DEF Guarded
<1>2. ASSUME NEW p \in Promises, Collect(p) PROVE Guarded'
  <2>1. ~Promised(p) /\ held' = held \ {p} /\ UNCHANGED <<routineVars, combi>>
    BY <1>2 DEF Collect
  <2> QED
    BY <1>1, <2>1 DEF Guarded, Promised, routineVars
<1>3. CASE held \subseteq held' /\ Plain
  BY <1>1, <1>3 DEF Plain, Guarded, routineVars
<1>4. ASSUME held \subseteq held',
             NEW mode \in Modes, NEW ins \in Lists, NEW c \in Promises, Combine(mode, ins, c)
      PROVE Guarded'
  <2>1. c \in held'
    BY <1>4 DEF Combine
  <2>2. /\ UNCHANGED routineVars /\ \A p \in Promises : p # c => combi'[p] = combi[p]
    BY <1>4, CombineEffect
  <2> QED
    BY <1>1, <1>4, <2>1, <2>2 DEF Guarded, routineVars
<1>5. ASSUME held \subseteq held', NEW k \in Routines, NEW p \in Promises, Async(k, p) PROVE Guarded'
  <2>1. p \in held'
    BY <1>5 DEF Async
  <2>2. /\ combi' = combi /\ result'[k] = p /\ phase'[k] = "running"
        /\ \A j \in Routines : j # k => result'[j] = result[j] /\ phase'[j] = phase[j]
    BY <1>5, AsyncEffect
  <2> QED
    BY <1>1, <1>5, <2>1, <2>2 DEF Guarded
<1>6. ASSUME held \subseteq held', NEW p \in Promises, AwaitKeyword(p) \/ AwaitFunction(p)
      PROVE Guarded'
  <2>1. PICK k \in Routines : /\ phase[k] = "running" /\ UNCHANGED <<result, combi>>
                              /\ \A j \in Routines : j # k => phase'[j] = phase[j]
    BY <1>6, AwaitEffect
  <2> QED
    BY <1>1, <1>6, <2>1 DEF Guarded
<1>7. CASE held \subseteq held' /\ NotifyCombination
  <2>1. PICK c \in Promises : /\ UNCHANGED routineVars
                              /\ \A b \in Promises : b # c => combi'[b] = combi[b]
                              /\ combi'[c].live = combi[c].live
    BY <1>7, NotifyEffect
  <2> QED
    BY <1>1, <1>7, <2>1 DEF Guarded, routineVars
<1>8. CASE held \subseteq held' /\ CombinationEnds
  <2>1. PICK c \in Promises : /\ UNCHANGED routineVars
                              /\ \A b \in Promises : b # c => combi'[b] = combi[b]
                              /\ ~combi'[c].live
    BY <1>8, EndEffect
  <2> QED
    BY <1>1, <1>8, <2>1 DEF Guarded, routineVars
<1>9. CASE held \subseteq held' /\ NotifyRoutine
  <2>1. PICK p \in Promises, k \in Routines :
          /\ slot[p] = k /\ UNCHANGED <<result, combi>>
          /\ \A j \in Routines : j # k => phase'[j] = phase[j]
    BY <1>9, ResumeEffect
  <2>2. phase[k] = "asleep"
    BY <2>1 DEF Base, Sleeps
  <2> QED
    BY <1>1, <1>9, <2>1, <2>2 DEF Guarded
<1>10. CASE held \subseteq held' /\ NotifyNobody
  BY <1>1, <1>10 DEF NotifyNobody, Guarded, routineVars
<1>11. CASE held \subseteq held' /\ RoutineFreed
  <2>1. PICK k \in Routines : /\ UNCHANGED <<result, combi>> /\ phase'[k] = "done"
                              /\ \A j \in Routines : j # k => phase'[j] = phase[j]
    BY <1>11, FreedEffect
  <2> QED
    BY <1>1, <1>11, <2>1 DEF Guarded
<1> QED
  BY <1>2, <1>3, <1>4, <1>5, <1>6, <1>7, <1>8, <1>9, <1>10, <1>11, HeldGrows, Steps

-----------------------------------------------------------------------------
\* Somewhere in a list of a grid is somewhere in the grid.
LEMMA GridSome ==
  ASSUME NEW D, IsFiniteSet(D), NEW T, NEW L, \A d \in D : L[d] \in Seq(T), NEW q,
         NEW d \in D, q \in Range(L[d])
  PROVE Total(L, D, q) > 0
<1>1. PICK i \in 1 .. Len(L[d]) : L[d][i] = q
  BY DEF Range
<1>2. L[d] \in Seq(T)
  OBVIOUS
<1>3. i \in Nat
  BY <1>2
<1>4. <<d, i>> \in Grid(L, D, q)
  BY <1>1, <1>3 DEF Grid
<1>5. IsFiniteSet(Grid(L, D, q)) /\ Total(L, D, q) \in Nat
  BY GridFinite
<1>6. Total(L, D, q) # 0
  BY <1>4, <1>5, FS_EmptySet DEF Total
<1> QED
  BY <1>5, <1>6

LEMMA StackSome == ASSUME NEW s \in Seq(Frames), NEW i \in 1 .. Len(s), NEW q, q \in Range(Load(s[i]))
  PROVE OnStack(s, q) > 0
<1>1. PICK L, D : L = Loads(s) /\ D = 1 .. Len(s)
  OBVIOUS
<1>2. IsFiniteSet(D) /\ \A d \in D : L[d] \in Seq(Promises)
  <2>1. IsFiniteSet(1 .. Len(s))
    BY FS_Interval
  <2> QED
    BY <1>1, <2>1, StackCount
<1>3. q \in Range(L[i])
  BY <1>1 DEF Loads
<1>4. Total(L, D, q) > 0
  BY <1>1, <1>2, <1>3, GridSome
<1> QED
  BY <1>1, <1>4 DEF OnStack

LEMMA ReactionsSome ==
  ASSUME IsFiniteSet(Promises), NEW x \in [Promises -> Seq(Reaction)], NEW p \in Promises,
         NEW q, q \in Range(KidsOf(x[p]))
  PROVE InReactions(x, q) > 0
<1>1. PICK L : L = KidLists(x)
  OBVIOUS
<1>2. \A d \in Promises : L[d] \in Seq(Promises)
  BY <1>1, ReactionsType
<1>3. q \in Range(L[p])
  BY <1>1 DEF KidLists
<1>4. Total(L, Promises, q) > 0
  BY <1>2, <1>3, GridSome
<1> QED
  BY <1>1, <1>4 DEF InReactions

Cared == Base /\ Balanced /\ Lasts /\ Standing /\ Guarded

\* Memory that a frame, a reaction, a coroutine or a combination uses is there.
LEMMA LoadAlive == ASSUME Whole, Cared, NEW i \in 1 .. Len(stack), NEW q \in Promises,
                          q \in Range(Load(stack[i]))
  PROVE q \notin freed
<1>1. PICK s : s = stack
  OBVIOUS
<1>2. s \in Seq(Frames)
  BY <1>1 DEF Cared, Base, Good
<1>3. OnStack(s, q) > 0 /\ OnStack(s, q) \in Nat
  BY <1>1, <1>2, StackSome, StackCount
<1>4. PICK r : r = InReactions(reactions, q)
  OBVIOUS
<1>5. r \in Nat
  BY <1>4, ReactionsNat DEF Cared
<1>6. Moved(stack, reactions, q) > 0
  BY <1>1, <1>3, <1>4, <1>5 DEF Moved
<1> QED
  BY <1>6, Counted DEF Cared

LEMMA KidAlive == ASSUME Whole, Cared, NEW p \in Promises, NEW k \in 1 .. Len(reactions[p])
  PROVE reactions[p][k].child \in Promises /\ reactions[p][k].child \notin freed
<1>1. PICK x : x = reactions
  OBVIOUS
<1>2. x \in [Promises -> Seq(Reaction)]
  BY <1>1 DEF Cared, Base, Typed
<1>3. PICK q : q = x[p][k].child
  OBVIOUS
<1>4. q \in Promises
  <2>1. x[p][k] \in Reaction
    BY <1>1, <1>2
  <2> QED
    BY <1>3, <2>1 DEF Reaction
<1>5. q \in Range(KidsOf(x[p]))
  BY <1>1, <1>3 DEF KidsOf, Range
<1>6. InReactions(x, q) > 0 /\ InReactions(x, q) \in Nat
  BY <1>2, <1>5, ReactionsSome, ReactionsType DEF Whole
<1>7. PICK s : s = stack
  OBVIOUS
<1>8. OnStack(s, q) \in Nat
  <2>1. s \in Seq(Frames)
    BY <1>7 DEF Cared, Base, Good
  <2> QED
    BY <2>1, StackCount
<1>9. Moved(stack, reactions, q) > 0
  BY <1>1, <1>6, <1>7, <1>8 DEF Moved
<1>10. q \notin freed
  BY <1>4, <1>9, Counted DEF Cared
<1> QED
  BY <1>1, <1>3, <1>4, <1>10

LEMMA RoutineAlive == ASSUME Whole, Cared, NEW k \in Routines
  PROVE waiting[k] \notin freed /\ (phase[k] \notin {"new", "done"} => result[k] \notin freed)
<1>1. waiting[k] \in Promises \cup {None} /\ None \notin Promises /\ freed \subseteq Promises
  BY Distinct DEF Cared, Base, Typed, Guarded
<1>2. waiting[k] \in Promises => k \in Waiters(waiting, waiting[k])
  BY DEF Waiters
<1>3. waiting[k] \notin freed
  BY <1>1, <1>2, Counted DEF Cared
<1>4. \A q \in held : q \notin freed
  BY Counted DEF Cared, Base, Typed
<1> QED
  BY <1>3, <1>4 DEF Cared, Guarded

LEMMA GoesOn == ASSUME Base, NEW i \in 1 .. Len(stack)
  PROVE /\ stack[i].op \in {"run", "ended"} => stack[i].k \in Routines /\ phase[stack[i].k] = "running"
        /\ stack[i].op = "combined" => stack[i].p \in Promises /\ Ending(stack, stack[i].p)
<1>1. stack[i] \in Frames
  BY DEF Base, Good
<1>2. CASE stack[i].op \in {"run", "ended"}
  <2>1. stack[i].k \in Routines
    BY <1>1, <1>2, FrameKinds
  <2>2. Going(stack, stack[i].k)
    BY <1>2 DEF Going, Has, Same, Run
  <2> QED
    BY <1>2, <2>1, <2>2 DEF Base, Runs
<1>3. CASE stack[i].op = "combined"
  BY <1>1, <1>3, FrameKinds DEF Ending, Has, Same, Combined
<1> QED
  BY <1>2, <1>3

LEMMA SupportAlive == ASSUME Whole, Cared, NEW i \in 1 .. Len(stack), NEW p \in Promises,
                             Supports(stack[i], p, result)
  PROVE p \notin freed
<1>1. \A q \in held : q \notin freed
  BY Counted DEF Cared, Base, Typed
<1>2. CASE stack[i].op = "release" /\ p \in Range(stack[i].todo)
  BY <1>2, LoadAlive DEF Load
<1>3. CASE stack[i].op = "method" /\ stack[i].p = p
  <2>1. Secure(stack, i - 1, stack[i], result, held)
    BY DEF Cared, Standing, Stands
  <2> QED
    BY <1>1, <1>3, <2>1 DEF Secure
<1>4. CASE stack[i].op = "ended" /\ result[stack[i].k] = p
  <2>1. stack[i].k \in Routines /\ phase[stack[i].k] = "running"
    BY <1>4, GoesOn DEF Cared
  <2> QED
    BY <1>4, <2>1, RoutineAlive
<1>5. CASE stack[i].op = "combined" /\ stack[i].p = p
  <2>1. Ending(stack, p)
    BY <1>5, GoesOn DEF Cared
  <2>2. p \in held
    BY <2>1 DEF Cared, Lasts, Guarded
  <2> QED
    BY <1>1, <2>2
<1> QED
  BY <1>2, <1>3, <1>4, <1>5 DEF Supports

LEMMA ProppedAlive == ASSUME Whole, Cared, NEW i \in 1 .. Len(stack), NEW p \in Promises,
                             Propped(stack, i - 1, p, result)
  PROVE p \notin freed
<1>1. Len(stack) \in Nat
  BY DEF Cared, Base, Good
<1>2. PICK j \in 1 .. i - 1 : Supports(stack[j], p, result)
  BY DEF Propped
<1>3. j \in 1 .. Len(stack)
  BY <1>1, <1>2
<1> QED
  BY <1>2, <1>3, SupportAlive

Uses(f) ==
  CASE f.op \in {"react", "handle", "notify", "combined", "method"} -> {f.p}
    [] f.op = "release" -> Range(f.todo)
    [] f.op \in {"run", "ended"} -> {result[f.k], waiting[f.k]}

LEMMA UseAlive == ASSUME Whole, Cared, NEW i \in 1 .. Len(stack), NEW p, p \in Uses(stack[i])
  PROVE p \notin freed
<1>1. PICK f \in Frames : f = stack[i]
  BY DEF Cared, Base, Good
<1>2. Secure(stack, i - 1, f, result, held)
  BY <1>1 DEF Cared, Standing, Stands
<1>3. \A q \in held : q \notin freed
  BY Counted DEF Cared, Base, Typed
<1>4. CASE f.op \in {"react", "handle", "notify"}
  <2>1. p = f.p /\ p \in Promises
    BY <1>1, <1>4, FrameKinds DEF Uses
  <2>2. Propped(stack, i - 1, p, result)
    BY <1>2, <1>4, <2>1 DEF Secure
  <2> QED
    BY <2>1, <2>2, ProppedAlive
<1>5. CASE f.op = "combined"
  <2>1. p = f.p /\ p \in Promises
    BY <1>1, <1>5, FrameKinds DEF Uses
  <2> QED
    BY <1>1, <1>5, <2>1, SupportAlive DEF Supports
<1>6. CASE f.op = "method"
  <2>1. p = f.p
    BY <1>1, <1>6 DEF Uses
  <2> QED
    BY <1>2, <1>3, <1>6, <2>1 DEF Secure
<1>7. CASE f.op = "release"
  <2>1. p \in Range(f.todo) /\ f.todo \in Seq(Promises)
    BY <1>1, <1>7, FrameKinds DEF Uses
  <2>2. p \in Promises
    BY <2>1 DEF Range
  <2> QED
    BY <1>1, <1>7, <2>1, <2>2, LoadAlive DEF Load
<1>8. CASE f.op \in {"run", "ended"}
  <2>1. f.k \in Routines /\ phase[f.k] = "running"
    BY <1>1, <1>8, GoesOn DEF Cared
  <2>2. p \in {result[f.k], waiting[f.k]}
    BY <1>1, <1>8 DEF Uses
  <2> QED
    BY <2>1, <2>2, RoutineAlive
<1> QED
  BY <1>1, <1>4, <1>5, <1>6, <1>7, <1>8 DEF Frames

LEMMA AllAlive == ASSUME Whole, Cared PROVE Alive
<1>1. InUse \cap freed = {}
  <2> SUFFICES ASSUME NEW p \in InUse PROVE p \notin freed
    OBVIOUS
  <2>1. InUse = UNION {Uses(f) : f \in Range(stack)} \ {None}
    BY DEF InUse, Uses
  <2>2. PICK f \in Range(stack) : p \in Uses(f)
    BY <2>1
  <2>3. PICK i \in 1 .. Len(stack) : f = stack[i]
    BY DEF Range
  <2> QED
    BY <2>2, <2>3, UseAlive
<1>2. held \cap freed = {} /\ owed \cap freed = {}
  BY Counted DEF Cared, Base, Typed
<1>3. \A c \in Promises : combi[c].live => c \notin freed /\ Inputs(c) \cap freed = {}
  <2>1. ASSUME NEW c \in Promises, combi[c].live, NEW q \in Inputs(c) PROVE q \notin freed
    <3>1. combi[c].ins \in Seq(Promises)
      BY DEF Cared, Base, Typed, Combi
    <3>2. q \in Promises /\ c \in Feeders(combi, q)
      BY <2>1, <3>1 DEF Inputs, Range, Feeders
    <3> QED
      BY <3>2, Counted DEF Cared
  <2> QED
    BY <1>2, <2>1 DEF Cared, Guarded
<1>4. \A k \in Routines : phase[k] = "asleep" => {result[k], waiting[k]} \cap freed = {}
  BY RoutineAlive
<1> QED
  BY <1>1, <1>2, <1>3, <1>4, KidAlive DEF Alive

LEMMA CaredInit == ASSUME Whole, Init PROVE Cared
<1>1. Balanced
  BY BalancedInit DEF Whole
<1>2. Standing
  <2>1. stack = <<>> /\ stack \in Seq(Frames) /\ Len(stack) = 0
    BY DEF Init
  <2> QED
    BY <2>1 DEF Standing, Stands
<1>3. Guarded
  BY DEF Init, Guarded, NoCombi
<1> QED
  BY <1>1, <1>2, <1>3, BaseInit, LastsInit DEF Cared

LEMMA CaredStep == ASSUME ~Forgetful, Whole, Cared, [Next]_vars PROVE Cared'
<1>1. CASE Next
  BY <1>1, BaseStep, BalancedNext, LastsStep, StandingStep, GuardedStep DEF Cared
<1>2. CASE UNCHANGED vars
  <2>1. Base' /\ Balanced'
    BY <1>2, BaseStep, BalancedSame DEF Cared
  <2>2. Lasts' /\ Guarded'
    BY <1>2 DEF Cared, Lasts, Guarded, vars, heapVars, routineVars
  <2>3. Standing'
    BY <1>2 DEF Cared, Standing, vars, routineVars
  <2> QED
    BY <2>1, <2>2, <2>3 DEF Cared
<1> QED
  BY <1>1, <1>2

LEMMA CaredHolds ==
  ASSUME ~Forgetful, IsFiniteSet(Promises), IsFiniteSet(Routines) PROVE Spec => []Cared
<1>1. Whole
  BY DEF Whole
<1>2. Init => Cared
  BY <1>1, CaredInit
<1>3. Cared /\ [Next]_vars => Cared'
  BY <1>1, CaredStep
<1> QED
  BY <1>2, <1>3, PTL DEF Spec

\* No function, reaction, event, coroutine or combination uses memory that was
\* given back, in programs that keep the results of coroutines that have not
\* ended and of combinations whose context lives: each promise counts at least
\* as many references as there are places that will release it (Balanced), and
\* a function that uses a promise without a reference of its own runs inside
\* one that has it (Standing).
THEOREM PromisesAlive ==
  ASSUME ~Forgetful, IsFiniteSet(Promises), IsFiniteSet(Routines) PROVE Spec => []Alive
<1>1. Whole
  BY DEF Whole
<1>2. Cared => Alive
  BY <1>1, AllAlive
<1> QED
  BY <1>2, CaredHolds, PTL

-----------------------------------------------------------------------------
(* Links: the reactions that promises and active functions still have.     *)

Link(call, p, r) == [call |-> call, parent |-> p, r |-> r]

ListLinks(p, x) == {Link(FALSE, p, r) : r \in Range(x)}

LinksOf(f) ==
  IF f.op = "react" THEN ListLinks(f.p, f.todo)
  ELSE IF f.op = "handle" THEN {Link(TRUE, f.p, f.r)} ELSE {}

StackLinks(s) == UNION {LinksOf(s[i]) : i \in 1 .. Len(s)}
HeapLinks(x) == UNION {ListLinks(p, x[p]) : p \in Promises}

Links == HeapLinks(reactions) \cup StackLinks(stack)

LEMMA LinksPush == ASSUME NEW s \in Seq(Frames), NEW f \in Frames
  PROVE StackLinks(Append(s, f)) = StackLinks(s) \cup LinksOf(f)
<1>1. PICK n \in Nat : n = Len(s)
  OBVIOUS
<1>2. PICK t : t = Append(s, f)
  OBVIOUS
<1>3. Len(t) = n + 1 /\ t[n + 1] = f /\ \A i \in 1 .. n : t[i] = s[i]
  BY <1>1, <1>2
<1>4. 1 .. n + 1 = (1 .. n) \cup {n + 1}
  OBVIOUS
<1>5. \A l : (\E i \in 1 .. n + 1 : l \in LinksOf(t[i])) <=> (\E i \in 1 .. n : l \in LinksOf(s[i])) \/ l \in LinksOf(f)
  <2> SUFFICES ASSUME NEW l
               PROVE (\E i \in 1 .. n + 1 : l \in LinksOf(t[i]))
                       <=> (\E i \in 1 .. n : l \in LinksOf(s[i])) \/ l \in LinksOf(f)
    OBVIOUS
  <2>1. ASSUME NEW i \in 1 .. n + 1, l \in LinksOf(t[i])
        PROVE (\E j \in 1 .. n : l \in LinksOf(s[j])) \/ l \in LinksOf(f)
    BY <2>1, <1>3, <1>4
  <2>2. ASSUME NEW i \in 1 .. n, l \in LinksOf(s[i]) PROVE \E j \in 1 .. n + 1 : l \in LinksOf(t[j])
    BY <2>2, <1>3, <1>4
  <2>3. ASSUME l \in LinksOf(f) PROVE \E j \in 1 .. n + 1 : l \in LinksOf(t[j])
    BY <2>3, <1>3, <1>4
  <2> QED
    BY <2>1, <2>2, <2>3
<1>6. Len(t) = n + 1 /\ Len(s) = n
  BY <1>1, <1>3
<1>7. \A l : l \in StackLinks(t) <=> l \in StackLinks(s) \/ l \in LinksOf(f)
  BY <1>5, <1>6 DEF StackLinks
<1> QED
  BY <1>2, <1>7

LEMMA LinksPop == ASSUME NEW s \in Seq(Frames), s # <<>>
  PROVE StackLinks(s) = StackLinks(Front(s)) \cup LinksOf(s[Len(s)])
<1>1. PICK b, f : b = Front(s) /\ f = s[Len(s)]
  OBVIOUS
<1>2. /\ b \in Seq(Frames) /\ f \in Frames /\ Len(b) = Len(s) - 1
      /\ \A i \in 1 .. Len(s) - 1 : b[i] = s[i]
  BY <1>1, StackPop
<1>3. s = Append(b, f)
  BY <1>1, <1>2
<1> QED
  BY <1>1, <1>2, <1>3, LinksPush

LEMMA LinksNone == ASSUME NEW f, f.op \notin {"react", "handle"} PROVE LinksOf(f) = {}
  BY DEF LinksOf

LEMMA LinksReact == ASSUME NEW p, NEW x
  PROVE LinksOf(React(p, x)) = ListLinks(p, x)
  BY DEF LinksOf, React

LEMMA LinksTwo == ASSUME NEW s \in Seq(Frames), NEW f \in Frames, NEW g \in Frames
  PROVE StackLinks(s \o <<f, g>>) = StackLinks(s) \cup LinksOf(f) \cup LinksOf(g)
<1>1. PICK c \in Seq(Frames) : c = Append(s, f)
  BY StackPush
<1>2. s \o <<f, g>> = Append(c, g)
  BY <1>1
<1> QED
  BY <1>1, <1>2, LinksPush

LEMMA TopLinks == ASSUME Base, stack # <<>>
  PROVE /\ Below \in Seq(Frames) /\ Top \in Frames
        /\ StackLinks(stack) = StackLinks(Below) \cup LinksOf(Top)
<1>1. PICK s : s = stack
  OBVIOUS
<1>2. s \in Seq(Frames) /\ s # <<>>
  BY <1>1 DEF Base, Good
<1>3. StackLinks(s) = StackLinks(Front(s)) \cup LinksOf(s[Len(s)])
  BY <1>2, LinksPop
<1>4. Front(s) \in Seq(Frames) /\ s[Len(s)] \in Frames
  BY <1>2, StackPop
<1> QED
  BY <1>1, <1>3, <1>4 DEF Top, Below

\* Another list in the place of one
LEMMA HeapSwap ==
  ASSUME NEW x, NEW p \in Promises, NEW z, \A q \in Promises : q # p => z[q] = x[q]
  PROVE /\ \A l : l \in HeapLinks(z) => l \in HeapLinks(x) \/ l \in ListLinks(p, z[p])
        /\ \A l : l \in HeapLinks(x) => l \in HeapLinks(z) \/ l \in ListLinks(p, x[p])
        /\ \A l : l \in ListLinks(p, z[p]) => l \in HeapLinks(z)
        /\ \A l : l \in ListLinks(p, x[p]) => l \in HeapLinks(x)
<1>1. /\ \A l : l \in HeapLinks(z) <=> \E q \in Promises : l \in ListLinks(q, z[q])
      /\ \A l : l \in HeapLinks(x) <=> \E q \in Promises : l \in ListLinks(q, x[q])
  BY DEF HeapLinks
<1>2. \A q \in Promises : q # p => ListLinks(q, z[q]) = ListLinks(q, x[q])
  OBVIOUS
<1> QED
  BY <1>1, <1>2, Zenon

\* Settling moves reactions from the heap to the stack.
LEMMA SettleLinks ==
  ASSUME Typed, NEW p \in Promises, NEW st, NEW b \in Seq(Frames), Settle(p, st, b)
  PROVE Links' = HeapLinks(reactions) \cup StackLinks(b)
<1>1. CASE ~Pending(p)
  BY <1>1 DEF Settle, Links
<1>2. CASE Pending(p)
  <2>1. PICK x \in [Promises -> Seq(Reaction)] : x = reactions
    BY DEF Typed
  <2>2. PICK f \in Frames, g \in Frames : f = Notify(p) /\ g = React(p, x[p])
    BY FrameMade
  <2>3. PICK z : z = [x EXCEPT ![p] = <<>>]
    OBVIOUS
  <2>4. stack' = b \o <<f, g>> /\ reactions' = z
    BY <1>2, <2>1, <2>2, <2>3 DEF Settle
  <2>5. LinksOf(f) = {} /\ LinksOf(g) = ListLinks(p, x[p])
    BY <2>2, LinksNone, LinksReact DEF Notify
  <2>6. StackLinks(b \o <<f, g>>) = StackLinks(b) \cup LinksOf(f) \cup LinksOf(g)
    BY LinksTwo
  <2>7. z[p] = <<>> /\ \A q \in Promises : q # p => z[q] = x[q]
    BY <2>1, <2>3
  <2>8. ListLinks(p, z[p]) = {}
    BY <2>7 DEF ListLinks, Range
  <2>9. \A l : l \in HeapLinks(x) <=> l \in HeapLinks(z) \/ l \in LinksOf(g)
    BY <2>5, <2>7, <2>8, HeapSwap
  <2>10. Links' = HeapLinks(z) \cup StackLinks(b \o <<f, g>>)
    BY <2>4 DEF Links
  <2> QED
    BY <2>1, <2>5, <2>6, <2>9, <2>10
<1> QED
  BY <1>1, <1>2


-----------------------------------------------------------------------------
(* What a child follows.                                                   *)

Linked(p, r) == \E l \in Links : l.parent = p /\ l.r = r

\* How a settled parent settles the child of a reaction that it runs
Decided(r, st, child) ==
  Matches(r, st) /\ (IF r.kind = "finally" \/ ~r.handler THEN child = st ELSE child \in Ends)

\* A child is settled as its parent says.
Rightly(x) ==
  \/ x.r.child \in cancels
  \/ state[x.r.child] = "pending"
  \/ state[x.parent] \in Ends /\ Decided(x.r, state[x.parent], state[x.r.child])

\* A child that is not settled is linked still, unless its parent was settled
\* in another way, or was given back and will never be settled.
Awaited(x) ==
  \/ x.r.child \in cancels
  \/ state[x.r.child] # "pending"
  \/ Linked(x.parent, x.r)
  \/ state[x.parent] \in Ends /\ ~Matches(x.r, state[x.parent])
  \/ x.parent \in freed /\ state[x.parent] = "pending"

Single == \A x, y \in chains : x.r.child = y.r.child => x = y

\* Links are for reactions that were added; a handler runs if it should.
LinkFits(l, st) ==
  l.call => l.r.handler /\ st[l.parent] \in Ends /\ Matches(l.r, st[l.parent])
Placed == \A l \in Links : [parent |-> l.parent, r |-> l.r] \in chains /\ LinkFits(l, state)

\* Nobody else settles a child.
Alone == Kids \cap owed = {} /\ \A k \in Routines : result[k] \notin Kids

Follows == Single /\ Placed /\ Alone /\ \A x \in chains : Rightly(x) /\ Awaited(x)

\* Steps that settle children as they should, and drop only links that are done
Drives(x) ==
  /\ \/ state'[x.r.child] = state[x.r.child] \/ x.r.child \in cancels'
     \/ state[x.parent] \in Ends /\ Decided(x.r, state[x.parent], state'[x.r.child])
  /\ \/ Linked(x.parent, x.r) => Linked(x.parent, x.r)'
     \/ x.r.child \in cancels' \/ state'[x.r.child] # "pending"
     \/ state[x.parent] \in Ends /\ ~Matches(x.r, state[x.parent])
     \/ x.parent \in freed' /\ state'[x.parent] = "pending"

LEMMA EndsStay == ASSUME Base, Next
  PROVE \A q \in Promises : /\ state[q] \in Ends => state'[q] = state[q]
                            /\ state[q] # "new" => state'[q] # "new"
                            /\ state'[q] = "pending" => state[q] \in {"new", "pending"}
<1>0. \A q \in Promises : state[q] \in States
  BY DEF Base, Typed
<1>1. "pending" # "new" /\ \A st \in Ends : st # "new" /\ st # "pending"
  BY DEF Ends
<1>2. CASE Plain
  BY <1>0, <1>1, <1>2 DEF Plain, States, Ends
<1>3. ASSUME NEW mode \in Modes, NEW ins \in Lists, NEW c \in Promises, Combine(mode, ins, c)
      PROVE \E p \in Promises : /\ state[p] = "new" /\ state'[p] # "new"
                                /\ \A q \in Promises : q # p => state'[q] = state[q]
  <2>1. PICK now \in Ends \cup {None} :
          /\ state[c] = "new" /\ state'[c] = (IF now = None THEN "pending" ELSE now)
          /\ \A p \in Promises : p # c => state'[p] = state[p]
    BY <1>3, CombineEffect
  <2> QED
    BY <1>1, <2>1
<1>4. ASSUME NEW k \in Routines, NEW p \in Promises, Async(k, p)
      PROVE \E c \in Promises : /\ state[c] = "new" /\ state'[c] # "new"
                                /\ \A q \in Promises : q # c => state'[q] = state[q]
  BY <1>1, <1>4, AsyncEffect
<1>5. ASSUME NEW p \in Promises, AwaitKeyword(p) \/ AwaitFunction(p) PROVE state' = state
  BY <1>5 DEF AwaitKeyword, AwaitFunction
<1>6. ASSUME NotifyCombination
      PROVE \E c \in Promises : /\ state'[c] = state[c] \/ (state[c] = "pending" /\ state'[c] \in Ends)
                                /\ \A q \in Promises : q # c => state'[q] = state[q]
  <2>1. PICK c \in Promises : /\ \A b \in Promises : b # c => state'[b] = state[b]
                              /\ (state'[c] = state[c] \/ (Pending(c) /\ state'[c] \in Ends))
    BY <1>6, NotifyEffect
  <2> QED
    BY <2>1 DEF Pending
<1>7. CASE CombinationEnds \/ NotifyRoutine \/ NotifyNobody \/ RoutineFreed
  <2>1. state' = state
    BY <1>7 DEF CombinationEnds, NotifyRoutine, NotifyNobody, RoutineFreed, heapVars
  <2> QED
    BY <1>0, <2>1 DEF States, Ends
<1>8. CASE \E p \in Promises : /\ state[p] = "new" /\ state'[p] # "new"
                               /\ \A q \in Promises : q # p => state'[q] = state[q]
  BY <1>0, <1>1, <1>8 DEF States, Ends
<1>9. CASE \E c \in Promises : /\ state'[c] = state[c] \/ (state[c] = "pending" /\ state'[c] \in Ends)
                               /\ \A q \in Promises : q # c => state'[q] = state[q]
  BY <1>0, <1>1, <1>9 DEF States, Ends
<1>10. CASE state' = state
  BY <1>0, <1>10 DEF States, Ends
<1> QED
  BY <1>2, <1>3, <1>4, <1>5, <1>6, <1>7, <1>8, <1>9, <1>10, Steps

LEMMA AloneStep == ASSUME Base, Apart, Alone, Next PROVE Alone'
<1>0. /\ Kids \subseteq Promises /\ None \notin Promises
      /\ \A q \in Promises : state[q] = "new" => q \notin Others
  BY Distinct DEF Kids, Apart, Reaction
<1>1. CASE Native
  <2>1. UNCHANGED <<chains, owed, result>>
    BY <1>1 DEF Native, RunReaction, ReactionsDone, ReleaseStep, Return, NotifyCombination,
       CombinationEnds, NotifyRoutine, NotifyNobody, RoutineFreed, heapVars, routineVars, historyVars
  <2> QED
    BY <2>1 DEF Alone, Kids
<1>2. ASSUME NEW ok \in BOOLEAN, HandlerEnds(ok) \/ RoutineEnds(ok) PROVE Alone'
  <2>1. UNCHANGED <<chains, owed, result>>
    BY <1>2 DEF HandlerEnds, RoutineEnds, routineVars, historyVars
  <2> QED
    BY <2>1 DEF Alone, Kids
<1>3. ASSUME NEW p \in Promises, Cancel(p) \/ Collect(p) \/ AwaitKeyword(p) \/ AwaitFunction(p)
      PROVE Alone'
  <2>1. UNCHANGED <<chains, owed, result>>
    BY <1>3 DEF Cancel, Collect, AwaitKeyword, AwaitFunction, routineVars, historyVars
  <2> QED
    BY <2>1 DEF Alone, Kids
<1>4. ASSUME NEW p \in Promises, New(p) PROVE Alone'
  <2>1. state[p] = "new" /\ owed' = owed \cup {p} /\ UNCHANGED <<chains, result>>
    BY <1>4 DEF New, Fresh, routineVars, historyVars
  <2> QED
    BY <1>0, <2>1 DEF Alone, Kids, Others
<1>5. ASSUME NEW p \in Promises, NEW st \in {"fulfilled", "rejected"}, Complete(p, st)
      PROVE Alone'
  <2>1. owed' \subseteq owed /\ UNCHANGED <<chains, result>>
    BY <1>5 DEF Complete, routineVars, historyVars
  <2> QED
    BY <2>1 DEF Alone, Kids
<1>6. ASSUME NEW p \in Promises, NEW c \in Promises,
             NEW kind \in {"then", "catch", "finally"}, NEW h \in BOOLEAN, Chain(p, c, kind, h)
      PROVE Alone'
  <2>1. /\ state[c] = "new" /\ UNCHANGED <<owed, result>>
        /\ chains' = chains \cup {[parent |-> p, r |-> [kind |-> kind, handler |-> h, child |-> c]]}
    BY <1>6 DEF Chain, Fresh, routineVars
  <2>2. Kids' = Kids \cup {c}
    <3>1. PICK x : x = [parent |-> p, r |-> [kind |-> kind, handler |-> h, child |-> c]]
      OBVIOUS
    <3>2. chains' = chains \cup {x} /\ x.r.child = c
      BY <2>1, <3>1
    <3> QED
      BY <3>2 DEF Kids
  <2>3. c \notin owed /\ \A k \in Routines : c # result[k]
    BY <1>0, <2>1 DEF Others
  <2> QED
    BY <2>1, <2>2, <2>3 DEF Alone
<1>7. ASSUME NEW mode \in Modes, NEW ins \in Lists, NEW c \in Promises, Combine(mode, ins, c)
      PROVE Alone'
  <2>1. UNCHANGED <<chains, owed, result>>
    BY <1>7 DEF Combine, routineVars, historyVars
  <2> QED
    BY <2>1 DEF Alone, Kids
<1>8. ASSUME NEW k \in Routines, NEW p \in Promises, Async(k, p) PROVE Alone'
  <2>1. /\ state[p] = "new" /\ UNCHANGED <<owed, chains>> /\ result'[k] = p
        /\ \A j \in Routines : j # k => result'[j] = result[j]
    BY <1>8, AsyncEffect DEF historyVars
  <2>2. p \notin Kids /\ Kids' = Kids
    BY <1>0, <2>1 DEF Others, Kids
  <2> QED
    BY <2>1, <2>2 DEF Alone
<1> QED
  BY <1>1, <1>2, <1>3, <1>4, <1>5, <1>6, <1>7, <1>8 DEF Next

\* Steps that add no reaction
LEMMA FollowsOn ==
  ASSUME Base, Apart, Follows, Next, chains' = chains, freed \subseteq freed',
         \A q \in freed : state'[q] = state[q],
         \A l \in Links' : l \in Links \/ ([parent |-> l.parent, r |-> l.r] \in chains /\ LinkFits(l, state)),
         \A x \in chains : Drives(x)
  PROVE Follows'
<1>1. cancels \subseteq cancels' /\ Alone'
  BY CancelsGrow, AloneStep DEF Follows
<1>2. \A q \in Promises : /\ state[q] \in Ends => state'[q] = state[q]
                          /\ state[q] # "new" => state'[q] # "new"
                          /\ state'[q] = "pending" => state[q] \in {"new", "pending"}
  BY EndsStay
<1>3. ASSUME NEW l \in Links' PROVE [parent |-> l.parent, r |-> l.r] \in chains' /\ LinkFits(l, state')
  <2>1. [parent |-> l.parent, r |-> l.r] \in chains /\ LinkFits(l, state)
    BY DEF Follows, Placed
  <2>2. l.parent \in Promises
    BY <2>1 DEF Apart
  <2> QED
    BY <1>2, <2>1, <2>2 DEF LinkFits
<1>4. ASSUME NEW x \in chains PROVE Rightly(x)' /\ Awaited(x)'
  <2>1. x.parent \in Promises /\ x.r.child \in Promises
    BY DEF Apart, Reaction
  <2>2. state[x.r.child] # "new" /\ (state'[x.r.child] = "pending" => state[x.r.child] = "pending")
    BY <1>2, <2>1 DEF Apart, Others, Kids
  <2>3. Rightly(x) /\ Awaited(x) /\ Drives(x)
    BY DEF Follows
  <2>4. Rightly(x)'
    BY <1>1, <1>2, <2>1, <2>2, <2>3 DEF Rightly, Drives, Decided
  <2>5. Awaited(x)'
    BY <1>1, <1>2, <2>1, <2>2, <2>3 DEF Awaited, Drives
  <2> QED
    BY <2>4, <2>5
<1>5. Placed'
  BY <1>3 DEF Placed
<1>6. Single'
  BY DEF Follows, Single
<1>7. \A x \in chains' : Rightly(x)' /\ Awaited(x)'
  BY <1>4
<1> QED
  BY <1>1, <1>5, <1>6, <1>7 DEF Follows

\* Steps that leave links and children as they are
LEMMA Steady ==
  ASSUME Base, Apart, Follows, Next, chains' = chains, freed \subseteq freed',
         \A q \in freed : state'[q] = state[q], Links' = Links,
         \A q \in Kids : state'[q] = state[q] \/ q \in cancels'
  PROVE Follows'
<1>1. \A x \in chains : Drives(x)
  <2> SUFFICES ASSUME NEW x \in chains PROVE Drives(x)
    OBVIOUS
  <2>1. x.r.child \in Kids
    BY DEF Kids
  <2>2. Linked(x.parent, x.r) => Linked(x.parent, x.r)'
    BY DEF Linked
  <2> QED
    BY <2>1, <2>2 DEF Drives
<1>2. \A l \in Links' : l \in Links
  OBVIOUS
<1> QED
  BY <1>1, <1>2, FollowsOn


-----------------------------------------------------------------------------
(* Nobody settles a promise that was given back.                           *)

LEMMA SettleOne == ASSUME Typed, NEW p \in Promises, NEW st, NEW b, Settle(p, st, b)
  PROVE \A q \in Promises : state'[q] = IF q = p /\ Pending(p) THEN st ELSE state[q]
  BY DEF Settle, Typed

LEMMA SettleAlive ==
  ASSUME Cared, NEW p \in Promises, p \notin freed, NEW st, NEW b, Settle(p, st, b)
  PROVE \A q \in freed : state'[q] = state[q]
<1>1. \A q \in Promises : state'[q] = IF q = p /\ Pending(p) THEN st ELSE state[q]
  BY SettleOne DEF Cared, Base
<1> QED
  BY <1>1 DEF Cared, Guarded

\* What the innermost function uses
LEMMA TopAlive == ASSUME Whole, Cared, stack # <<>>, NEW q \in Promises
  PROVE /\ q \in Range(Load(Top)) => q \notin freed
        /\ Top.op = "handle" /\ q = Top.r.child => q \notin freed
<1>1. Len(stack) \in 1 .. Len(stack) /\ Len(stack) \in Nat
  BY DEF Cared, Base, Good
<1>2. ASSUME q \in Range(Load(Top)) PROVE q \notin freed
  BY <1>1, <1>2, LoadAlive DEF Top
<1>3. ASSUME Top.op = "handle", q = Top.r.child PROVE q \notin freed
  <2>1. Secure(stack, Len(stack) - 1, Top, result, held)
    BY <1>1 DEF Cared, Standing, Stands, Top
  <2>2. PICK j \in 1 .. Len(stack) - 1 : stack[j].op = "release" /\ q \in Range(stack[j].todo)
    BY <1>3, <2>1 DEF Secure, Carries
  <2>3. j \in 1 .. Len(stack) /\ q \in Range(Load(stack[j]))
    BY <1>1, <2>2 DEF Load
  <2> QED
    BY <2>3, LoadAlive
<1> QED
  BY <1>2, <1>3

\* The child of the reaction that runs next
LEMMA HeadAlive == ASSUME Whole, Cared, stack # <<>>, Top.op = "react", Top.todo # <<>>
  PROVE Head(Top.todo) \in Reaction /\ Head(Top.todo).child \in Promises \ freed
<1>1. PICK f \in Frames : f = Top
  BY TopOf DEF Cared
<1>2. f.todo \in Seq(Reaction) /\ f.todo # <<>>
  BY <1>1, FrameKinds
<1>3. PICK x \in Seq(Reaction) : x = f.todo
  BY <1>2
<1>4. Head(x) \in Reaction /\ x[1] = Head(x) /\ 1 \in 1 .. Len(x)
  BY <1>2, <1>3
<1>5. Head(x).child \in Promises
  BY <1>4 DEF Reaction
<1>6. KidsOf(x)[1] = Head(x).child /\ Len(KidsOf(x)) = Len(x) /\ KidsOf(x) \in Seq(Promises)
  BY <1>4, KidsType DEF KidsOf
<1>7. Head(x).child \in Range(KidsOf(x))
  <2>1. PICK y : y = KidsOf(x)
    OBVIOUS
  <2>2. DOMAIN y = 1 .. Len(x) /\ y[1] = Head(x).child
    BY <1>6, <2>1
  <2> QED
    BY <1>4, <2>1, <2>2 DEF Range
<1>8. Load(f) = KidsOf(x)
  BY <1>1, <1>3 DEF Load
<1> QED
  BY <1>1, <1>3, <1>4, <1>5, <1>7, <1>8, TopAlive

LEMMA FreedStay == ASSUME Whole, Cared, Next PROVE \A q \in freed : state'[q] = state[q]
<1>0. /\ Base /\ Typed /\ freed \subseteq Promises /\ \A q \in held \cup owed : q \notin freed
      /\ \A q \in Promises : state[q] = "new" => q \notin freed
  BY Counted DEF Cared, Base, Typed, Guarded, Balanced
<1>1. CASE RunReaction
  <2>1. stack # <<>> /\ Top.op = "react" /\ Top.todo # <<>>
    BY <1>1 DEF RunReaction, At
  <2>2. PICK c \in Promises : c = Head(Top.todo).child /\ c \notin freed
    BY <2>1, HeadAlive
  <2>3. state' = state \/ \E st, b : Settle(c, st, b)
    BY <1>1, <2>2 DEF RunReaction
  <2> QED
    BY <2>2, <2>3, SettleAlive
<1>2. ASSUME NEW ok \in BOOLEAN, HandlerEnds(ok) PROVE \A q \in freed : state'[q] = state[q]
  <2>1. stack # <<>> /\ Top.op = "handle"
    BY <1>2 DEF HandlerEnds, At
  <2>2. Top.r.child \in Promises
    <3>1. PICK f \in Frames : f = Top
      BY <1>0, <2>1, TopOf
    <3> QED
      BY <2>1, <3>1, FrameKinds DEF Reaction
  <2>3. Top.r.child \notin freed
    BY <2>1, <2>2, TopAlive
  <2>4. \E st, b : Settle(Top.r.child, st, b)
    BY <1>2 DEF HandlerEnds
  <2> QED
    BY <2>2, <2>3, <2>4, SettleAlive
<1>3. CASE NotifyCombination
  <2>1. PICK c \in Promises : /\ \A b \in Promises : b # c => state'[b] = state[b]
                              /\ state'[c] = state[c] \/ ~combi[c].done
    BY <1>0, <1>3, NotifyEffect
  <2>2. ~combi[c].done => c \notin freed
    BY <1>0 DEF Cared, Lasts, Guarded
  <2> QED
    BY <1>0, <2>1, <2>2
<1>4. ASSUME NEW ok \in BOOLEAN, RoutineEnds(ok) PROVE \A q \in freed : state'[q] = state[q]
  <2>1. stack # <<>> /\ Top.op = "run"
    BY <1>4 DEF RoutineEnds, At
  <2>2. Top.k \in Routines /\ phase[Top.k] = "running" /\ result[Top.k] \in Promises
    BY <1>0, <2>1, TopRuns
  <2>3. result[Top.k] \notin freed
    BY <2>2, RoutineAlive
  <2>4. \E st, b : Settle(result[Top.k], st, b)
    BY <1>4 DEF RoutineEnds
  <2> QED
    BY <2>2, <2>3, <2>4, SettleAlive
<1>5. ASSUME NEW p \in Promises, NEW st \in {"fulfilled", "rejected"}, Complete(p, st)
      PROVE \A q \in freed : state'[q] = state[q]
  <2>1. p \notin freed /\ \E b : Settle(p, st, b)
    BY <1>0, <1>5 DEF Complete
  <2> QED
    BY <2>1, SettleAlive
<1>6. ASSUME NEW p \in Promises, Cancel(p) PROVE \A q \in freed : state'[q] = state[q]
  <2>1. p \notin freed /\ \E st, b : Settle(p, st, b)
    BY <1>0, <1>6 DEF Cancel, Usable
  <2> QED
    BY <2>1, SettleAlive
<1>7. ASSUME NEW c \in Promises, NEW v, state[c] = "new", state' = [state EXCEPT ![c] = v]
      PROVE \A q \in freed : state'[q] = state[q]
  BY <1>0, <1>7 DEF Typed
<1>8. ASSUME NEW p \in Promises, New(p) PROVE \A q \in freed : state'[q] = state[q]
  <2>1. state[p] = "new" /\ state' = [state EXCEPT ![p] = "pending"]
    BY <1>8 DEF New, Fresh
  <2> QED
    BY <1>7, <2>1
<1>9. ASSUME NEW p \in Promises, NEW c \in Promises,
             NEW kind \in {"then", "catch", "finally"}, NEW h \in BOOLEAN, Chain(p, c, kind, h)
      PROVE \A q \in freed : state'[q] = state[q]
  <2>1. state[c] = "new" /\ state' = [state EXCEPT ![c] = "pending"]
    BY <1>9 DEF Chain, Fresh
  <2> QED
    BY <1>7, <2>1
<1>10. ASSUME NEW mode \in Modes, NEW ins \in Lists, NEW c \in Promises, Combine(mode, ins, c)
       PROVE \A q \in freed : state'[q] = state[q]
  <2>1. state[c] = "new" /\ \E v : state' = [state EXCEPT ![c] = v]
    BY <1>10 DEF Combine, Fresh
  <2> QED
    BY <1>7, <2>1
<1>11. ASSUME NEW k \in Routines, NEW p \in Promises, Async(k, p)
       PROVE \A q \in freed : state'[q] = state[q]
  <2>1. state[p] = "new" /\ state' = [state EXCEPT ![p] = "pending"]
    BY <1>11 DEF Async, Fresh
  <2> QED
    BY <1>7, <2>1
<1>12. ASSUME NEW p \in Promises, Collect(p) \/ AwaitKeyword(p) \/ AwaitFunction(p)
       PROVE state' = state
  BY <1>12 DEF Collect, AwaitKeyword, AwaitFunction, heapVars
<1>13. ASSUME Native, ~RunReaction, ~NotifyCombination PROVE state' = state
  BY <1>13 DEF Native, ReactionsDone, ReleaseStep, Return, CombinationEnds, NotifyRoutine,
     NotifyNobody, RoutineFreed, heapVars
<1> QED
  BY <1>1, <1>2, <1>3, <1>4, <1>5, <1>6, <1>8, <1>9, <1>10, <1>11, <1>12, <1>13 DEF Next


-----------------------------------------------------------------------------
(* Children and the steps that run no reaction.                            *)

LEMMA Calm ==
  ASSUME Whole, Cared, Apart, Follows, Next, chains' = chains, Links' = Links,
         \A q \in Kids : state'[q] = state[q] \/ q \in cancels'
  PROVE Follows'
<1>1. freed \subseteq freed' /\ Base
  BY FreedGrows DEF Cared
<1>2. \A q \in freed : state'[q] = state[q]
  BY FreedStay
<1> QED
  BY <1>1, <1>2, Steady

\* Steps that settle nothing and move no reaction
LEMMA Still ==
  ASSUME Whole, Cared, Apart, Follows, Next, UNCHANGED <<state, chains, reactions>>,
         StackLinks(stack') = StackLinks(stack)
  PROVE Follows'
  BY Calm DEF Links

LEMMA PopLinks == ASSUME Base, stack # <<>>, LinksOf(Top) = {}
  PROVE Below \in Seq(Frames) /\ StackLinks(Below) = StackLinks(stack)
  BY TopLinks

LEMMA SwapLinks ==
  ASSUME Base, stack # <<>>, LinksOf(Top) = {}, NEW f \in Frames, LinksOf(f) = {}
  PROVE Append(Below, f) \in Seq(Frames) /\ StackLinks(Append(Below, f)) = StackLinks(stack)
<1>1. PICK b : b = Below
  OBVIOUS
<1>2. b \in Seq(Frames) /\ StackLinks(b) = StackLinks(stack)
  BY <1>1, PopLinks
<1>3. StackLinks(Append(b, f)) = StackLinks(b) \cup LinksOf(f)
  BY <1>2, LinksPush
<1>4. Append(b, f) \in Seq(Frames)
  BY <1>2
<1> QED
  BY <1>1, <1>2, <1>3, <1>4

LEMMA PushLinks == ASSUME Base, NEW f \in Frames, LinksOf(f) = {}
  PROVE Append(stack, f) \in Seq(Frames) /\ StackLinks(Append(stack, f)) = StackLinks(stack)
<1>1. PICK s : s = stack
  OBVIOUS
<1>2. s \in Seq(Frames)
  BY <1>1 DEF Base, Good
<1>3. StackLinks(Append(s, f)) = StackLinks(s) \cup LinksOf(f)
  BY <1>2, LinksPush
<1>4. Append(s, f) \in Seq(Frames)
  BY <1>2
<1> QED
  BY <1>1, <1>3, <1>4

\* Settling what is no child, or is cancelled
LEMMA FollowsSettle ==
  ASSUME Whole, Cared, Apart, Follows, Next, chains' = chains,
         NEW p \in Promises, p \notin Kids \/ p \in cancels', NEW st, NEW b \in Seq(Frames),
         StackLinks(b) = StackLinks(stack), Settle(p, st, b)
  PROVE Follows'
<1>1. Typed
  BY DEF Cared, Base
<1>2. Links' = Links
  BY <1>1, SettleLinks DEF Links
<1>3. \A q \in Promises : state'[q] = IF q = p /\ Pending(p) THEN st ELSE state[q]
  BY <1>1, SettleOne
<1>4. Kids \subseteq Promises
  BY DEF Kids, Apart, Reaction
<1> QED
  BY <1>2, <1>3, <1>4, Calm

LEMMA FollowsPops ==
  ASSUME Whole, Cared, Apart, Follows, Next, ReactionsDone \/ Return \/ NotifyNobody
  PROVE Follows'
<1>1. stack # <<>> /\ stack' = Below /\ UNCHANGED <<state, chains, reactions>>
  BY DEF ReactionsDone, Return, NotifyNobody, At, heapVars, historyVars
<1>2. LinksOf(Top) = {}
  <2>1. CASE ReactionsDone
    BY <2>1 DEF ReactionsDone, At, LinksOf, ListLinks, Range
  <2>2. CASE Return \/ NotifyNobody
    BY <2>2, LinksNone DEF Return, NotifyNobody, At
  <2> QED
    BY <2>1, <2>2
<1>3. StackLinks(stack') = StackLinks(stack)
  BY <1>1, <1>2, PopLinks DEF Cared
<1> QED
  BY <1>1, <1>3, Still

LEMMA FollowsNew ==
  ASSUME Whole, Cared, Apart, Follows, Next, NEW p \in Promises, New(p)
  PROVE Follows'
<1>1. /\ state[p] = "new" /\ state' = [state EXCEPT ![p] = "pending"]
      /\ UNCHANGED <<chains, stack, reactions>>
  BY DEF New, Fresh, historyVars
<1>2. Kids \subseteq Promises /\ p \notin Kids /\ state \in [Promises -> States]
  BY <1>1 DEF Kids, Others, Apart, Reaction, Cared, Base, Typed
<1>3. \A q \in Kids : state'[q] = state[q]
  BY <1>1, <1>2
<1> QED
  BY <1>1, <1>3, Calm DEF Links

LEMMA FollowsCombine ==
  ASSUME Whole, Cared, Apart, Follows, Next, NEW mode \in Modes, NEW ins \in Lists,
         NEW c \in Promises, Combine(mode, ins, c)
  PROVE Follows'
<1>1. PICK v : state[c] = "new" /\ state' = [state EXCEPT ![c] = v]
  BY DEF Combine, Fresh
<1>2. UNCHANGED <<chains, stack, reactions>>
  BY DEF Combine, historyVars
<1>3. Kids \subseteq Promises /\ c \notin Kids /\ state \in [Promises -> States]
  BY <1>1 DEF Kids, Others, Apart, Reaction, Cared, Base, Typed
<1>4. \A q \in Kids : state'[q] = state[q]
  BY <1>1, <1>3
<1> QED
  BY <1>2, <1>4, Calm DEF Links

LEMMA FollowsAsync ==
  ASSUME Whole, Cared, Apart, Follows, Next, NEW k \in Routines, NEW p \in Promises, Async(k, p)
  PROVE Follows'
<1>1. /\ state[p] = "new" /\ state' = [state EXCEPT ![p] = "pending"]
      /\ UNCHANGED <<chains, reactions>> /\ stack' = stack \o <<Method(p, p), Run(k, TRUE)>>
  BY DEF Async, Fresh, historyVars
<1>2. Kids \subseteq Promises /\ p \notin Kids /\ state \in [Promises -> States]
  BY <1>1 DEF Kids, Others, Apart, Reaction, Cared, Base, Typed
<1>3. \A q \in Kids : state'[q] = state[q]
  BY <1>1, <1>2
<1>4. PICK f, g : f = Method(p, p) /\ g = Run(k, TRUE)
  OBVIOUS
<1>5. f \in Frames /\ g \in Frames
  BY <1>4, FrameMade
<1>6. LinksOf(f) = {} /\ LinksOf(g) = {}
  BY <1>4, LinksNone DEF Method, Run
<1>7. PICK s : s = stack
  OBVIOUS
<1>8. s \in Seq(Frames)
  BY <1>7 DEF Cared, Base, Good
<1>9. StackLinks(s \o <<f, g>>) = StackLinks(s) \cup LinksOf(f) \cup LinksOf(g)
  BY <1>5, <1>8, LinksTwo
<1>10. StackLinks(stack') = StackLinks(stack)
  BY <1>1, <1>4, <1>6, <1>7, <1>9
<1> QED
  BY <1>1, <1>3, <1>10, Calm DEF Links

LEMMA FollowsCollect ==
  ASSUME Whole, Cared, Apart, Follows, Next, NEW p \in Promises, Collect(p)
  PROVE Follows'
<1>1. UNCHANGED <<state, chains, reactions>> /\ stack' = Append(stack, Release(<<p>>))
  BY DEF Collect, heapVars, historyVars
<1>2. PICK f : f = Release(<<p>>)
  OBVIOUS
<1>3. f \in Frames /\ LinksOf(f) = {}
  <2>1. <<p>> \in Seq(Promises)
    OBVIOUS
  <2>2. f \in Frames
    BY <1>2, <2>1, FrameMade
  <2> QED
    BY <1>2, <2>2, LinksNone DEF Release
<1>4. StackLinks(stack') = StackLinks(stack)
  BY <1>1, <1>2, <1>3, PushLinks DEF Cared
<1> QED
  BY <1>1, <1>4, Still

LEMMA FollowsComplete ==
  ASSUME Whole, Cared, Apart, Follows, Next, NEW p \in Promises,
         NEW st \in {"fulfilled", "rejected"}, Complete(p, st)
  PROVE Follows'
<1>1. p \in owed /\ chains' = chains /\ Settle(p, st, Append(stack, Release(<<p>>)))
  BY DEF Complete, historyVars
<1>2. PICK f : f = Release(<<p>>)
  OBVIOUS
<1>3. f \in Frames /\ LinksOf(f) = {}
  <2>1. <<p>> \in Seq(Promises)
    OBVIOUS
  <2>2. f \in Frames
    BY <1>2, <2>1, FrameMade
  <2> QED
    BY <1>2, <2>2, LinksNone DEF Release
<1>4. PICK b : b = Append(stack, f)
  OBVIOUS
<1>5. b \in Seq(Frames) /\ StackLinks(b) = StackLinks(stack)
  BY <1>3, <1>4, PushLinks DEF Cared
<1>6. p \notin Kids /\ Settle(p, st, b)
  BY <1>1, <1>2, <1>4 DEF Follows, Alone
<1> QED
  BY <1>1, <1>5, <1>6, FollowsSettle

LEMMA FollowsCancel ==
  ASSUME Whole, Cared, Apart, Follows, Next, NEW p \in Promises, Cancel(p)
  PROVE Follows'
<1>1. p \in cancels' /\ chains' = chains /\ Settle(p, "rejected", Append(stack, Method(p, None)))
  BY DEF Cancel
<1>2. PICK f : f = Method(p, None)
  OBVIOUS
<1>3. f \in Frames /\ LinksOf(f) = {}
  BY <1>2, FrameMade, LinksNone DEF Method
<1>4. PICK b : b = Append(stack, f)
  OBVIOUS
<1>5. b \in Seq(Frames) /\ StackLinks(b) = StackLinks(stack)
  BY <1>3, <1>4, PushLinks DEF Cared
<1>6. Settle(p, "rejected", b)
  BY <1>1, <1>2, <1>4
<1> QED
  BY <1>1, <1>5, <1>6, FollowsSettle

LEMMA FollowsRoutine ==
  ASSUME Whole, Cared, Apart, Follows, Next, NEW ok \in BOOLEAN, RoutineEnds(ok)
  PROVE Follows'
<1>1. stack # <<>> /\ Top.op = "run" /\ chains' = chains
  BY DEF RoutineEnds, At, historyVars
<1>2. PICK k \in Routines : k = Top.k /\ result[k] \in Promises
  BY <1>1, TopRuns DEF Cared
<1>3. PICK p \in Promises : p = result[k]
  BY <1>2
<1>4. PICK f : f = Ended(k, ~ok)
  OBVIOUS
<1>5. f \in Frames /\ LinksOf(f) = {}
  BY <1>4, FrameMade, LinksNone DEF Ended
<1>6. PICK b : b = Append(Below, f)
  OBVIOUS
<1>7. LinksOf(Top) = {}
  BY <1>1, LinksNone
<1>8. b \in Seq(Frames) /\ StackLinks(b) = StackLinks(stack)
  BY <1>1, <1>5, <1>6, <1>7, SwapLinks DEF Cared
<1>9. \E st : Settle(p, st, b)
  BY <1>2, <1>3, <1>4, <1>6 DEF RoutineEnds
<1>10. p \notin Kids
  BY <1>3 DEF Follows, Alone
<1> QED
  BY <1>1, <1>8, <1>9, <1>10, FollowsSettle

LEMMA FollowsNotify ==
  ASSUME Whole, Cared, Apart, Follows, Next, NotifyCombination
  PROVE Follows'
<1>1. stack # <<>> /\ Top.op = "notify" /\ chains' = chains
  BY DEF NotifyCombination, At, historyVars
<1>2. PICK c \in Promises : c = slot[Top.p]
  BY DEF NotifyCombination
<1>3. LinksOf(Top) = {}
  BY <1>1, LinksNone
<1>4. CASE stack' = Below /\ UNCHANGED <<state, reactions>>
  BY <1>1, <1>3, <1>4, PopLinks, Still DEF Cared
<1>5. ASSUME NEW d, ~combi[c].done, Settle(c, d, Append(Below, Combined(c))) PROVE Follows'
  <2>1. PICK f : f = Combined(c)
    OBVIOUS
  <2>2. f \in Frames /\ LinksOf(f) = {}
    BY <2>1, FrameMade, LinksNone DEF Combined
  <2>3. PICK b : b = Append(Below, f)
    OBVIOUS
  <2>4. b \in Seq(Frames) /\ StackLinks(b) = StackLinks(stack)
    BY <1>1, <1>3, <2>2, <2>3, SwapLinks DEF Cared
  <2>5. combi[c].mode # None
    BY <1>5 DEF Cared, Base, Finishes, None
  <2>6. c \notin Kids
    BY <2>5 DEF Apart, Others
  <2> QED
    BY <1>1, <1>5, <2>1, <2>3, <2>4, <2>6, FollowsSettle
<1> QED
  BY <1>2, <1>4, <1>5 DEF NotifyCombination

LEMMA FollowsEnds ==
  ASSUME Whole, Cared, Apart, Follows, Next, CombinationEnds \/ NotifyRoutine \/ RoutineFreed
  PROVE Follows'
<1>1. stack # <<>> /\ Top.op \in {"combined", "notify", "ended"} /\ UNCHANGED <<state, chains, reactions>>
  BY DEF CombinationEnds, NotifyRoutine, RoutineFreed, At, heapVars, historyVars
<1>2. PICK t \in Frames : t = Top
  BY <1>1, TopOf DEF Cared
<1>3. LinksOf(Top) = {}
  BY <1>1, LinksNone
<1>4. CASE stack' = Below
  BY <1>1, <1>3, <1>4, PopLinks, Still DEF Cared
<1>5. ASSUME NEW f \in Frames, LinksOf(f) = {}, stack' = Append(Below, f) PROVE Follows'
  BY <1>1, <1>3, <1>5, SwapLinks, Still DEF Cared
<1>6. CASE CombinationEnds
  <2>1. t.p \in Promises
    BY <1>2, <1>6, FrameKinds DEF CombinationEnds, At
  <2>2. PICK x \in Seq(Promises) : x = combi[t.p].ins
    BY <2>1 DEF Cared, Base, Typed, Combi
  <2>3. PICK f : f = Release(x)
    OBVIOUS
  <2>4. f \in Frames /\ LinksOf(f) = {}
    BY <2>3, FrameMade, LinksNone DEF Release
  <2>5. stack' = Append(Below, f)
    BY <1>2, <1>6, <2>2, <2>3 DEF CombinationEnds
  <2> QED
    BY <1>5, <2>4, <2>5
<1>7. CASE NotifyRoutine
  <2>1. PICK k \in Routines : k = slot[t.p]
    BY <1>2, <1>7 DEF NotifyRoutine
  <2>2. PICK f : f = Run(k, FALSE)
    OBVIOUS
  <2>3. f \in Frames /\ LinksOf(f) = {}
    BY <2>2, FrameMade, LinksNone DEF Run
  <2>4. stack' = Append(Below, f)
    BY <1>2, <1>7, <2>1, <2>2 DEF NotifyRoutine
  <2> QED
    BY <1>5, <2>3, <2>4
<1>8. CASE RoutineFreed
  <2>1. PICK k \in Routines : k = t.k
    BY <1>2, <1>8, FrameKinds DEF RoutineFreed, At
  <2>2. CASE ~(t.failed /\ waiting[k] # None)
    BY <1>2, <1>4, <1>8, <2>1, <2>2 DEF RoutineFreed
  <2>3. CASE t.failed /\ waiting[k] # None
    <3>1. PICK w \in Promises : w = waiting[k]
      BY <2>3 DEF Cared, Base, Typed
    <3>2. PICK f : f = Release(<<w>>)
      OBVIOUS
    <3>3. f \in Frames /\ LinksOf(f) = {}
      <4>1. <<w>> \in Seq(Promises)
        OBVIOUS
      <4>2. f \in Frames
        BY <3>2, <4>1, FrameMade
      <4> QED
        BY <3>2, <4>2, LinksNone DEF Release
    <3>4. stack' = Append(Below, f)
      BY <1>2, <1>8, <2>1, <2>3, <3>1, <3>2 DEF RoutineFreed
    <3> QED
      BY <1>5, <3>3, <3>4
  <2> QED
    BY <2>2, <2>3
<1> QED
  BY <1>6, <1>7, <1>8

LEMMA FollowsAwait ==
  ASSUME Whole, Cared, Apart, Follows, Next, NEW p \in Promises, AwaitKeyword(p) \/ AwaitFunction(p)
  PROVE Follows'
<1>1. stack # <<>> /\ Top.op = "run" /\ UNCHANGED <<state, chains, reactions>>
  BY DEF AwaitKeyword, AwaitFunction, At, historyVars
<1>2. PICK k \in Routines : k = Top.k
  BY <1>1, TopRuns DEF Cared
<1>3. LinksOf(Top) = {}
  BY <1>1, LinksNone
<1>4. PICK b \in Seq(Frames) : b = Below /\ StackLinks(b) = StackLinks(stack)
  BY <1>1, <1>3, PopLinks DEF Cared
<1>5. PICK f, g : f = Run(k, FALSE) /\ g = Release(Old(k))
  OBVIOUS
<1>6. f \in Frames /\ g \in Frames
  <2>1. Old(k) \in Seq(Promises)
    BY DEF Old, Cared, Base, Typed
  <2> QED
    BY <1>5, <2>1, FrameMade
<1>7. LinksOf(f) = {} /\ LinksOf(g) = {}
  BY <1>5, LinksNone DEF Run, Release
<1>8. stack' \in {b, Append(b, g), b \o <<f, g>>}
  BY <1>2, <1>4, <1>5 DEF AwaitKeyword, AwaitFunction, Old
<1>9. /\ StackLinks(Append(b, g)) = StackLinks(b) \cup LinksOf(g)
      /\ StackLinks(b \o <<f, g>>) = StackLinks(b) \cup LinksOf(f) \cup LinksOf(g)
  BY <1>6, LinksPush, LinksTwo
<1>10. StackLinks(stack') = StackLinks(stack)
  BY <1>4, <1>7, <1>8, <1>9
<1> QED
  BY <1>1, <1>10, Still


-----------------------------------------------------------------------------
(* Children and the steps that drop, add and run reactions.                *)

LEMMA FollowsRelease ==
  ASSUME Whole, Cared, Apart, Follows, Next, ReleaseStep
  PROVE Follows'
<1>1. stack # <<>> /\ Top.op = "release" /\ UNCHANGED <<state, chains>>
  BY DEF ReleaseStep, At, historyVars
<1>2. PICK t \in Frames : t = Top
  BY <1>1, TopOf DEF Cared
<1>3. PICK todo \in Seq(Promises) : todo = t.todo
  BY <1>1, <1>2, FrameKinds
<1>4. PICK x \in [Promises -> Seq(Reaction)] : x = reactions
  BY DEF Cared, Base, Typed
<1>5. LinksOf(Top) = {}
  BY <1>1, LinksNone
<1>6. ASSUME NEW y \in Seq(Promises), stack' = Append(Below, Release(y))
      PROVE StackLinks(stack') = StackLinks(stack)
  <2>1. PICK f : f = Release(y)
    OBVIOUS
  <2>2. f \in Frames /\ LinksOf(f) = {}
    BY <2>1, FrameMade, LinksNone DEF Release
  <2> QED
    BY <1>1, <1>5, <1>6, <2>1, <2>2, SwapLinks DEF Cared
<1>7. CASE todo = <<>>
  <2>1. stack' = Below /\ UNCHANGED reactions
    BY <1>2, <1>3, <1>7 DEF ReleaseStep
  <2> QED
    BY <1>1, <1>5, <2>1, PopLinks, Still DEF Cared
<1>8. CASE todo # <<>>
  <2>1. PICK p \in Promises : p = Head(todo)
    BY <1>8
  <2>2. Tail(todo) \in Seq(Promises)
    BY <1>8
  <2>3. CASE refs[p] > 1
    <3>1. stack' = Append(Below, Release(Tail(todo))) /\ UNCHANGED reactions
      BY <1>2, <1>3, <1>8, <2>1, <2>3 DEF ReleaseStep
    <3> QED
      BY <1>1, <1>6, <2>2, <3>1, Still
  <2>4. CASE ~(refs[p] > 1)
    <3>1. PICK z : z = [x EXCEPT ![p] = <<>>]
      OBVIOUS
    <3>2. /\ freed' = freed \cup {p} /\ reactions' = z
          /\ stack' = Append(Below, Release(KidsOf(x[p]) \o Tail(todo)))
      BY <1>2, <1>3, <1>4, <1>8, <2>1, <2>4, <3>1 DEF ReleaseStep, KidsOf
    <3>3. KidsOf(x[p]) \o Tail(todo) \in Seq(Promises)
      <4>1. PICK y \in Seq(Promises) : y = KidsOf(x[p])
        BY KidsType
      <4> QED
        BY <2>2, <4>1
    <3>4. StackLinks(stack') = StackLinks(stack)
      BY <1>6, <3>2, <3>3
    <3>5. CASE ~Pending(p)
      <4>1. z = x
        BY <1>4, <3>1, <3>5 DEF Cared, Base, Detached
      <4> QED
        BY <1>1, <1>4, <3>2, <3>4, <4>1, Still
    <3>6. CASE Pending(p)
      <4>1. \A q \in Promises : q # p => z[q] = x[q]
        BY <3>1
      <4>2. z[p] = <<>> /\ ListLinks(p, z[p]) = {}
        BY <3>1 DEF ListLinks, Range
      <4>3. /\ \A l : l \in HeapLinks(z) => l \in HeapLinks(x)
            /\ \A l : l \in HeapLinks(x) => l \in HeapLinks(z) \/ l \in ListLinks(p, x[p])
        BY <4>1, <4>2, HeapSwap
      <4>4. \A l \in Links' : l \in Links
        BY <1>4, <3>2, <3>4, <4>3 DEF Links
      <4>5. \A l \in Links : l \in Links' \/ l.parent = p
        BY <1>4, <3>2, <3>4, <4>3 DEF Links, ListLinks, Link
      <4>6. ASSUME NEW c \in chains PROVE Drives(c)
        <5>1. CASE c.parent = p
          BY <1>1, <3>2, <3>6, <5>1 DEF Drives, Pending
        <5>2. CASE c.parent # p
          <6>1. Linked(c.parent, c.r) => Linked(c.parent, c.r)'
            BY <4>5, <5>2 DEF Linked
          <6> QED
            BY <1>1, <6>1 DEF Drives
        <5> QED
          BY <5>1, <5>2
      <4>7. freed \subseteq freed' /\ \A q \in freed : state'[q] = state[q]
        BY <1>1, <3>2
      <4> QED
        BY <1>1, <4>4, <4>6, <4>7, FollowsOn DEF Cared
    <3> QED
      BY <3>5, <3>6
  <2> QED
    BY <2>3, <2>4
<1> QED
  BY <1>7, <1>8

\* A reaction that is put in front of a list
LEMMA ListMore == ASSUME NEW p, NEW r, NEW x \in Seq(Reaction)
  PROVE \A l : l \in ListLinks(p, <<r>> \o x) <=> l = Link(FALSE, p, r) \/ l \in ListLinks(p, x)
<1>1. PICK n \in Nat : n = Len(x)
  OBVIOUS
<1>2. PICK y : y = <<r>> \o x
  OBVIOUS
<1>3. /\ DOMAIN y = 1 .. n + 1 /\ DOMAIN x = 1 .. n
      /\ y[1] = r /\ \A i \in 1 .. n : y[i + 1] = x[i]
  BY <1>1, <1>2
<1>4. 1 \in 1 .. n + 1 /\ \A i \in 1 .. n : i + 1 \in 1 .. n + 1
  OBVIOUS
<1>5. \A i \in 1 .. n + 1 : i = 1 \/ \E j \in 1 .. n : i = j + 1
  <2> SUFFICES ASSUME NEW i \in 1 .. n + 1, i # 1 PROVE \E j \in 1 .. n : i = j + 1
    OBVIOUS
  <2>1. i - 1 \in 1 .. n /\ i = (i - 1) + 1
    OBVIOUS
  <2> QED
    BY <2>1
<1>6. \A e : e \in Range(y) <=> e = r \/ e \in Range(x)
  <2>1. \A e : e \in Range(y) <=> \E i \in 1 .. n + 1 : e = y[i]
    BY <1>3 DEF Range
  <2>2. \A e : e \in Range(x) <=> \E i \in 1 .. n : e = x[i]
    BY <1>3 DEF Range
  <2>3. ASSUME NEW i \in 1 .. n + 1 PROVE y[i] = r \/ \E j \in 1 .. n : y[i] = x[j]
    BY <1>3, <1>5
  <2>4. \E i \in 1 .. n + 1 : r = y[i]
    BY <1>3, <1>4
  <2>5. ASSUME NEW i \in 1 .. n PROVE \E j \in 1 .. n + 1 : x[i] = y[j]
    BY <1>3, <1>4
  <2> QED
    BY <2>1, <2>2, <2>3, <2>4, <2>5
<1>7. ASSUME NEW l PROVE l \in ListLinks(p, y) <=> l = Link(FALSE, p, r) \/ l \in ListLinks(p, x)
  BY <1>6 DEF ListLinks
<1> QED
  BY <1>2, <1>7

\* Steps that add a link
Adds(m) == \A l : l \in Links' <=> l \in Links \/ l = m

LEMMA ChainLinks ==
  ASSUME Base, NEW p \in Promises, NEW c \in Promises, NEW kind \in {"then", "catch", "finally"},
         NEW h \in BOOLEAN, Chain(p, c, kind, h)
  PROVE Adds(Link(FALSE, p, [kind |-> kind, handler |-> h, child |-> c]))
<1>0. PICK r : r = [kind |-> kind, handler |-> h, child |-> c]
  OBVIOUS
<1>1. PICK x \in [Promises -> Seq(Reaction)] : x = reactions
  BY DEF Base, Typed
<1>2. PICK s \in Seq(Frames) : s = stack
  BY DEF Base, Good
<1>3. r \in Reaction
  BY <1>0 DEF Reaction
<1>4. ASSUME Pending(p) PROVE \A l : l \in Links' <=> l \in Links \/ l = Link(FALSE, p, r)
  <2>1. PICK z : z = [x EXCEPT ![p] = <<r>> \o x[p]]
    OBVIOUS
  <2>2. reactions' = z /\ stack' = stack
    BY <1>0, <1>1, <1>4, <2>1 DEF Chain
  <2>3. z[p] = <<r>> \o x[p] /\ \A q \in Promises : q # p => z[q] = x[q]
    BY <2>1
  <2>4. \A l : l \in ListLinks(p, z[p]) <=> l = Link(FALSE, p, r) \/ l \in ListLinks(p, x[p])
    BY <2>3, ListMore
  <2>5. \A l : l \in HeapLinks(z) <=> l \in HeapLinks(x) \/ l = Link(FALSE, p, r)
    BY <2>3, <2>4, HeapSwap
  <2> QED
    BY <1>1, <2>2, <2>5 DEF Links
<1>5. ASSUME ~Pending(p) PROVE \A l : l \in Links' <=> l \in Links \/ l = Link(FALSE, p, r)
  <2>1. x[p] = <<>>
    BY <1>1, <1>5 DEF Base, Detached
  <2>2. /\ reactions' = [x EXCEPT ![p] = <<>>]
        /\ stack' = s \o <<Method(p, c), React(p, <<r>> \o x[p])>>
    BY <1>0, <1>1, <1>2, <1>5 DEF Chain
  <2>3. reactions' = x
    BY <2>1, <2>2
  <2>4. PICK y : y = <<r>> \o x[p]
    OBVIOUS
  <2>5. y \in Seq(Reaction)
    BY <1>3, <2>1, <2>4
  <2>6. PICK f, g : f = Method(p, c) /\ g = React(p, y)
    OBVIOUS
  <2>7. f \in Frames /\ g \in Frames
    BY <2>5, <2>6, FrameMade
  <2>8. LinksOf(f) = {} /\ LinksOf(g) = ListLinks(p, y)
    BY <2>6, LinksNone, LinksReact DEF Method
  <2>9. \A l : l \in ListLinks(p, y) <=> l = Link(FALSE, p, r) \/ l \in ListLinks(p, x[p])
    BY <2>4, ListMore
  <2>10. ListLinks(p, x[p]) = {}
    BY <2>1 DEF ListLinks, Range
  <2>11. StackLinks(s \o <<f, g>>) = StackLinks(s) \cup LinksOf(f) \cup LinksOf(g)
    BY <2>7, LinksTwo
  <2>12. stack' = s \o <<f, g>>
    BY <2>2, <2>4, <2>6
  <2>13. Links' = HeapLinks(x) \cup (StackLinks(s) \cup LinksOf(f) \cup LinksOf(g))
    BY <2>3, <2>11, <2>12 DEF Links
  <2> QED
    BY <1>1, <1>2, <2>8, <2>9, <2>10, <2>13 DEF Links
<1>6. Adds(Link(FALSE, p, r))
  BY <1>4, <1>5 DEF Adds
<1> QED
  BY <1>0, <1>6

LEMMA FollowsChain ==
  ASSUME Whole, Cared, Apart, Follows, Next, NEW p \in Promises, NEW c \in Promises,
         NEW kind \in {"then", "catch", "finally"}, NEW h \in BOOLEAN, Chain(p, c, kind, h)
  PROVE Follows'
<1>1. PICK r : r = [kind |-> kind, handler |-> h, child |-> c]
  OBVIOUS
<1>2. PICK n : n = [parent |-> p, r |-> r]
  OBVIOUS
<1>3. /\ state[c] = "new" /\ state' = [state EXCEPT ![c] = "pending"]
      /\ chains' = chains \cup {n} /\ UNCHANGED <<freed, cancels>>
  BY <1>1, <1>2 DEF Chain, Fresh
<1>4. /\ Kids \subseteq Promises /\ c \notin Kids /\ state \in [Promises -> States]
      /\ \A x \in chains : x.parent \in Promises /\ x.r.child \in Kids
  BY <1>3 DEF Kids, Others, Apart, Reaction, Cared, Base, Typed
<1>5. \A l : l \in Links' <=> l \in Links \/ l = Link(FALSE, p, r)
  <2>1. Adds(Link(FALSE, p, [kind |-> kind, handler |-> h, child |-> c]))
    BY ChainLinks DEF Cared
  <2>2. Adds(Link(FALSE, p, r))
    BY <1>1, <2>1
  <2> QED
    BY <2>2 DEF Adds
<1>6. \A q \in Promises : state[q] \in Ends => state'[q] = state[q]
  BY EndsStay DEF Cared
<1>7. \A q \in freed : state'[q] = state[q]
  BY FreedStay
<1>8. \A q \in Kids : state'[q] = state[q]
  BY <1>3, <1>4
<1>9. Single'
  <2>1. ASSUME NEW x \in chains', NEW y \in chains', x.r.child = y.r.child PROVE x = y
    <3>1. n.r.child = c
      BY <1>1, <1>2
    <3> QED
      BY <1>3, <1>4, <2>1, <3>1 DEF Follows, Single
  <2> QED
    BY <2>1 DEF Single
<1>10. Placed'
  <2>1. ASSUME NEW l \in Links' PROVE [parent |-> l.parent, r |-> l.r] \in chains' /\ LinkFits(l, state')
    <3>1. CASE l \in Links
      <4>1. [parent |-> l.parent, r |-> l.r] \in chains /\ LinkFits(l, state)
        BY <3>1 DEF Follows, Placed
      <4>2. l.parent \in Promises
        BY <1>4, <4>1
      <4> QED
        BY <1>3, <1>6, <4>1, <4>2 DEF LinkFits
    <3>2. CASE l = Link(FALSE, p, r)
      BY <1>2, <1>3, <3>2 DEF Link, LinkFits
    <3> QED
      BY <1>5, <3>1, <3>2
  <2> QED
    BY <2>1 DEF Placed
<1>11. Alone'
  BY AloneStep DEF Cared, Follows
<1>12. ASSUME NEW x \in chains PROVE Rightly(x)' /\ Awaited(x)'
  <2>1. Rightly(x) /\ Awaited(x) /\ x.parent \in Promises /\ x.r.child \in Kids
    BY <1>4 DEF Follows
  <2>2. Linked(x.parent, x.r) => Linked(x.parent, x.r)'
    BY <1>5 DEF Linked
  <2>3. Rightly(x)'
    BY <1>3, <1>6, <1>8, <2>1 DEF Rightly
  <2>4. Awaited(x)'
    BY <1>3, <1>6, <1>7, <1>8, <2>1, <2>2 DEF Awaited
  <2> QED
    BY <2>3, <2>4
<1>13. Rightly(n)' /\ Awaited(n)'
  <2>1. n.parent = p /\ n.r = r /\ n.r.child = c /\ state'[c] = "pending"
    BY <1>1, <1>2, <1>3, <1>4
  <2>2. Linked(n.parent, n.r)'
    <3>1. Link(FALSE, p, r).parent = p /\ Link(FALSE, p, r).r = r
      BY DEF Link
    <3> QED
      BY <1>5, <2>1, <3>1 DEF Linked
  <2> QED
    BY <2>1, <2>2 DEF Rightly, Awaited
<1>14. \A x \in chains' : Rightly(x)' /\ Awaited(x)'
  BY <1>3, <1>12, <1>13
<1> QED
  BY <1>9, <1>10, <1>11, <1>14 DEF Follows

\* A reaction settles its child.
LEMMA FollowsSettled ==
  ASSUME Whole, Cared, Apart, Follows, Next, chains' = chains,
         NEW p \in Promises, NEW r \in Reaction, [parent |-> p, r |-> r] \in chains,
         state[p] \in Ends, NEW st \in Ends, Decided(r, state[p], st),
         NEW b \in Seq(Frames), Settle(r.child, st, b),
         \A l \in StackLinks(b) : l \in Links,
         \A l \in Links : \/ l \in HeapLinks(reactions) \/ l \in StackLinks(b)
                          \/ l.parent = p /\ l.r = r
  PROVE Follows'
<1>1. freed \subseteq freed' /\ Base /\ Typed
  BY FreedGrows DEF Cared, Base
<1>2. \A q \in freed : state'[q] = state[q]
  BY FreedStay
<1>3. PICK c \in Promises : c = r.child
  BY DEF Reaction
<1>4. Settle(c, st, b)
  BY <1>3
<1>5. Links' = HeapLinks(reactions) \cup StackLinks(b)
  BY <1>1, <1>4, SettleLinks
<1>6. \A q \in Promises : state'[q] = IF q = c /\ Pending(c) THEN st ELSE state[q]
  BY <1>1, <1>4, SettleOne
<1>7. \A l \in Links' : l \in Links
  BY <1>5 DEF Links
<1>8. ASSUME NEW x \in chains PROVE Drives(x)
  <2>1. x.r.child \in Promises
    BY DEF Apart, Reaction
  <2>2. CASE x.r.child = c
    <3>1. x = [parent |-> p, r |-> r]
      <4>1. PICK n : n = [parent |-> p, r |-> r]
        OBVIOUS
      <4>2. n \in chains /\ n.r.child = c
        BY <1>3, <4>1
      <4> QED
        BY <2>2, <4>1, <4>2 DEF Follows, Single
    <3>2. x.parent = p /\ x.r = r
      BY <3>1
    <3>3. state'[c] = (IF Pending(c) THEN st ELSE state[c])
      BY <1>6
    <3>4. state'[c] # "pending"
      BY <3>3 DEF Pending, Ends
    <3>5. state'[c] = state[c] \/ state'[c] = st
      BY <3>3
    <3> QED
      BY <1>3, <3>2, <3>4, <3>5 DEF Drives
  <2>3. CASE x.r.child # c
    <3>1. x.r # r /\ state'[x.r.child] = state[x.r.child]
      BY <1>3, <1>6, <2>1, <2>3
    <3>2. Linked(x.parent, x.r) => Linked(x.parent, x.r)'
      BY <1>5, <3>1 DEF Linked
    <3> QED
      BY <3>1, <3>2 DEF Drives
  <2> QED
    BY <2>2, <2>3
<1> QED
  BY <1>1, <1>2, <1>7, <1>8, FollowsOn

LEMMA FollowsHandler ==
  ASSUME Whole, Cared, Apart, Follows, Next, NEW ok \in BOOLEAN, HandlerEnds(ok)
  PROVE Follows'
<1>1. stack # <<>> /\ Top.op = "handle" /\ chains' = chains
  BY DEF HandlerEnds, At, historyVars
<1>2. PICK f \in Frames : f = Top
  BY <1>1, TopOf DEF Cared
<1>3. PICK p \in Promises, r \in Reaction : p = f.p /\ r = f.r
  BY <1>1, <1>2, FrameKinds
<1>4. state[p] \in Ends
  BY <1>1, <1>2, <1>3, TopOf DEF Cared
<1>5. PICK b \in Seq(Frames) : b = Below /\ StackLinks(stack) = StackLinks(b) \cup LinksOf(f)
  BY <1>1, <1>2, TopLinks DEF Cared
<1>6. LinksOf(f) = {Link(TRUE, p, r)}
  BY <1>1, <1>2, <1>3 DEF LinksOf
<1>7. PICK l : l = Link(TRUE, p, r)
  OBVIOUS
<1>8. l.call /\ l.parent = p /\ l.r = r /\ l \in Links
  BY <1>5, <1>6, <1>7 DEF Link, Links
<1>9. [parent |-> p, r |-> r] \in chains /\ r.handler /\ Matches(r, state[p])
  BY <1>8 DEF Follows, Placed, LinkFits
<1>10. PICK st : st = IF r.kind = "finally" THEN state[p] ELSE IF ok THEN "fulfilled" ELSE "rejected"
  OBVIOUS
<1>11. st \in Ends /\ Decided(r, state[p], st)
  BY <1>4, <1>9, <1>10 DEF Ends, Decided
<1>12. Settle(r.child, st, b)
  BY <1>2, <1>3, <1>5, <1>10 DEF HandlerEnds
<1>13. \A m \in StackLinks(b) : m \in Links
  BY <1>5 DEF Links
<1>14. \A m \in Links : \/ m \in HeapLinks(reactions) \/ m \in StackLinks(b)
                        \/ m.parent = p /\ m.r = r
  BY <1>5, <1>6, <1>7, <1>8 DEF Links
<1> QED
  BY <1>1, <1>4, <1>9, <1>11, <1>12, <1>13, <1>14, FollowsSettled

LEMMA FollowsRun ==
  ASSUME Whole, Cared, Apart, Follows, Next, RunReaction
  PROVE Follows'
<1>1. stack # <<>> /\ Top.op = "react" /\ Top.todo # <<>> /\ chains' = chains
  BY DEF RunReaction, At, historyVars
<1>2. PICK f \in Frames : f = Top
  BY <1>1, TopOf DEF Cared
<1>3. PICK p \in Promises, todo \in Seq(Reaction) : p = f.p /\ todo = f.todo
  BY <1>1, <1>2, FrameKinds
<1>4. PICK r \in Reaction, tail \in Seq(Reaction) : r = Head(todo) /\ tail = Tail(todo)
  <2>1. todo # <<>>
    BY <1>1, <1>2, <1>3
  <2>2. Head(todo) \in Reaction /\ Tail(todo) \in Seq(Reaction)
    BY <2>1
  <2> QED
    BY <2>2
<1>5. todo = <<r>> \o tail
  BY <1>1, <1>2, <1>3, <1>4
<1>6. state[p] \in Ends
  BY <1>1, <1>2, <1>3, TopOf DEF Cared
<1>7. PICK b \in Seq(Frames) : b = Below /\ StackLinks(stack) = StackLinks(b) \cup LinksOf(f)
  BY <1>1, <1>2, TopLinks DEF Cared
<1>8. LinksOf(f) = ListLinks(p, todo)
  BY <1>1, <1>2, <1>3 DEF LinksOf
<1>9. \A l : l \in ListLinks(p, todo) <=> l = Link(FALSE, p, r) \/ l \in ListLinks(p, tail)
  BY <1>5, ListMore
<1>10. PICK g : g = React(p, tail)
  OBVIOUS
<1>11. PICK h : h = Release(<<r.child>>)
  OBVIOUS
<1>12. g \in Frames /\ h \in Frames
  <2>1. <<r.child>> \in Seq(Promises)
    BY DEF Reaction
  <2> QED
    BY <1>10, <1>11, <2>1, FrameMade
<1>13. LinksOf(g) = ListLinks(p, tail) /\ LinksOf(h) = {}
  BY <1>10, <1>11, LinksReact, LinksNone DEF Release
<1>14. PICK rest : rest = b \o <<g, h>>
  OBVIOUS
<1>15. rest \in Seq(Frames) /\ StackLinks(rest) = StackLinks(b) \cup LinksOf(g) \cup LinksOf(h)
  BY <1>12, <1>14, LinksTwo, TwoFrames
<1>16. PICK m : m = Link(FALSE, p, r)
  OBVIOUS
<1>17. m.parent = p /\ m.r = r
  BY <1>16 DEF Link
<1>18. \A l : l \in Links <=> l \in HeapLinks(reactions) \/ l \in StackLinks(rest) \/ l = m
  BY <1>7, <1>8, <1>9, <1>13, <1>15, <1>16 DEF Links
<1>19. [parent |-> p, r |-> r] \in chains
  BY <1>17, <1>18 DEF Follows, Placed
<1>20. Base /\ freed \subseteq freed' /\ \A q \in freed : state'[q] = state[q]
  BY FreedGrows, FreedStay DEF Cared
<1>21. CASE ~Matches(r, state[p])
  <2>1. stack' = rest /\ UNCHANGED <<state, reactions>>
    BY <1>2, <1>3, <1>4, <1>7, <1>10, <1>11, <1>14, <1>21 DEF RunReaction
  <2>2. \A l : l \in Links' <=> l \in HeapLinks(reactions) \/ l \in StackLinks(rest)
    BY <2>1 DEF Links
  <2>3. ASSUME NEW x \in chains PROVE Drives(x)
    <3>1. CASE x.parent = p /\ x.r = r
      BY <1>6, <1>21, <2>1, <3>1 DEF Drives
    <3>2. CASE ~(x.parent = p /\ x.r = r)
      <4>1. Linked(x.parent, x.r) => Linked(x.parent, x.r)'
        BY <1>17, <1>18, <2>2, <3>2 DEF Linked
      <4> QED
        BY <2>1, <4>1 DEF Drives
    <3> QED
      BY <3>1, <3>2
  <2>4. \A l \in Links' : l \in Links
    BY <1>18, <2>2
  <2> QED
    BY <1>1, <1>20, <2>3, <2>4, FollowsOn
<1>22. CASE Matches(r, state[p]) /\ r.handler
  <2>1. PICK e : e = Handle(p, r)
    OBVIOUS
  <2>2. stack' = Append(rest, e) /\ UNCHANGED <<state, reactions>>
    BY <1>2, <1>3, <1>4, <1>7, <1>10, <1>11, <1>14, <1>22, <2>1 DEF RunReaction
  <2>3. PICK n : n = Link(TRUE, p, r)
    OBVIOUS
  <2>4. e \in Frames /\ LinksOf(e) = {n}
    BY <2>1, <2>3, FrameMade DEF LinksOf, Handle
  <2>5. StackLinks(Append(rest, e)) = StackLinks(rest) \cup LinksOf(e)
    BY <1>15, <2>4, LinksPush
  <2>6. \A l : l \in Links' <=> l \in HeapLinks(reactions) \/ l \in StackLinks(rest) \/ l = n
    BY <2>2, <2>4, <2>5 DEF Links
  <2>7. n.parent = p /\ n.r = r /\ LinkFits(n, state)
    BY <1>6, <1>22, <2>3 DEF Link, LinkFits
  <2>8. \A l \in Links' : l \in Links \/ ([parent |-> l.parent, r |-> l.r] \in chains /\ LinkFits(l, state))
    BY <1>18, <1>19, <2>6, <2>7
  <2>9. ASSUME NEW x \in chains PROVE Drives(x)
    <3>1. Linked(x.parent, x.r) => Linked(x.parent, x.r)'
      BY <1>17, <1>18, <2>6, <2>7 DEF Linked
    <3> QED
      BY <2>2, <3>1 DEF Drives
  <2> QED
    BY <1>1, <1>20, <2>8, <2>9, FollowsOn
<1>23. CASE Matches(r, state[p]) /\ ~r.handler
  <2>1. PICK st \in Ends : st = state[p]
    BY <1>6
  <2>2. Settle(r.child, st, rest)
    BY <1>2, <1>3, <1>4, <1>7, <1>10, <1>11, <1>14, <1>23, <2>1 DEF RunReaction
  <2>3. Decided(r, state[p], st)
    BY <1>23, <2>1 DEF Decided
  <2>4. \A l \in StackLinks(rest) : l \in Links
    BY <1>18
  <2>5. \A l \in Links : \/ l \in HeapLinks(reactions) \/ l \in StackLinks(rest)
                         \/ l.parent = p /\ l.r = r
    BY <1>17, <1>18
  <2> QED
    BY <1>1, <1>6, <1>15, <1>19, <2>2, <2>3, <2>4, <2>5, FollowsSettled
<1> QED
  BY <1>21, <1>22, <1>23


LEMMA FollowsStep == ASSUME Whole, Cared, Apart, Follows, [Next]_vars PROVE Follows'
<1>1. CASE UNCHANGED vars
  <2>1. Links' = Links /\ UNCHANGED <<state, freed, chains, cancels, owed, result>>
    BY <1>1 DEF vars, heapVars, routineVars, historyVars, Links
  <2>2. Single' /\ Alone' /\ Placed'
    BY <2>1 DEF Follows, Single, Alone, Kids, Placed, LinkFits
  <2>3. \A x \in chains' : Rightly(x)' /\ Awaited(x)'
    BY <2>1 DEF Follows, Rightly, Awaited, Linked
  <2> QED
    BY <2>2, <2>3 DEF Follows
<1>2. CASE Next
  <2>1. CASE Native
    BY <1>2, <2>1, FollowsRun, FollowsPops, FollowsRelease, FollowsNotify, FollowsEnds DEF Native
  <2>2. ASSUME NEW ok \in BOOLEAN, HandlerEnds(ok) \/ RoutineEnds(ok) PROVE Follows'
    BY <1>2, <2>2, FollowsHandler, FollowsRoutine
  <2>3. ASSUME NEW p \in Promises,
               New(p) \/ Cancel(p) \/ Collect(p) \/ AwaitKeyword(p) \/ AwaitFunction(p)
        PROVE Follows'
    BY <1>2, <2>3, FollowsNew, FollowsCancel, FollowsCollect, FollowsAwait
  <2>4. ASSUME NEW p \in Promises, NEW st \in {"fulfilled", "rejected"}, Complete(p, st)
        PROVE Follows'
    BY <1>2, <2>4, FollowsComplete
  <2>5. ASSUME NEW p \in Promises, NEW c \in Promises,
               NEW kind \in {"then", "catch", "finally"}, NEW h \in BOOLEAN, Chain(p, c, kind, h)
        PROVE Follows'
    BY <1>2, <2>5, FollowsChain
  <2>6. ASSUME NEW mode \in Modes, NEW ins \in Lists, NEW c \in Promises, Combine(mode, ins, c)
        PROVE Follows'
    BY <1>2, <2>6, FollowsCombine
  <2>7. ASSUME NEW k \in Routines, NEW p \in Promises, Async(k, p) PROVE Follows'
    BY <1>2, <2>7, FollowsAsync
  <2> QED
    BY <1>2, <2>1, <2>2, <2>3, <2>4, <2>5, <2>6, <2>7 DEF Next
<1> QED
  BY <1>1, <1>2

LEMMA FollowsInit == ASSUME Init PROVE Follows
<1>1. chains = {} /\ owed = {} /\ \A p \in Promises : reactions[p] = <<>>
  BY DEF Init
<1>2. StackLinks(stack) = {}
  <2>1. Len(stack) = 0 /\ 1 .. 0 = {}
    BY DEF Init
  <2> QED
    BY <2>1 DEF StackLinks
<1>3. \A p \in Promises : ListLinks(p, reactions[p]) = {}
  <2>1. Range(<<>>) = {}
    BY DEF Range
  <2> QED
    BY <1>1, <2>1 DEF ListLinks
<1>4. Links = {}
  BY <1>2, <1>3 DEF Links, HeapLinks
<1>5. Kids = {}
  BY <1>1 DEF Kids
<1> QED
  BY <1>1, <1>4, <1>5 DEF Follows, Single, Placed, Alone

\* When all functions have returned, only pending promises are linked.
LEMMA QuietLinks == ASSUME Base, Quiet, NEW p \in Promises, NEW r, Linked(p, r)
  PROVE Pending(p)
<1>1. PICK l \in Links : l.parent = p /\ l.r = r
  BY DEF Linked
<1>2. StackLinks(stack) = {}
  <2>1. Len(stack) = 0 /\ 1 .. 0 = {}
    BY DEF Quiet
  <2> QED
    BY <2>1 DEF StackLinks
<1>3. PICK q \in Promises : l \in ListLinks(q, reactions[q])
  BY <1>1, <1>2 DEF Links, HeapLinks
<1>4. q = p /\ reactions[p] # <<>>
  <2>1. l.parent = q /\ \E s : s \in Range(reactions[q])
    BY <1>3 DEF ListLinks, Link
  <2>2. Range(<<>>) = {}
    BY DEF Range
  <2> QED
    BY <1>1, <2>1, <2>2
<1> QED
  BY <1>4 DEF Base, Detached

LEMMA ChildrenRight == ASSUME Base, Apart, Follows PROVE ChildFollows
<1> SUFFICES ASSUME Quiet, NEW x \in chains, x.r.child \notin cancels
             PROVE LET st == state[x.parent]
                       child == state[x.r.child]
                       decides == [then |-> {"fulfilled"}, catch |-> {"rejected"},
                                   finally |-> {"fulfilled", "rejected"}][x.r.kind]
                   IN  IF st \notin decides THEN child \in {"pending", st}
                       ELSE IF x.r.kind = "finally" \/ ~x.r.handler THEN child = st
                       ELSE child \in {"fulfilled", "rejected"}
  BY DEF ChildFollows
<1>1. x.parent \in Promises /\ x.r \in Reaction /\ x.r.kind \in {"then", "catch", "finally"}
  BY DEF Apart, Reaction
<1>2. PICK st : st = state[x.parent]
  OBVIOUS
<1>3. PICK child : child = state[x.r.child]
  OBVIOUS
<1>4. PICK decides : decides = [then |-> {"fulfilled"}, catch |-> {"rejected"},
                                finally |-> {"fulfilled", "rejected"}][x.r.kind]
  OBVIOUS
<1>5. st \in decides <=> st \in Ends /\ Matches(x.r, st)
  <2>1. CASE x.r.kind = "then"
    BY <1>4, <2>1 DEF Ends, Matches
  <2>2. CASE x.r.kind = "catch"
    BY <1>4, <2>2 DEF Ends, Matches
  <2>3. CASE x.r.kind = "finally"
    BY <1>4, <2>3 DEF Ends, Matches
  <2> QED
    BY <1>1, <2>1, <2>2, <2>3
<1>6. child = "pending" \/ (st \in Ends /\ Decided(x.r, st, child))
  BY <1>2, <1>3 DEF Follows, Rightly
<1>7. ASSUME child = "pending", st \in decides PROVE FALSE
  <2>1. Linked(x.parent, x.r)
    BY <1>2, <1>3, <1>5, <1>7 DEF Follows, Awaited, Ends
  <2>2. st = "pending"
    BY <1>1, <1>2, <2>1, QuietLinks DEF Pending
  <2> QED
    BY <1>5, <1>7, <2>2 DEF Ends
<1>8. CASE st \notin decides
  BY <1>2, <1>3, <1>4, <1>5, <1>6, <1>8 DEF Decided
<1>9. CASE st \in decides
  <2>1. Decided(x.r, st, child)
    BY <1>6, <1>7, <1>9
  <2> QED
    BY <1>2, <1>3, <1>4, <1>9, <2>1 DEF Decided, Ends
<1> QED
  BY <1>8, <1>9

\* Whenever all functions have returned, the child of a reaction whose state has
\* come is settled, and as handler and promise say: in the meantime a reaction
\* is never lost, and none but it settles its child, except for a child that is
\* cancelled.
THEOREM ChildrenFollow ==
  ASSUME ~Forgetful, IsFiniteSet(Promises), IsFiniteSet(Routines) PROVE Spec => []ChildFollows
<1>1. Whole
  BY DEF Whole
<1>2. Init => Follows
  BY FollowsInit
<1>3. Cared /\ Apart /\ Follows /\ [Next]_vars => Follows'
  BY <1>1, FollowsStep
<1>4. Cared /\ Apart /\ Follows => ChildFollows
  BY ChildrenRight DEF Cared
<1> QED
  BY <1>2, <1>3, <1>4, CaredHolds, ApartHolds, PTL DEF Spec


\* A promise that is settled keeps its state, and so does one whose memory was
\* given back: whoever could settle it still, a handler, an event, a coroutine
\* or a combination, would have kept it.
THEOREM StatesStay ==
  ASSUME ~Forgetful, IsFiniteSet(Promises), IsFiniteSet(Routines)
  PROVE Spec => [][\A p \in Promises : Settled(p) \/ p \in freed => state'[p] = state[p]]_vars
<1>1. Whole
  BY DEF Whole
<1>2. Cared /\ [Next]_vars => [\A p \in Promises : Settled(p) \/ p \in freed => state'[p] = state[p]]_vars
  <2> SUFFICES ASSUME Cared, Next, NEW p \in Promises, Settled(p) \/ p \in freed
               PROVE state'[p] = state[p]
    OBVIOUS
  <2>1. CASE Settled(p)
    BY <2>1, EndsStay DEF Settled, Ends, Cared
  <2>2. CASE p \in freed
    BY <1>1, <2>2, FreedStay
  <2> QED
    BY <2>1, <2>2
<1> QED
  BY <1>2, CaredHolds, PTL DEF Spec


-----------------------------------------------------------------------------
(* Types.                                                                  *)

\* The count of a combination that is not done is less than its inputs are.
Tallied == \A c \in Promises :
  /\ combi[c].count \in 0 .. Len(combi[c].ins)
  /\ ~combi[c].done => combi[c].count < Len(combi[c].ins)

LEMMA CountedLess ==
  ASSUME NEW mode \in Modes, NEW ins \in Lists, \A p \in Range(ins) : Pending(p) \/ Settled(p),
         AtOnce(mode, ins) = None
  PROVE CountedBefore(mode, ins) \in 0 .. Len(ins) /\ CountedBefore(mode, ins) < Len(ins)
<1>0. "rejected" # None /\ "fulfilled" # None
  BY DEF None
<1>1. PICK n : n = Len(ins)
  OBVIOUS
<1>2. n \in Nat \ {0}
  BY <1>1, ListIs
<1>3. ASSUME Unsettled(ins) # {}
      PROVE n - Cardinality(Unsettled(ins)) \in 0 .. n /\ n - Cardinality(Unsettled(ins)) < n
  <2>1. PICK S : S = {p \in Range(ins) : ~Pending(p)}
    OBVIOUS
  <2>2. n - Cardinality(Unsettled(ins)) = Weigh(ins, S) /\ ~(\A p \in Range(ins) : ~Pending(p))
    BY <1>1, <1>3, <2>1, UnsettledSays
  <2>3. Weigh(ins, S) \in 0 .. n /\ (Weigh(ins, S) = n <=> \A p \in Range(ins) : p \in S)
    BY <1>1, Weights
  <2>4. ~(\A p \in Range(ins) : p \in S)
    BY <2>1, <2>2
  <2>5. PICK w : w = Weigh(ins, S)
    OBVIOUS
  <2>6. w \in 0 .. n /\ w # n
    BY <2>3, <2>4, <2>5
  <2>7. w < n
    BY ONLY <1>2, <2>6
  <2> QED
    BY <2>2, <2>5, <2>6, <2>7
<1>4. PICK f, r : f = Count(ins, "fulfilled") /\ r = Count(ins, "rejected")
  OBVIOUS
<1>5. f \in 0 .. n /\ r \in 0 .. n
  BY <1>1, <1>4, CountSays
<1>6. /\ r > 0 => AtOnce("all", ins) = "rejected"
      /\ r = 0 => AtOnce("all", ins) = (IF Unsettled(ins) = {} THEN "fulfilled" ELSE None)
      /\ AtOnce("settled", ins) = (IF Unsettled(ins) = {} THEN "fulfilled" ELSE None)
      /\ f > 0 => AtOnce("any", ins) = "fulfilled"
      /\ ~(f > 0) => AtOnce("any", ins) = (IF r = n THEN "rejected" ELSE None)
  BY <1>1, <1>4, AtOnceOf
<1>7. CASE mode \in {"all", "settled"}
  <2>1. Unsettled(ins) # {}
    BY <1>0, <1>5, <1>6, <1>7
  <2>2. CountedBefore(mode, ins) = n - Cardinality(Unsettled(ins))
    BY <1>1, <1>7 DEF CountedBefore
  <2> QED
    BY <1>1, <1>3, <2>1, <2>2
<1>8. CASE mode = "any"
  <2>1. r # n
    BY <1>0, <1>6, <1>8
  <2>2. CountedBefore(mode, ins) = r
    BY <1>4, <1>8 DEF CountedBefore
  <2>3. r < n
    BY ONLY <1>2, <1>5, <2>1
  <2> QED
    BY <1>1, <1>5, <2>2, <2>3
<1>9. CASE mode = "race"
  <2>1. CountedBefore(mode, ins) = 0
    BY <1>9 DEF CountedBefore
  <2> QED
    BY <1>1, <1>2, <2>1
<1> QED
  BY <1>7, <1>8, <1>9

LEMMA DecisionWaits == ASSUME NEW mode \in Modes, NEW n, NEW ins, NEW st \in Ends,
                              Decision(mode, n, ins, st) = None
  PROVE n + 1 # Len(ins)
<1>1. "rejected" # None /\ "fulfilled" # None
  BY DEF None
<1> QED
  BY <1>1 DEF Decision, Ends

LEMMA TalliedStep == ASSUME Base, Tallied, [Next]_vars PROVE Tallied'
<1>1. CASE combi' = combi
  BY <1>1 DEF Tallied
<1>2. ASSUME NEW mode \in Modes, NEW ins \in Lists, NEW c \in Promises, Combine(mode, ins, c)
      PROVE Tallied'
  <2>1. PICK now \in Ends \cup {None} :
          /\ now = AtOnce(mode, ins) /\ \A p \in Range(ins) : p \in held
          /\ combi'[c].ins = ins
          /\ now = None => combi'[c].count = CountedBefore(mode, ins)
          /\ combi'[c].done <=> now # None
          /\ \A p \in Promises : p # c => combi'[p] = combi[p]
    BY <1>2, CombineEffect
  <2>2. \A p \in Range(ins) : Pending(p) \/ Settled(p)
    BY <2>1 DEF Base, Made, Typed, States, Pending, Settled
  <2>3. Len(ins) \in Nat
    BY ListIs
  <2>4. CASE now = None
    BY <2>1, <2>2, <2>4, CountedLess DEF Tallied
  <2>5. CASE now # None
    <3>1. PICK x \in Combi : x = [NoCombi EXCEPT !.mode = mode, !.ins = ins]
      BY ListIs DEF NoCombi, Combi
    <3>2. combi' = [combi EXCEPT ![c] = x]
      BY <1>2, <2>1, <2>5, <3>1 DEF Combine
    <3>3. combi'[c].count = 0
      <4>1. x.count = 0
        BY <3>1 DEF NoCombi
      <4>2. combi'[c] = x
        BY <3>2 DEF Base, Typed
      <4> QED
        BY <4>1, <4>2
    <3> QED
      BY <2>1, <2>3, <2>5, <3>3 DEF Tallied
  <2> QED
    BY <2>4, <2>5
<1>3. CASE NotifyCombination
  <2>1. stack # <<>> /\ Top.op = "notify"
    BY <1>3 DEF NotifyCombination, At
  <2>2. PICK p \in Promises : p = Top.p /\ state[p] \in Ends
    BY <2>1, TopTells
  <2>3. PICK c \in Promises : c = slot[p]
    BY <1>3, <2>2 DEF NotifyCombination
  <2>4. PICK x \in Combi : x = combi[c]
    BY DEF Base, Typed
  <2>5. PICK d : d = Decision(x.mode, x.count, x.ins, state[p])
    OBVIOUS
  <2>6. \/ combi' = [combi EXCEPT ![c].done = TRUE]
        \/ combi' = [combi EXCEPT ![c].count = @ + 1] /\ d = None /\ ~x.done
    BY <1>3, <2>2, <2>3, <2>4, <2>5 DEF NotifyCombination
  <2>7. PICK n, m : n = x.count /\ m = Len(x.ins)
    OBVIOUS
  <2>8. n \in 0 .. m /\ (~x.done => n < m) /\ m \in Nat
    BY <2>4, <2>7 DEF Tallied, Combi
  <2>9. CASE combi' = [combi EXCEPT ![c].done = TRUE]
    <3>1. combi' = [combi EXCEPT ![c] = [x EXCEPT !.done = TRUE]]
      BY <2>4, <2>9
    <3>2. PICK y : y = [x EXCEPT !.done = TRUE]
      OBVIOUS
    <3>3. y.done /\ y.count = n /\ y.ins = x.ins
      BY <2>7, <3>2 DEF Combi
    <3>4. combi'[c] = y /\ \A q \in Promises : q # c => combi'[q] = combi[q]
      BY <3>1, <3>2 DEF Base, Typed
    <3> QED
      BY <2>7, <2>8, <3>3, <3>4 DEF Tallied
  <2>10. CASE combi' = [combi EXCEPT ![c].count = @ + 1] /\ d = None /\ ~x.done
    <3>1. combi' = [combi EXCEPT ![c] = [x EXCEPT !.count = n + 1]]
      BY <2>4, <2>7, <2>10
    <3>2. PICK y : y = [x EXCEPT !.count = n + 1]
      OBVIOUS
    <3>3. y.count = n + 1 /\ y.ins = x.ins
      BY <3>2 DEF Combi
    <3>4. combi'[c] = y /\ \A q \in Promises : q # c => combi'[q] = combi[q]
      BY <3>1, <3>2 DEF Base, Typed
    <3>5. PICK mode \in Modes, st \in Ends : mode = x.mode /\ st = state[p]
      BY <2>2, <2>4, <2>10 DEF Base, Finishes
    <3>6. n + 1 # m
      BY <2>5, <2>7, <2>10, <3>5, DecisionWaits
    <3>7. n < m
      BY <2>8, <2>10
    <3>8. n + 1 \in 0 .. m /\ n + 1 < m
      BY ONLY <2>8, <3>6, <3>7
    <3> QED
      BY <2>7, <3>3, <3>4, <3>8 DEF Tallied
  <2> QED
    BY <2>6, <2>9, <2>10
<1>4. CASE CombinationEnds
  <2>1. PICK c \in Promises, x \in Combi : c = Top.p /\ x = combi[c]
    <3>1. stack # <<>> /\ Top.op = "combined"
      BY <1>4 DEF CombinationEnds, At
    <3>2. PICK f \in Frames : f = Top
      BY <3>1, TopOf
    <3> QED
      BY <3>1, <3>2, FrameKinds DEF Base, Typed
  <2>2. combi' = [combi EXCEPT ![c] = [x EXCEPT !.live = FALSE]]
    BY <1>4, <2>1 DEF CombinationEnds
  <2>3. PICK y : y = [x EXCEPT !.live = FALSE]
    OBVIOUS
  <2>4. y.done = x.done /\ y.count = x.count /\ y.ins = x.ins
    BY <2>3 DEF Combi
  <2>5. combi'[c] = y /\ \A q \in Promises : q # c => combi'[q] = combi[q]
    BY <2>2, <2>3 DEF Base, Typed
  <2> QED
    BY <2>1, <2>4, <2>5 DEF Tallied
<1>5. CASE UNCHANGED vars
  BY <1>1, <1>5 DEF vars
<1>6. CASE Plain
  BY <1>1, <1>6 DEF Plain
<1>7. ASSUME NEW k \in Routines, NEW p \in Promises, Async(k, p) PROVE combi' = combi
  BY <1>7 DEF Async
<1>8. ASSUME NEW p \in Promises, AwaitKeyword(p) \/ AwaitFunction(p) PROVE combi' = combi
  BY <1>8 DEF AwaitKeyword, AwaitFunction
<1>9. CASE NotifyRoutine \/ NotifyNobody \/ RoutineFreed
  BY <1>1, <1>9 DEF NotifyRoutine, NotifyNobody, RoutineFreed
<1> QED
  BY <1>1, <1>2, <1>3, <1>4, <1>5, <1>6, <1>7, <1>8, <1>9, Steps

LEMMA CancelsNamed == ASSUME cancels \subseteq Promises, Next PROVE cancels' \subseteq Promises
<1>1. CASE Native
  BY <1>1 DEF Native, RunReaction, ReactionsDone, ReleaseStep, Return, NotifyCombination,
     CombinationEnds, NotifyRoutine, NotifyNobody, RoutineFreed, historyVars
<1>2. ASSUME NEW ok \in BOOLEAN, HandlerEnds(ok) \/ RoutineEnds(ok) PROVE cancels' = cancels
  BY <1>2 DEF HandlerEnds, RoutineEnds, historyVars
<1>3. ASSUME NEW p \in Promises,
             New(p) \/ Cancel(p) \/ Collect(p) \/ AwaitKeyword(p) \/ AwaitFunction(p)
      PROVE cancels' \subseteq cancels \cup {p}
  BY <1>3 DEF New, Cancel, Collect, AwaitKeyword, AwaitFunction, historyVars
<1>4. ASSUME NEW p \in Promises, NEW st \in {"fulfilled", "rejected"}, Complete(p, st)
      PROVE cancels' = cancels
  BY <1>4 DEF Complete, historyVars
<1>5. ASSUME NEW p \in Promises, NEW c \in Promises,
             NEW kind \in {"then", "catch", "finally"}, NEW h \in BOOLEAN, Chain(p, c, kind, h)
      PROVE cancels' = cancels
  BY <1>5 DEF Chain
<1>6. ASSUME NEW mode \in Modes, NEW ins \in Lists, NEW c \in Promises, Combine(mode, ins, c)
      PROVE cancels' = cancels
  BY <1>6 DEF Combine, historyVars
<1>7. ASSUME NEW k \in Routines, NEW p \in Promises, Async(k, p) PROVE cancels' = cancels
  BY <1>7 DEF Async, historyVars
<1> QED
  BY <1>1, <1>2, <1>3, <1>4, <1>5, <1>6, <1>7 DEF Next

\* Everything has its type in every program; that no reference count falls
\* below zero is what needs the balance of references.
THEOREM TypeCorrect ==
  ASSUME IsFiniteSet(Promises), IsFiniteSet(Routines) PROVE Spec => []TypeOK
<1> DEFINE Names == Tallied /\ freed \subseteq Promises /\ cancels \subseteq Promises
<1>1. Whole
  BY DEF Whole
<1>2. Init => Balanced /\ Lasts /\ Names
  <2> SUFFICES ASSUME Init PROVE Balanced /\ Lasts /\ Names
    OBVIOUS
  <2>1. Tallied
    BY DEF Init, Tallied, NoCombi
  <2> QED
    BY <1>1, <2>1, BalancedInit, LastsInit DEF Init
<1>3. Base /\ Balanced /\ Lasts /\ Names /\ [Next]_vars => Balanced' /\ Lasts' /\ Names'
  <2> SUFFICES ASSUME Base, Balanced, Lasts, Names, [Next]_vars PROVE Balanced' /\ Lasts' /\ Names'
    OBVIOUS
  <2>1. Tallied'
    BY TalliedStep
  <2>2. CASE Next
    <3>1. freed' = freed \/ \E p \in Promises : freed' = freed \cup {p}
      BY <2>2, FreedGrows
    <3> QED
      BY <1>1, <2>1, <2>2, <3>1, BalancedNext, LastsStep, CancelsNamed
  <2>3. CASE UNCHANGED vars
    <3>1. Balanced'
      BY <2>3, BalancedSame
    <3>2. UNCHANGED <<freed, cancels, stack, combi>>
      BY <2>3 DEF vars, heapVars, historyVars
    <3> QED
      BY <2>1, <3>1, <3>2 DEF Lasts
  <2> QED
    BY <2>2, <2>3
<1>4. Base /\ Apart /\ Balanced /\ Names => TypeOK
  <2> SUFFICES ASSUME Base, Apart, Balanced, Names PROVE TypeOK
    OBVIOUS
  <2>1. \A k \in 1 .. Len(stack) : stack[k].op \in
          {"react", "handle", "notify", "release", "run", "ended", "combined", "method"}
    <3>1. ASSUME NEW f \in Frames
          PROVE f.op \in {"react", "handle", "notify", "release", "run", "ended", "combined", "method"}
      BY DEF Frames
    <3> QED
      BY <3>1 DEF Base, Good
  <2>2. \A c \in Promises : /\ combi[c].mode \in Modes \cup {None}
                            /\ combi[c].ins \in Seq(Promises)
                            /\ combi[c].count \in 0 .. Len(combi[c].ins)
    BY DEF Base, Typed, Combi, Tallied
  <2> QED
    BY <2>1, <2>2 DEF TypeOK, Base, Typed, States, Apart, Balanced
<1>5. Spec => [](Balanced /\ Lasts /\ Names)
  BY <1>2, <1>3, BaseHolds, PTL DEF Spec
<1> QED
  BY <1>4, <1>5, BaseHolds, ApartHolds, PTL
=============================================================================
