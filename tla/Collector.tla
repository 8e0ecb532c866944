------------------------------ MODULE Collector ------------------------------
(***************************************************************************)
(* The incremental garbage collector of lgc.c: single steps of the         *)
(* collector alternate with a program that makes objects and stores them   *)
(* in each other.                                                          *)
(*                                                                         *)
(* An object holds entries, pairs of a key and a value; the fields of      *)
(* closures, threads and the like are entries with the key `none', as are  *)
(* those under keys that are not collectable.  Colours are as in the code, *)
(* but the two whites, which change places in each cycle, are called white *)
(* (the current one) and dead (the other one).                             *)
(***************************************************************************)
EXTENDS Naturals, Sequences, FiniteSets, SequencesExt

CONSTANTS
  Objects,      \* memory for objects, main included
  main,         \* the main thread: its stack is what the program can reach
  Kinds,        \* kinds of objects the program makes
  Keyed,        \* bound: kinds whose keys may be collectable objects
  MaxEntries,   \* bound: entries of all objects but main
  Busy,         \* bound: with more objects the program only runs between cycles
                \* and does not ask for a full one,
  Crowd         \* and the objects are of these kinds

ASSUME CollectorAssumption ==
  /\ IsFiniteSet(Objects) /\ main \in Objects
  /\ Objects \cap {"none", "allgc", "finobj", "tobefnz"} = {}
  /\ Kinds \subseteq {"string", "table", "closure", "thread", "weak", "ephemeron",
                      "allweak", "map"}
  /\ Keyed \subseteq Kinds \cap {"table", "weak", "ephemeron", "allweak", "map"}
  /\ MaxEntries \in Nat \ {0} /\ Busy \in Nat /\ Crowd \subseteq Kinds

VARIABLES
  kind,         \* o->tt, or "free"
  entries,      \* what an object holds
  color,        \* o->marked
  list,         \* the lists allgc, finobj and tobefnz, linked by o->next
  gcstate,      \* g->gcstate
  gray, grayagain, weak, allweak, ephemeron,   \* the gray lists, as sets
  stage,        \* where atomic() is
  todo,         \* a list that atomic() has put aside
  changed,      \* local of convergeephemerons
  orig,         \* weak and allweak before finalization (origweak, origall)
  sweepgc,      \* g->sweepgc: the address of a pointer, or none
  full,         \* where luaC_fullgc is
  doomed        \* history: what could not be reached when the cycle began

grayLists == <<gray, grayagain, weak, allweak, ephemeron>>
atomicVars == <<stage, todo, changed, orig>>
vars == <<kind, entries, color, list, gcstate, grayLists, atomicVars, sweepgc, full, doomed>>

None == "none"
Values(o) == {e[2] : e \in entries[o]}
Keys(o) == {e[1] : e \in entries[o]} \ {None}
Stack == Values(main)
Held == UNION {{<<o, e>> : e \in entries[o]} : o \in Objects \ {main}}

\* References that keep what they refer to alive
Refs(o) ==
  CASE kind[o] \in {"ephemeron", "allweak"} -> {}
    [] kind[o] = "weak" -> Keys(o)
    [] OTHER -> Keys(o) \cup Values(o)

\* What next leads to from S, in as many steps as there are objects
Closure(S, next) ==
  LET within[n \in 0 .. Cardinality(Objects)] ==
        IF n = 0 THEN S
        ELSE LET nearer == within[n - 1] IN nearer \cup UNION {next[x] : x \in nearer}
  IN  within[Cardinality(Objects)]

Allocated == {o \in Objects : kind[o] # "free"}
White(o) == color[o] \in {"white", "dead"}
Listed(name) == Range(list[name])

\* Macro keepinvariant and issweepphase
KeepInvariant == gcstate \in {"propagate", "enteratomic", "atomic"}
SweepPhase == gcstate \in {"swpallgc", "swpfinobj", "swptobefnz", "swpend"}

Colors == {"white", "gray", "black", "dead"}

TypeOK ==
  /\ kind \in [Objects -> Kinds \cup {"free", "main"}]
  /\ entries \in [Objects -> SUBSET ((Objects \cup {None}) \X Objects)]
  /\ Cardinality(Held) <= MaxEntries
  /\ color \in [Objects -> Colors]
  /\ list \in [{"allgc", "finobj", "tobefnz"} -> Seq(Allocated)]
  /\ LET all == list.allgc \o list.finobj \o list.tobefnz
     IN  Range(all) = Allocated /\ Len(all) = Cardinality(Allocated)
  /\ gcstate \in {"propagate", "enteratomic", "atomic", "swpallgc", "swpfinobj",
                  "swptobefnz", "swpend", "callfin", "pause"}
  /\ gray \subseteq Allocated /\ grayagain \subseteq Objects
  /\ weak \cup allweak \cup ephemeron \cup todo \subseteq Objects
  /\ stage \in {None, "roots", "again", "converge", "finalize", "reconverge"}
  /\ changed \in BOOLEAN
  /\ orig \in [weak : SUBSET Objects, allweak : SUBSET Objects]
  /\ sweepgc \in {None, "allgc", "finobj", "tobefnz"} \cup Objects
  /\ full \in {None, "flush", "finish"}
  /\ doomed \subseteq Objects

NoOrig == [weak |-> {}, allweak |-> {}]

Init ==
  /\ kind = [o \in Objects |-> IF o = main THEN "main" ELSE "free"]
  /\ entries = [o \in Objects |-> {}]
  /\ color = [o \in Objects |-> "white"]
  /\ list = [allgc |-> <<main>>, finobj |-> <<>>, tobefnz |-> <<>>]
  /\ gcstate = "pause"
  /\ gray = {} /\ grayagain = {} /\ weak = {} /\ allweak = {} /\ ephemeron = {}
  /\ stage = None /\ todo = {} /\ changed = FALSE /\ orig = NoOrig
  /\ sweepgc = None /\ full = None /\ doomed = {}

-----------------------------------------------------------------------------
(* Marking                                                                 *)

\* reallymarkobject for the white ones in S: strings turn black at once,
\* everything else becomes gray.
Marked(col, S) ==
  [o \in Objects |-> IF o \notin S \/ ~White(o) THEN col[o]
                     ELSE IF kind[o] = "string" THEN "black" ELSE "gray"]
NewGray(S) == {o \in S : White(o) /\ kind[o] # "string"}

\* Macro makewhite
Whiten(o) == color' = [color EXCEPT ![o] = "white"]

-----------------------------------------------------------------------------
(* The program.  It runs between the steps of the collector; during a full *)
(* collection only in finalizers.                                          *)

Running ==
  /\ stage = None /\ (full # None => gcstate = "callfin")
  /\ gcstate # "pause" => Cardinality(Allocated) <= Busy

\* A function of the program puts x on the stack, or takes it off.  Threads
\* have no barriers.
Pushed(x) == [entries EXCEPT ![main] = @ \cup {<<None, x>>}]
Drop(x) ==
  /\ Running /\ x \in Stack
  /\ entries' = [entries EXCEPT ![main] = @ \ {<<None, x>>}]
  /\ UNCHANGED <<kind, color, list, gcstate, grayLists, atomicVars, sweepgc, full, doomed>>

\* Reading a field: also of a weak table, where it makes the object strong.
Load(c, x) ==
  /\ Running /\ c \in Stack /\ x \in (Keys(c) \cup Values(c)) \ Stack
  /\ entries' = Pushed(x)
  /\ UNCHANGED <<kind, color, list, gcstate, grayLists, atomicVars, sweepgc, full, doomed>>

\* luaC_newobj
New(o, k) ==
  /\ Running /\ kind[o] = "free"
  /\ Cardinality(Allocated) >= Busy =>
       \A x \in Allocated \ {main} : {k, kind[x]} \subseteq Crowd
  /\ kind' = [kind EXCEPT ![o] = k]
  /\ color' = [color EXCEPT ![o] = "white"]
  /\ list' = [list EXCEPT !.allgc = <<o>> \o @]
  /\ entries' = Pushed(o)
  /\ UNCHANGED <<gcstate, grayLists, atomicVars, sweepgc, full, doomed>>

\* Form of Barrier that has none for a key the table has already.
BarrierFresh(c, fresh) ==
  CASE kind[c] \in {"table", "weak", "ephemeron", "allweak", "map"} ->
         IF fresh THEN "back" ELSE None
    [] kind[c] = "closure" -> "forward"
    [] OTHER -> None

\* Which barrier a store uses: tables and maps go back, but a map has none for
\* a key it has already (luaM_setval); closures, upvalues, prototypes and
\* metatables go forward; threads have none.
Barrier(c, fresh) ==
  CASE kind[c] \in {"table", "weak", "ephemeron", "allweak"} -> "back"
    [] kind[c] = "map" -> IF fresh THEN "back" ELSE None
    [] kind[c] = "closure" -> "forward"
    [] OTHER -> None

\* luaC_barrierback_ and luaC_barrier_ for a store of S into c
Shade(c, S, how) ==
  IF color[c] # "black" \/ how = None \/ \A x \in S : ~White(x)
  THEN UNCHANGED <<color, gray, grayagain>>
  ELSE IF how = "back"
  THEN /\ color' = [color EXCEPT ![c] = "gray"]
       /\ grayagain' = grayagain \cup {c} /\ UNCHANGED gray
  ELSE IF KeepInvariant
  THEN /\ color' = Marked(color, S)
       /\ gray' = gray \cup NewGray(S) /\ UNCHANGED grayagain
  ELSE Whiten(c) /\ UNCHANGED <<gray, grayagain>>

\* Assignment: the value of a key is replaced.
Store(c, k, v) ==
  /\ Running /\ c \in Stack /\ v \in Stack /\ k \in Stack \cup {None}
  /\ kind[c] \notin {"string", "main"}
  /\ kind[c] \notin Keyed => k = None
  /\ LET old == {e \in entries[c] : e[1] = k}
         fresh == old = {}
     IN  /\ entries[c] # (entries[c] \ old) \cup {<<k, v>>}
         /\ fresh => Cardinality(Held) < MaxEntries
         /\ entries' = [entries EXCEPT ![c] = (@ \ old) \cup {<<k, v>>}]
         /\ Shade(c, {k, v} \ {None}, Barrier(c, fresh))
  /\ UNCHANGED <<kind, list, gcstate, weak, allweak, ephemeron, atomicVars, sweepgc, full, doomed>>

Erase(c, e) ==
  /\ Running /\ c \in Stack /\ e \in entries[c]
  /\ entries' = [entries EXCEPT ![c] = @ \ {e}]
  /\ UNCHANGED <<kind, color, list, gcstate, grayLists, atomicVars, sweepgc, full, doomed>>

-----------------------------------------------------------------------------
(* Sweeping.  An address of a pointer is the name of a list, for its head,  *)
(* or an object, for its field next.                                       *)

ListOf(ls, o) == CHOOSE name \in DOMAIN ls : o \in Range(ls[name])
IndexIn(s, o) == CHOOSE i \in 1 .. Len(s) : s[i] = o

\* The objects behind an address
Behind(ls, p) ==
  IF p \in DOMAIN ls THEN ls[p]
  ELSE LET s == ls[ListOf(ls, p)] IN SubSeq(s, IndexIn(s, p) + 1, Len(s))

\* The members of S in the sequence s, in their order
Only(s, S) ==
  LET only[n \in 0 .. Len(s)] ==
        IF n = 0 THEN <<>>
        ELSE IF s[n] \in S THEN Append(only[n - 1], s[n]) ELSE only[n - 1]
  IN  only[Len(s)]

Without(ls, gone) == [name \in DOMAIN ls |-> Only(ls[name], Objects \ gone)]

\* sweeptolive: frees dead objects behind p up to the first live one, which
\* becomes white; the sweep goes on at its next field, or is over.
SweepToLive(p, col) ==
  LET s == Behind(list, p)
      live == {i \in 1 .. Len(s) : col[s[i]] # "dead"}
      first == CHOOSE i \in live : \A j \in live : i <= j
  IN  [gone |-> {s[i] : i \in {j \in 1 .. Len(s) : \A l \in live : j < l}},
       kept |-> IF live = {} THEN {} ELSE {s[first]},
       next |-> IF live = {} \/ first = Len(s) THEN None ELSE s[first]]

NoSweep == [gone |-> {}, kept |-> {}, next |-> None]

\* sweeplist for one object: it is freed, or becomes white.
SweepOne(p) ==
  LET s == Behind(list, p) IN
    IF s = <<>> THEN NoSweep
    ELSE IF color[s[1]] = "dead"
    THEN [gone |-> {s[1]}, kept |-> {}, next |-> IF Len(s) = 1 THEN None ELSE p]
    ELSE [gone |-> {}, kept |-> {s[1]}, next |-> IF Len(s) = 1 THEN None ELSE s[1]]

\* What a sweep r does to objects with these colours and entries (freeobj)
Sweep(r, col, ents) ==
  /\ kind' = [o \in Objects |-> IF o \in r.gone THEN "free" ELSE kind[o]]
  /\ entries' = [o \in Objects |-> IF o \in r.gone THEN {} ELSE ents[o]]
  /\ color' = [o \in Objects |-> IF o \in r.gone \cup r.kept THEN "white" ELSE col[o]]
  /\ sweepgc' = r.next

Finalizable(o) == kind[o] \in {"table", "weak", "ephemeron", "allweak"}

\* Form of SetFinalizer that leaves the address of the sweep in the object.
SetFinalizerSwept(o) ==
  /\ Running /\ o \in Stack /\ o \in Listed("allgc") /\ Finalizable(o)
  /\ color' = [color EXCEPT ![o] = IF SweepPhase THEN "white" ELSE @]
  /\ list' = [Without(list, {o}) EXCEPT !.finobj = <<o>> \o @]
  /\ UNCHANGED <<kind, entries, gcstate, grayLists, atomicVars, sweepgc, full, doomed>>

\* luaC_checkfinalizer: an object that gets a finalizer moves from allgc to
\* finobj.  While sweeping it is swept first, and if the sweep is to go on
\* behind it, the sweep advances.  An object whose finalizer has been called
\* may get one again.
SetFinalizer(o) ==
  /\ Running /\ o \in Stack /\ o \in Listed("allgc") /\ Finalizable(o)
  /\ LET r == IF SweepPhase /\ sweepgc = o THEN SweepToLive(o, color)
              ELSE [NoSweep EXCEPT !.next = sweepgc]
     IN  /\ Sweep(r, [color EXCEPT ![o] = IF SweepPhase THEN "white" ELSE @], entries)
         /\ list' = [Without(list, r.gone \cup {o}) EXCEPT !.finobj = <<o>> \o @]
         /\ doomed' = doomed \ r.gone
  /\ UNCHANGED <<gcstate, grayLists, atomicVars, full>>

-----------------------------------------------------------------------------
(* Single steps of the collector                                           *)

\* What the program can reach at all, through weak references too, or a
\* finalizer still has to see
Kept == {main} \cup Listed("finobj") \cup Listed("tobefnz")
Useful == Closure(Kept, [o \in Objects |-> Keys(o) \cup Values(o)])

\* restartcollection; in a full collection it goes straight to atomic().
Restart ==
  /\ gcstate = "pause" /\ full # "finish"
  /\ LET roots == {main} \cup Listed("tobefnz") IN
       /\ color' = Marked(color, roots) /\ gray' = NewGray(roots)
  /\ grayagain' = {} /\ weak' = {} /\ allweak' = {} /\ ephemeron' = {}
  /\ gcstate' = IF full = "flush" THEN "enteratomic" ELSE "propagate"
  /\ full' = IF full = "flush" THEN "finish" ELSE full
  /\ doomed' = Allocated \ Useful
  /\ UNCHANGED <<kind, entries, list, atomicVars, sweepgc>>

\* iscleared: strings are never removed from weak tables, but marked.
Cleared(o) == White(o) /\ kind[o] # "string"
StringsIn(S) == {o \in S : kind[o] = "string"}

\* What a visit to o marks: of an ephemeron table, values whose key is
\* marked; of a table with weak values, strings and keys.
Visits(o) ==
  CASE kind[o] = "ephemeron" ->
         {e[2] : e \in {x \in entries[o] : x[1] = None \/ ~Cleared(x[1])}} \cup StringsIn(Keys(o))
    [] kind[o] = "weak" -> Refs(o) \cup StringsIn(Values(o))
    [] OTHER -> Refs(o)

\* Which gray list o enters after the visit, or None if it stays black
\* (traverseweakvalue, traverseephemeron, traversetable, traversethread)
Relinked(o) ==
  LET ww == \E e \in entries[o] : e[1] # None /\ Cleared(e[1]) /\ White(e[2])
      wk == \E k \in Keys(o) : Cleared(k)
      wv == \E v \in Values(o) : Cleared(v)
  IN  CASE kind[o] \in {"thread", "main"} -> IF stage = None THEN "grayagain" ELSE None
        [] kind[o] = "weak" -> IF stage # None /\ wv THEN "weak" ELSE "grayagain"
        [] kind[o] = "ephemeron" -> IF stage = None THEN "grayagain"
                                    ELSE IF ww THEN "ephemeron"
                                    ELSE IF wk THEN "allweak" ELSE None
        [] kind[o] = "allweak" -> "allweak"
        [] OTHER -> None

\* The traversal of o, which has been taken out of its list
Traverse(o, grayleft, ephemeronleft) ==
  LET seen == [color EXCEPT ![o] = "black"]
      link == Relinked(o)
      marks == Visits(o) \ {o}
  IN  /\ color' = [Marked(seen, marks) EXCEPT ![o] = IF link = None THEN "black" ELSE "gray"]
      /\ gray' = grayleft \cup NewGray(marks)
      /\ grayagain' = IF link = "grayagain" THEN grayagain \cup {o} ELSE grayagain
      /\ weak' = IF link = "weak" THEN weak \cup {o} ELSE weak
      /\ allweak' = IF link = "allweak" THEN allweak \cup {o} ELSE allweak
      /\ ephemeron' = IF link = "ephemeron" THEN ephemeronleft \cup {o} ELSE ephemeronleft

\* propagatemark, in the propagate phase and in propagateall
Propagate(o) ==
  /\ gcstate \in {"propagate", "atomic"} /\ o \in gray
  /\ Traverse(o, gray \ {o}, ephemeron)
  /\ UNCHANGED <<kind, entries, list, gcstate, atomicVars, sweepgc, full, doomed>>

EndPropagate ==
  /\ gcstate = "propagate" /\ gray = {}
  /\ gcstate' = "enteratomic"
  /\ UNCHANGED <<kind, entries, color, list, grayLists, atomicVars, sweepgc, full, doomed>>

-----------------------------------------------------------------------------
(* The stages of atomic(): the program does not run between them.  Each one *)
(* begins when propagateall has emptied the gray list.                     *)

At(s) == stage = s /\ gray = {}
outsideAtomic == <<kind, sweepgc, full, doomed>>

\* Form of EnterAtomic that forgets the list grayagain.
EnterAtomicAnew ==
  /\ gcstate = "enteratomic"
  /\ gcstate' = "atomic" /\ stage' = "roots"
  /\ todo' = {} /\ grayagain' = {}
  /\ color' = Marked(color, {main}) /\ gray' = gray \cup NewGray({main})
  /\ UNCHANGED <<outsideAtomic, list, entries, weak, allweak, ephemeron, changed, orig>>

\* The running thread and what the registry refers to are marked.
EnterAtomic ==
  /\ gcstate = "enteratomic"
  /\ gcstate' = "atomic" /\ stage' = "roots"
  /\ todo' = grayagain /\ grayagain' = {}
  /\ color' = Marked(color, {main}) /\ gray' = gray \cup NewGray({main})
  /\ UNCHANGED <<outsideAtomic, list, entries, weak, allweak, ephemeron, changed, orig>>

\* The list grayagain from before
TraverseAgain ==
  /\ At("roots")
  /\ stage' = "again" /\ gray' = todo /\ todo' = {}
  /\ UNCHANGED <<outsideAtomic, list, entries, color, gcstate, grayagain, weak, allweak,
                 ephemeron, changed, orig>>

\* convergeephemerons, before and after the separation of objects that are to
\* be finalized: one round over the list ephemeron, which is rebuilt
Converge(from, to) ==
  /\ At(from)
  /\ stage' = to /\ todo' = ephemeron /\ ephemeron' = {} /\ changed' = FALSE
  /\ UNCHANGED <<outsideAtomic, list, entries, color, gcstate, gray, grayagain, weak, allweak, orig>>

\* Another round, since something was marked in the last one
ConvergeAgain == todo = {} /\ changed /\ (Converge("converge", "converge") \/ Converge("reconverge", "reconverge"))

\* A table in such a round; what it marks is propagated at once.
ConvergeTable(o) ==
  /\ gray = {} /\ o \in todo /\ stage \in {"converge", "reconverge"}
  /\ todo' = todo \ {o}
  /\ changed' = (changed \/ \E v \in Visits(o) \cap Values(o) : White(v))
  /\ Traverse(o, gray, ephemeron)
  /\ UNCHANGED <<outsideAtomic, list, entries, gcstate, stage, orig>>

Converged(s) == At(s) /\ todo = {} /\ ~changed

\* clearbyvalues and clearbykeys for the tables in S; strings among the values
\* and keys are marked.
ByValues(ents, S) ==
  [o \in Objects |-> IF o \in S THEN {e \in ents[o] : ~Cleared(e[2])} ELSE ents[o]]
ByKeys(ents, S) ==
  [o \in Objects |-> IF o \in S THEN {e \in ents[o] : e[1] = None \/ ~Cleared(e[1])} ELSE ents[o]]
WithStrings(S) == Marked(color, StringsIn(UNION {Keys(o) \cup Values(o) : o \in S}))

\* Form of Separate that takes what is not black.
SeparateGray ==
  /\ Converged("converge")
  /\ LET whites == {o \in Objects : color[o] # "black"}
         due == list.tobefnz \o Only(list.finobj, whites)
         tables == weak \cup allweak
     IN  /\ list' = [list EXCEPT !.finobj = Only(@, Objects \ whites), !.tobefnz = due]
         /\ entries' = ByValues(entries, tables)
         /\ color' = Marked(WithStrings(tables), Range(due))
         /\ gray' = NewGray(Range(due))
  /\ orig' = [weak |-> weak, allweak |-> allweak]
  /\ stage' = "finalize"
  /\ UNCHANGED <<outsideAtomic, gcstate, grayagain, weak, allweak, ephemeron, todo, changed>>

\* Form of Separate that clears by keys, too.
SeparateByKeys ==
  /\ Converged("converge")
  /\ LET whites == {o \in Objects : White(o)}
         due == list.tobefnz \o Only(list.finobj, whites)
         tables == weak \cup allweak
     IN  /\ list' = [list EXCEPT !.finobj = Only(@, Objects \ whites), !.tobefnz = due]
         /\ entries' = ByKeys(ByValues(entries, tables), ephemeron \cup allweak)
         /\ color' = Marked(WithStrings(tables), Range(due))
         /\ gray' = NewGray(Range(due))
  /\ orig' = [weak |-> weak, allweak |-> allweak]
  /\ stage' = "finalize"
  /\ UNCHANGED <<outsideAtomic, gcstate, grayagain, weak, allweak, ephemeron, todo, changed>>

\* separatetobefnz and markbeingfnz: unmarked objects with a finalizer are put
\* last in tobefnz and marked.  Weak values are cleared before.
Separate ==
  /\ Converged("converge")
  /\ LET whites == {o \in Objects : White(o)}
         due == list.tobefnz \o Only(list.finobj, whites)
         tables == weak \cup allweak
     IN  /\ list' = [list EXCEPT !.finobj = Only(@, Objects \ whites), !.tobefnz = due]
         /\ entries' = ByValues(entries, tables)
         /\ color' = Marked(WithStrings(tables), Range(due))
         /\ gray' = NewGray(Range(due))
  /\ orig' = [weak |-> weak, allweak |-> allweak]
  /\ stage' = "finalize"
  /\ UNCHANGED <<outsideAtomic, gcstate, grayagain, weak, allweak, ephemeron, todo, changed>>

\* The other white becomes current: what was white is dead from now on.
Flipped(col) ==
  [o \in Objects |-> IF col[o] = "white" /\ kind[o] # "free" THEN "dead" ELSE col[o]]

\* Form of FinishAtomic that does not look at the tables that finalizers reach.
FinishAtomicEarly ==
  /\ Converged("reconverge")
  /\ LET byKeys == ephemeron \cup allweak
         col == Flipped(WithStrings(byKeys))
         r == SweepToLive("allgc", col)
     IN  /\ Sweep(r, col, ByKeys(entries, byKeys))
         /\ list' = Without(list, r.gone)
         /\ doomed' = doomed \ r.gone
  /\ gcstate' = "swpallgc" /\ stage' = None /\ orig' = NoOrig
  /\ UNCHANGED <<grayLists, todo, changed, full>>

\* The end of atomic(), with entersweep
FinishAtomic ==
  /\ Converged("reconverge")
  /\ LET late == (weak \ orig.weak) \cup (allweak \ orig.allweak)
         byKeys == ephemeron \cup allweak
         col == Flipped(WithStrings(late \cup byKeys))
         r == SweepToLive("allgc", col)
     IN  /\ Sweep(r, col, ByValues(ByKeys(entries, byKeys), late))
         /\ list' = Without(list, r.gone)
         /\ doomed' = doomed \ r.gone
  /\ gcstate' = "swpallgc" /\ stage' = None /\ orig' = NoOrig
  /\ UNCHANGED <<grayLists, todo, changed, full>>

-----------------------------------------------------------------------------
(* Sweep and finalizers                                                    *)

SweepStep ==
  /\ gcstate \in {"swpallgc", "swpfinobj", "swptobefnz"} /\ sweepgc # None
  /\ LET r == SweepOne(sweepgc) IN
       /\ Sweep(r, color, entries)
       /\ list' = Without(list, r.gone)
       /\ doomed' = doomed \ r.gone
  /\ UNCHANGED <<gcstate, grayLists, atomicVars, full>>

NextSweep(from, to, address) ==
  /\ gcstate = from /\ sweepgc = None
  /\ gcstate' = to /\ sweepgc' = address
  /\ UNCHANGED <<kind, entries, color, list, grayLists, atomicVars, full, doomed>>

\* The rest of sweepstep, and the state swpend
EndSweep ==
  \/ NextSweep("swpallgc", "swpfinobj", "finobj")
  \/ NextSweep("swpfinobj", "swptobefnz", "tobefnz")
  \/ NextSweep("swptobefnz", "swpend", None)
  \/ NextSweep("swpend", "callfin", None)

\* udata2finalize: the object is a normal one again, and its finalizer gets it.
CallFinalizer ==
  /\ gcstate = "callfin" /\ list.tobefnz # <<>>
  /\ LET o == Head(list.tobefnz) IN
       /\ list' = [list EXCEPT !.tobefnz = Tail(@), !.allgc = <<o>> \o @]
       /\ entries' = Pushed(o)
  /\ UNCHANGED <<kind, color, gcstate, grayLists, atomicVars, sweepgc, full, doomed>>

EndCycle ==
  /\ gcstate = "callfin" /\ list.tobefnz = <<>>
  /\ gcstate' = "pause"
  /\ full' = IF full = "finish" THEN None ELSE full
  /\ UNCHANGED <<kind, entries, color, list, grayLists, atomicVars, sweepgc, doomed>>

\* luaC_fullgc (fullinc) finishes the cycle and runs another one; if objects are
\* marked already, it sweeps without a change of white, which frees nothing.
FullStart ==
  /\ Running /\ full = None /\ Cardinality(Allocated) <= Busy
  /\ full' = "flush"
  /\ IF KeepInvariant
     THEN LET r == SweepToLive("allgc", color) IN
            /\ Sweep(r, color, entries) /\ list' = Without(list, r.gone)
            /\ gcstate' = "swpallgc" /\ doomed' = {}
     ELSE UNCHANGED <<kind, entries, color, list, gcstate, sweepgc, doomed>>
  /\ UNCHANGED <<grayLists, atomicVars>>

-----------------------------------------------------------------------------
Program ==
  \/ \E o \in Objects, k \in Kinds : New(o, k)
  \/ \E x \in Objects : Drop(x) \/ SetFinalizer(x)
  \/ \E c, x \in Objects : Load(c, x)
  \/ \E c, v \in Objects, k \in Objects \cup {None} : Store(c, k, v)
  \/ \E c \in Objects : \E e \in entries[c] : Erase(c, e)
  \/ FullStart

SingleStep ==
  \/ Restart \/ EndPropagate \/ EnterAtomic \/ TraverseAgain
  \/ \E o \in Objects : Propagate(o) \/ ConvergeTable(o)
  \/ Converge("again", "converge") \/ Converge("finalize", "reconverge") \/ ConvergeAgain
  \/ Separate \/ FinishAtomic
  \/ SweepStep \/ EndSweep \/ CallFinalizer \/ EndCycle

Next == Program \/ SingleStep

Spec == Init /\ [][Next]_vars

-----------------------------------------------------------------------------
(* Properties                                                              *)

\* The main invariant, as lgc.h:22 states it: while objects are being marked,
\* a black object never refers to a white one.
BlackNeverWhite ==
  KeepInvariant => \A o \in Allocated : color[o] = "black" => \A x \in Refs(o) : ~White(x)

\* Its second half (lgc.h:23): a gray object is in a gray list.
GrayListed ==
  KeepInvariant => \A o \in Allocated : color[o] = "gray" =>
    o \in gray \cup grayagain \cup weak \cup allweak \cup ephemeron \cup todo

\* What can be reached from S: reference definition, where the value in an
\* ephemeron table is reached if both the table and the key are, and strings
\* in weak tables count as values.
Reachable(S) ==
  LET Next1(T, x) ==
        IF kind[x] # "ephemeron" THEN Refs(x)
        ELSE {e[2] : e \in {f \in entries[x] : f[1] \in T \cup {None} \/ kind[f[1]] = "string"}}
      within[n \in 0 .. Cardinality(Objects)] ==
        IF n = 0 THEN S
        ELSE LET nearer == within[n - 1] IN nearer \cup UNION {Next1(nearer, x) : x \in nearer}
  IN  within[Cardinality(Objects)]

\* No object that the program or a finalizer can still reach was freed or is
\* about to be, and neither was what a weak table that can be reached holds.
NoDangling ==
  stage = None => \A o \in Reachable(Kept) : \A x \in {o} \cup Keys(o) \cup Values(o) :
    kind[x] # "free" /\ color[x] # "dead"

\* A cycle frees everything that could not be reached when it began, not even
\* through weak tables or by a finalizer.
CycleCollects == gcstate \in {"swpend", "callfin"} => doomed = {}

\* An object is handed to its finalizer only if the program cannot reach it,
\* nor can the finalizers that are still to be called.
FinalizesUnreachable ==
  [][\A o \in Listed("finobj") : o \in (Listed("tobefnz"))' =>
       o \notin Reachable({main} \cup Listed("tobefnz"))]_vars

\* The collector takes an entry out of a table that can be reached only if
\* neither the program nor a finalizer can reach its key, or its value was out
\* of reach before objects were separated for finalization.
WeakKept ==
  [][stage # None =>
       LET live == Reachable({main} \cup Listed("tobefnz"))
           due == Reachable({main} \cup Range(list'.tobefnz))
       IN  \A o \in live : \A e \in entries[o] \ entries'[o] :
             ~(e[1] \in due \cup {None} /\ e[2] \in live)]_vars
=============================================================================
