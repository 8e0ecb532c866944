---------------------------- MODULE RegistryRef ----------------------------
(***************************************************************************)
(* luaL_ref and luaL_unref (core/lauxlib.c) on the registry.  Both are     *)
(* sequences of API calls; each call takes the state lock for itself, and  *)
(* a C function runs without it, so the calls of two operating-system      *)
(* threads interleave.  One action is one API call that touches the table. *)
(*                                                                         *)
(* The registry's array is a sequence: entry 1 is the header of the free   *)
(* list, a free entry holds the index of the next free one, 0 ends the     *)
(* list.  Values are never numbers, and nil (which has the fixed reference *)
(* LUA_REFNIL) never reaches the table.                                    *)
(***************************************************************************)
EXTENDS Naturals, Sequences, FiniteSets

CONSTANTS
  Threads,
  Values,          \* the values programs store
  MAIN, GLOBALS    \* the predefined registry values

\* What every instance and every theorem takes for granted.
RegistryAssumption ==
  /\ MAIN \notin Nat /\ GLOBALS \notin Nat
  /\ \A v \in Values : v \notin Nat \cup {MAIN, GLOBALS}

VARIABLES
  reg,    \* the array of the registry
  pc,     \* the next API call of each thread
  ref,    \* luaL_ref: local ref; luaL_unref: parameter ref
  top,    \* what the last lua_rawgeti left on the stack of the thread
  val,    \* luaL_ref: the value to store
  live    \* references returned and not released: pairs <<reference, value>>

vars == <<reg, pc, ref, top, val, live>>

Entries == Nat \cup Values \cup {MAIN, GLOBALS}

PCs == {"idle", "init", "next", "pop", "len", "store", "link", "head"}

TypeOK ==
  /\ reg \in Seq(Entries)
  /\ pc \in [Threads -> PCs]
  /\ ref \in [Threads -> Nat]
  /\ top \in [Threads -> Entries]
  /\ val \in [Threads -> Values \cup {MAIN}]
  /\ live \subseteq Nat \X Values

LUA_RIDX_LAST == 2

Init ==
  /\ reg = <<MAIN, GLOBALS>>
  /\ pc = [t \in Threads |-> "idle"]
  /\ ref = [t \in Threads |-> 0]
  /\ top = [t \in Threads |-> 0]
  /\ val = [t \in Threads |-> MAIN]
  /\ live = {}

\* lua_rawseti on an index of the array, or on the one behind its end.
Put(i, x) == reg' = IF i = Len(reg) + 1 THEN Append(reg, x) ELSE [reg EXCEPT ![i] = x]

\* Values on the stack of no thread and under no reference.
Unused == Values \ ({val[t] : t \in {u \in Threads : pc[u] # "idle"}} \cup {p[2] : p \in live})

-----------------------------------------------------------------------------
(* luaL_ref                                                                *)

\* lua_rawgeti(L, t, 1)
RefRead(t, v) ==
  /\ pc[t] = "idle"
  /\ v \in Unused
  /\ val' = [val EXCEPT ![t] = v]
  /\ IF reg[1] \in Nat
     THEN /\ ref' = [ref EXCEPT ![t] = reg[1]]
          /\ pc' = [pc EXCEPT ![t] = IF reg[1] # 0 THEN "next" ELSE "len"]
     ELSE /\ ref' = [ref EXCEPT ![t] = 0]
          /\ pc' = [pc EXCEPT ![t] = "init"]
  /\ UNCHANGED <<reg, top, live>>

\* First access: lua_rawseti(L, t, 1) with 0, the empty list.
RefInit(t) ==
  /\ pc[t] = "init"
  /\ Put(1, 0)
  /\ pc' = [pc EXCEPT ![t] = "len"]
  /\ UNCHANGED <<ref, top, val, live>>

\* lua_rawgeti(L, t, ref)
RefNext(t) ==
  /\ pc[t] = "next"
  /\ top' = [top EXCEPT ![t] = reg[ref[t]]]
  /\ pc' = [pc EXCEPT ![t] = "pop"]
  /\ UNCHANGED <<reg, ref, val, live>>

\* lua_rawseti(L, t, 1), t[1] = t[ref]
RefPop(t) ==
  /\ pc[t] = "pop"
  /\ Put(1, top[t])
  /\ pc' = [pc EXCEPT ![t] = "store"]
  /\ UNCHANGED <<ref, top, val, live>>

\* lua_rawlen, which takes no lock: no entry of the array is ever nil.
RefLen(t) ==
  /\ pc[t] = "len"
  /\ ref' = [ref EXCEPT ![t] = Len(reg) + 1]
  /\ pc' = [pc EXCEPT ![t] = "store"]
  /\ UNCHANGED <<reg, top, val, live>>

\* lua_rawseti(L, t, ref); the reference is returned.
RefStore(t) ==
  /\ pc[t] = "store"
  /\ Put(ref[t], val[t])
  /\ live' = live \cup {<<ref[t], val[t]>>}
  /\ pc' = [pc EXCEPT ![t] = "idle"]
  /\ UNCHANGED <<ref, top, val>>

-----------------------------------------------------------------------------
(* luaL_unref                                                              *)

\* lua_rawgeti(L, t, 1); a reference is released once, by whoever has it.
UnrefRead(t, p) ==
  /\ pc[t] = "idle"
  /\ p \in live
  /\ live' = live \ {p}
  /\ ref' = [ref EXCEPT ![t] = p[1]]
  /\ val' = [val EXCEPT ![t] = p[2]]
  /\ top' = [top EXCEPT ![t] = reg[1]]
  /\ pc' = [pc EXCEPT ![t] = "link"]
  /\ UNCHANGED reg

\* lua_rawseti(L, t, ref), t[ref] = t[1]
UnrefLink(t) ==
  /\ pc[t] = "link"
  /\ Put(ref[t], top[t])
  /\ pc' = [pc EXCEPT ![t] = "head"]
  /\ UNCHANGED <<ref, top, val, live>>

\* lua_rawseti(L, t, 1), t[1] = ref
UnrefHead(t) ==
  /\ pc[t] = "head"
  /\ Put(1, ref[t])
  /\ pc' = [pc EXCEPT ![t] = "idle"]
  /\ UNCHANGED <<ref, top, val, live>>

Next == \E t \in Threads :
  \/ \E v \in Values : RefRead(t, v)
  \/ RefInit(t) \/ RefNext(t) \/ RefPop(t) \/ RefLen(t) \/ RefStore(t)
  \/ \E p \in live : UnrefRead(t, p)
  \/ UnrefLink(t) \/ UnrefHead(t)

Spec == Init /\ [][Next]_vars

\* At most one thread is between the first and the last API call of luaL_ref
\* or luaL_unref.  Nothing in the code sees to it.
Serial == \A t, u \in Threads : pc[t] # "idle" /\ pc[u] # "idle" => t = u

-----------------------------------------------------------------------------
(* Properties.                                                             *)

\* A reference designates the value it was created for, until it is released:
\* no other luaL_ref is given the same index, no luaL_unref overwrites it.
\* thread_create relies on it to "prevent collection" of the new thread's state
\* (lthreadlib.c:148).  It holds while calls are Serial, and fails as soon as
\* two of them overlap.
Holds == \A p \in live : p[1] <= Len(reg) /\ reg[p[1]] = p[2]

\* What the header and then the first n entries of the free list contain.
Chain[n \in 0..Len(reg)] ==
  IF n = 0 THEN <<reg[1]>>
  ELSE LET s == Chain[n - 1]
           i == s[Len(s)]
       IN IF i \in Nat \ {0} THEN Append(s, reg[i]) ELSE s

FreeEntries == LET s == Chain[Len(reg)] IN {s[i] : i \in 1..Len(s)}

\* While no call is under way, the free list ends and contains exactly the
\* entries under no reference: none is lost, none is handed out twice.
FreeListExact ==
  (reg[1] \in Nat /\ \A t \in Threads : pc[t] = "idle") =>
     FreeEntries = ({0} \cup (LUA_RIDX_LAST + 1 .. Len(reg))) \ {p[1] : p \in live}
=============================================================================
