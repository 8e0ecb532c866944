---------------------------- MODULE SharedTable ----------------------------
(***************************************************************************)
(* Shared tables: the lock of a table (utils/lthread.c, a reader-writer    *)
(* lock with writer recursion), the state lock (core/lstate.c) and the     *)
(* operations that take both.  The interpreter, the collector and every    *)
(* API call hold the state lock and then take the table's;                 *)
(* table.insert and table.remove take the table's lock first and keep it   *)
(* over the API calls they are made of.                                    *)
(*                                                                         *)
(* One table, made by one thread, which shares it and only then gives it   *)
(* to the others.  It is used as a list.                                   *)
(***************************************************************************)
EXTENDS Naturals, FiniteSets, Sequences

CONSTANTS
  Threads,
  Creator,   \* the thread that made the table
  Values,    \* what is stored
  NULL,      \* nil, and nobody
  N          \* bound on the number of entries

ASSUME TableAssumption ==
  /\ Creator \in Threads
  /\ NULL \notin Threads \cup Values
  /\ N \in Nat
  /\ IsFiniteSet(Threads)

VARIABLES
  gowner,          \* owner of the state lock
  writer, readers, \* the native reader-writer lock: holders
  wid, wrec,       \* l_rwlock_t: writer_thread_id, write_recursion
  shared,          \* Table.is_shared
  users,           \* threads that have the table
  tab,             \* the array of the table
  before,          \* the list when the running insert or remove began
  pc,              \* operation of a thread and its next access
  ph,              \* how far the access is: "out", "state" lock taken, "table" lock taken
  pos, i, val, top  \* locals: position, running index, value stored or taken, moved value

rw == <<writer, readers, wid, wrec>>
local == <<pos, i, val, top>>
vars == <<gowner, rw, shared, users, tab, before, pc, ph, local>>

Reads == {"ins_get", "rem_take", "rem_get", "get", "mark"}
Writes == {"ins_put", "ins_store", "rem_put", "rem_clear", "set"}
Lengths == {"ins_len", "rem_len"}
Middle == {"ins_len", "ins_get", "ins_put", "ins_store", "rem_len", "rem_take", "rem_get", "rem_put", "rem_clear", "unlock"}
Adding == {"ins_lock", "ins_len", "ins_get", "ins_put", "ins_store", "set"}

TypeOK ==
  /\ gowner \in Threads \cup {NULL}
  /\ writer \in Threads \cup {NULL} /\ readers \in [Threads -> Nat]
  /\ wid \in Threads \cup {NULL} /\ wrec \in Nat
  /\ shared \in BOOLEAN /\ users \subseteq Threads
  /\ tab \in [1..N -> Values \cup {NULL}]
  /\ before \in Seq(Values)
  /\ pc \in [Threads -> Reads \cup Writes \cup Lengths \cup {"idle", "ins_lock", "rem_lock", "unlock"}]
  /\ ph \in [Threads -> {"out", "state", "table"}]
  /\ pos \in [Threads -> 0..N] /\ i \in [Threads -> 0..N]
  /\ val \in [Threads -> Values \cup {NULL}] /\ top \in [Threads -> Values \cup {NULL}]

Init ==
  /\ gowner = NULL
  /\ writer = NULL /\ readers = [t \in Threads |-> 0]
  /\ wid = NULL /\ wrec = 0
  /\ shared = FALSE /\ users = {Creator}
  /\ tab = [k \in 1..N |-> NULL]
  /\ before = <<>>
  /\ pc = [t \in Threads |-> "idle"] /\ ph = [t \in Threads |-> "out"]
  /\ pos = [t \in Threads |-> 0] /\ i = [t \in Threads |-> 0]
  /\ val = [t \in Threads |-> NULL] /\ top = [t \in Threads |-> NULL]

\* luaH_getn returns a border of the table, any of them if it has holes.
Borders == {n \in 0..N : (n = 0 \/ tab[n] # NULL) /\ (n = N \/ tab[n + 1] = NULL)}

\* The list the table holds.
Length == CHOOSE n \in Borders : TRUE
Elements == [k \in 1..Length |-> tab[k]]

\* Bound: every running operation that may add an entry finds room.
Room == Length + Cardinality({t \in Threads : pc[t] \in Adding}) < N

-----------------------------------------------------------------------------
(* The lock of a table.                                                    *)

\* Plausible mistake: the writer's own reads are not counted.
RdLockUncounted(t) ==
  \/ wid = t /\ UNCHANGED rw
  \/ /\ wid # t
     /\ writer = NULL
     /\ readers' = [readers EXCEPT ![t] = @ + 1]
     /\ UNCHANGED <<writer, wid, wrec>>

\* l_rwlock_rdlock: one more level for the writer, shared otherwise.
RdLock(t) ==
  \/ /\ wid = t
     /\ wrec' = wrec + 1
     /\ UNCHANGED <<writer, readers, wid>>
  \/ /\ wid # t
     /\ writer = NULL
     /\ readers' = [readers EXCEPT ![t] = @ + 1]
     /\ UNCHANGED <<writer, wid, wrec>>

\* l_rwlock_wrlock
WrLock(t) ==
  \/ /\ wid = t
     /\ wrec' = wrec + 1
     /\ UNCHANGED <<writer, readers, wid>>
  \/ /\ wid # t
     /\ writer = NULL /\ \A u \in Threads : readers[u] = 0
     /\ writer' = t /\ wid' = t /\ wrec' = 1
     /\ UNCHANGED readers

\* Plausible mistake: the first unlock ends the recursion.
UnlockAll(t) ==
  IF wid = t
  THEN /\ wrec' = 0 /\ wid' = NULL /\ writer' = NULL
       /\ UNCHANGED readers
  ELSE /\ readers' = [readers EXCEPT ![t] = @ - 1]
       /\ UNCHANGED <<writer, wid, wrec>>

\* l_rwlock_unlock: who is not the writer must be a reader.
Unlock(t) ==
  IF wid = t
  THEN /\ wrec' = wrec - 1
       /\ IF wrec = 1 THEN wid' = NULL /\ writer' = NULL ELSE UNCHANGED <<wid, writer>>
       /\ UNCHANGED readers
  ELSE /\ readers' = [readers EXCEPT ![t] = @ - 1]
       /\ UNCHANGED <<writer, wid, wrec>>

\* The interpreter and lua_locktable lock a table that is shared; API calls
\* and the collector lock every table.
Locks(t) == pc[t] \in {"get", "set"} => shared

-----------------------------------------------------------------------------
(* One access to the table under the state lock.                           *)

\* lua_lock
EnterState(t) ==
  /\ pc[t] \in Reads \cup Writes \cup Lengths
  /\ ph[t] = "out"
  /\ gowner = NULL
  /\ gowner' = t
  /\ ph' = [ph EXCEPT ![t] = "state"]
  /\ UNCHANGED <<rw, shared, users, tab, before, pc, local>>

LockTable(t) ==
  /\ ph[t] = "state"
  /\ pc[t] \in Reads \cup Writes
  /\ IF ~Locks(t) THEN UNCHANGED rw
     ELSE IF pc[t] \in Reads THEN RdLock(t) ELSE WrLock(t)
  /\ ph' = [ph EXCEPT ![t] = "table"]
  /\ UNCHANGED <<gowner, shared, users, tab, before, pc, local>>

\* The access is over: both locks are released and operation goes on with q.
Leave(t, q) ==
  /\ IF Locks(t) THEN Unlock(t) ELSE UNCHANGED rw
  /\ gowner' = NULL
  /\ ph' = [ph EXCEPT ![t] = "out"]
  /\ pc' = [pc EXCEPT ![t] = q]
  /\ UNCHANGED <<shared, users>>

\* The state lock alone is released: luaV_objlen takes no table lock.
LeaveState(t, q) ==
  /\ gowner' = NULL
  /\ ph' = [ph EXCEPT ![t] = "out"]
  /\ pc' = [pc EXCEPT ![t] = q]
  /\ UNCHANGED <<rw, shared, users, tab>>

\* The operation returns and its locals are gone.
Done(t) ==
  /\ pos' = [pos EXCEPT ![t] = 0] /\ i' = [i EXCEPT ![t] = 0]
  /\ val' = [val EXCEPT ![t] = NULL] /\ top' = [top EXCEPT ![t] = NULL]

\* lua_rawgeti: x is what it pushes.
RawGet(t, k, x, q) ==
  /\ ph[t] = "table"
  /\ x = IF k \in 1..N THEN tab[k] ELSE NULL
  /\ Leave(t, q)
  /\ UNCHANGED <<tab, before>>

\* lua_rawseti
RawSet(t, k, v, q) ==
  /\ ph[t] = "table"
  /\ tab' = IF k \in 1..N THEN [tab EXCEPT ![k] = v] ELSE tab
  /\ Leave(t, q)
  /\ UNCHANGED before

-----------------------------------------------------------------------------
(* table.share, and handing the table over.                                *)

\* t_share writes the flag without any lock.
Share(t) ==
  /\ pc[t] = "idle" /\ t \in users
  /\ ~shared
  /\ shared' = TRUE
  /\ UNCHANGED <<gowner, rw, users, tab, before, pc, ph, local>>

\* The table reaches another thread, through a channel say.
Give(t) ==
  /\ shared
  /\ t \notin users
  /\ users' = users \cup {t}
  /\ UNCHANGED <<gowner, rw, shared, tab, before, pc, ph, local>>

-----------------------------------------------------------------------------
(* Single accesses: the interpreter and the collector.                     *)

Start(t, p, v) ==
  /\ pc[t] = "idle" /\ t \in users
  /\ pc' = [pc EXCEPT ![t] = p]
  /\ val' = [val EXCEPT ![t] = v]
  /\ UNCHANGED <<gowner, rw, shared, users, tab, before, ph, i, top>>

\* x = t[1], t[1] = v in Lua code, or a step of the collector reaches the table.
StartAccess(t) ==
  /\ \/ \E p \in {"get", "mark"} : Start(t, p, NULL)
     \/ Room /\ \E v \in Values : Start(t, "set", v)
  /\ UNCHANGED pos

\* luaV_finishget and the other readers of the interpreter
Get(t) ==
  /\ pc[t] = "get"
  /\ \E x \in Values \cup {NULL} : RawGet(t, 1, x, "idle")
  /\ UNCHANGED local

\* OP_SETTABLE and luaV_finishset: the assigned key is looked up again under
\* the write lock, and created if it is not there.
Set(t) ==
  /\ pc[t] = "set"
  /\ RawSet(t, 1, val[t], "idle")
  /\ Done(t)

\* traversetable
Mark(t) ==
  /\ pc[t] = "mark"
  /\ ph[t] = "table"
  /\ Leave(t, "idle")
  /\ UNCHANGED <<tab, before, local>>

-----------------------------------------------------------------------------
(* table.insert                                                            *)

\* The position is checked to be a number before anything is locked; 0 stands
\* for a call without a position.
InsertStart(t) ==
  /\ Room
  /\ \E v \in Values : Start(t, "ins_lock", v)
  /\ \E p \in 0..N : pos' = [pos EXCEPT ![t] = p]

\* Plausible mistake: lua_locktable does nothing.
LockNothing(t) ==
  /\ pc[t] \in {"ins_lock", "rem_lock"}
  /\ before' = Elements
  /\ pc' = [pc EXCEPT ![t] = IF @ = "ins_lock" THEN "ins_len" ELSE "rem_len"]
  /\ UNCHANGED <<gowner, rw, shared, users, tab, ph, local>>

\* lua_locktable
Lock(t) ==
  /\ pc[t] \in {"ins_lock", "rem_lock"}
  /\ IF shared THEN WrLock(t) ELSE UNCHANGED rw
  /\ before' = Elements
  /\ pc' = [pc EXCEPT ![t] = IF @ = "ins_lock" THEN "ins_len" ELSE "rem_len"]
  /\ UNCHANGED <<gowner, shared, users, tab, ph, local>>

\* aux_getn, and the test of the position
InsertLength(t) ==
  /\ pc[t] = "ins_len" /\ ph[t] = "state"
  /\ \E n \in Borders :
       LET e == n + 1
           p == IF pos[t] = 0 THEN e ELSE pos[t]
       IN /\ i' = [i EXCEPT ![t] = e]
          /\ pos' = [pos EXCEPT ![t] = p]
          /\ LeaveState(t, IF p > e THEN "unlock" ELSE IF e > p THEN "ins_get" ELSE "ins_store")
  /\ UNCHANGED <<before, val, top>>

\* The loop moves up what is behind the position: t[i] = t[i - 1].
InsertGet(t) ==
  /\ pc[t] = "ins_get"
  /\ \E x \in Values \cup {NULL} :
       /\ RawGet(t, i[t] - 1, x, "ins_put")
       /\ top' = [top EXCEPT ![t] = x]
  /\ UNCHANGED <<pos, i, val>>

InsertPut(t) ==
  /\ pc[t] = "ins_put"
  /\ RawSet(t, i[t], top[t], IF i[t] - 1 > pos[t] THEN "ins_get" ELSE "ins_store")
  /\ i' = [i EXCEPT ![t] = @ - 1]
  /\ UNCHANGED <<pos, val, top>>

\* t[pos] = v
InsertStore(t) ==
  /\ pc[t] = "ins_store"
  /\ RawSet(t, pos[t], val[t], "unlock")
  /\ UNCHANGED local

\* lua_unlocktable, after the last access or before an error is raised
UnlockTable(t) ==
  /\ pc[t] = "unlock"
  /\ IF shared THEN Unlock(t) ELSE UNCHANGED rw
  /\ pc' = [pc EXCEPT ![t] = "idle"]
  /\ before' = <<>>
  /\ Done(t)
  /\ UNCHANGED <<gowner, shared, users, tab, ph>>

-----------------------------------------------------------------------------
(* table.remove                                                            *)

\* The length that is read before the lock is only the position of a call
\* whose second argument is an explicit nil: any number.
RemoveStart(t) ==
  /\ Start(t, "rem_lock", NULL)
  /\ \E p \in 0..N : pos' = [pos EXCEPT ![t] = p]

RemoveLength(t) ==
  /\ pc[t] = "rem_len" /\ ph[t] = "state"
  /\ \E size \in Borders :
       LET p == IF pos[t] = 0 THEN size ELSE pos[t]
       IN /\ i' = [i EXCEPT ![t] = size]
          /\ pos' = [pos EXCEPT ![t] = p]
          /\ LeaveState(t, IF p > size + 1 THEN "unlock" ELSE "rem_take")
  /\ UNCHANGED <<before, val, top>>

\* result = t[pos]
RemoveTake(t) ==
  /\ pc[t] = "rem_take"
  /\ \E x \in Values \cup {NULL} :
       /\ RawGet(t, pos[t], x, IF pos[t] < i[t] THEN "rem_get" ELSE "rem_clear")
       /\ val' = [val EXCEPT ![t] = x]
  /\ UNCHANGED <<pos, i, top>>

\* The loop moves down what is behind it: t[pos] = t[pos + 1].
RemoveGet(t) ==
  /\ pc[t] = "rem_get"
  /\ \E x \in Values \cup {NULL} :
       /\ RawGet(t, pos[t] + 1, x, "rem_put")
       /\ top' = [top EXCEPT ![t] = x]
  /\ UNCHANGED <<pos, i, val>>

RemovePut(t) ==
  /\ pc[t] = "rem_put"
  /\ RawSet(t, pos[t], top[t], IF pos[t] + 1 < i[t] THEN "rem_get" ELSE "rem_clear")
  /\ pos' = [pos EXCEPT ![t] = @ + 1]
  /\ UNCHANGED <<i, val, top>>

\* t[pos] = nil
RemoveClear(t) ==
  /\ pc[t] = "rem_clear"
  /\ RawSet(t, pos[t], NULL, "unlock")
  /\ UNCHANGED local

-----------------------------------------------------------------------------
Next == \E t \in Threads :
  \/ EnterState(t) \/ LockTable(t) \/ Lock(t) \/ UnlockTable(t)
  \/ Share(t) \/ Give(t)
  \/ StartAccess(t) \/ Get(t) \/ Set(t) \/ Mark(t)
  \/ InsertStart(t) \/ InsertLength(t) \/ InsertGet(t) \/ InsertPut(t) \/ InsertStore(t)
  \/ RemoveStart(t) \/ RemoveLength(t) \/ RemoveTake(t) \/ RemoveGet(t) \/ RemovePut(t) \/ RemoveClear(t)

Spec == Init /\ [][Next]_vars

-----------------------------------------------------------------------------
(* Properties.                                                             *)

\* The list as its users may see it: while an insert or remove is under way,
\* the list it began with.
Visible == IF \E t \in Threads : pc[t] \in Middle THEN before ELSE Elements

\* table.insert, table.remove and an assignment are atomic.
Atomic == INSTANCE AtomicTable WITH list <- Visible
Implements == Atomic!Spec

\* No reader, assignment or traversal of another thread sees a half-done
\* insert or remove.
WholeListSeen == \A t \in Threads :
  ph[t] = "table" /\ pc[t] \in {"get", "set", "mark"} => Elements = Visible

\* The fields of the lock tell the truth about the native lock, whatever was
\* nested in it, and a thread outside every operation holds nothing.
LocksBalanced ==
  /\ writer = wid /\ (wrec > 0 <=> writer # NULL)
  /\ writer # NULL => \A t \in Threads : readers[t] = 0
  /\ \A t \in Threads : pc[t] = "idle" => gowner # t /\ writer # t /\ readers[t] = 0

\* The lock of a table is there for thread safety (lobject.h:1101); two
\* threads that use it do not stop each other for ever: none holds the table
\* and waits for the state lock of a thread that waits for the table.
NoLockCycle == ~ \E t, u \in Threads :
  /\ writer = t /\ ph[t] = "out" /\ pc[t] \in Reads \cup Writes \cup Lengths
  /\ gowner = u /\ ph[u] = "state" /\ pc[u] \in Reads \cup Writes /\ u # t

=============================================================================
