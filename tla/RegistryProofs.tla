--------------------------- MODULE RegistryProofs ---------------------------
(***************************************************************************)
(* References are exact in every behaviour in which no two calls of        *)
(* luaL_ref and luaL_unref overlap, for any number of threads and of       *)
(* values, and whatever sequence of calls each thread makes.  When calls   *)
(* overlap they are not (run registry_overlap); what is left then is that  *)
(* types are kept and no call leaves the array (RegistryTypes).            *)
(***************************************************************************)
EXTENDS RegistryRef, TLAPS, FiniteSetTheorems, SequenceTheorems

\* Pointers that lead away from entries being taken from or put back into the
\* free list; these are not part of the list for a moment.
Hidden == {ref[t] : t \in {u \in Threads : pc[u] \in {"store", "head"}}}

Pointing(k) == k \in DOMAIN reg /\ k \notin Hidden /\ reg[k] \in Nat /\ reg[k] # 0

\* Every pointer leads to a free entry behind the predefined values.
PointsToFree == \A k \in DOMAIN reg :
  reg[k] \in Nat /\ reg[k] # 0 => reg[k] \in 3..Len(reg) /\ reg[reg[k]] \in Nat

\* No two pointers lead to the same entry, and none to a hidden one.
Injective == \A k, l : Pointing(k) /\ Pointing(l) /\ reg[k] = reg[l] => k = l
NotHidden == \A k : Pointing(k) => reg[k] \notin Hidden

LiveKept == \A p \in live :
  p[1] \in 3..Len(reg) /\ reg[p[1]] = p[2] /\ p[1] \notin Hidden

\* What a thread in the middle of a call may rely on.
Local(t) ==
  /\ pc[t] \in {"init", "next", "pop", "len", "store"} => val[t] \in Values
  /\ pc[t] \in {"next", "pop", "len", "store", "link", "head"} => reg[1] \in Nat
  /\ pc[t] = "init" => reg[1] \notin Nat
  /\ pc[t] \in {"next", "pop"} => ref[t] = reg[1] /\ ref[t] # 0
  /\ pc[t] = "pop" => top[t] = reg[ref[t]]
  /\ pc[t] = "store" =>
       /\ ref[t] \in 3..Len(reg) + 1
       /\ ref[t] \in 3..Len(reg) => reg[ref[t]] \in Nat
  /\ pc[t] = "link" =>
       /\ ref[t] \in 3..Len(reg) /\ reg[ref[t]] \in Values
       /\ top[t] = reg[1]
       /\ \A p \in live : p[1] # ref[t]
  /\ pc[t] = "head" => ref[t] \in 3..Len(reg) /\ reg[ref[t]] = reg[1]

Shape == Len(reg) >= 2 /\ reg[1] \in Nat \cup {MAIN} /\ (live # {} => reg[1] \in Nat)

HInv ==
  /\ TypeOK /\ Shape
  /\ PointsToFree /\ Injective /\ NotHidden /\ LiveKept
  /\ \A t \in Threads : Local(t)

\* The other threads are outside of luaL_ref and luaL_unref.
Alone(t) == \A u \in Threads \ {t} : pc[u] = "idle"

-----------------------------------------------------------------------------
\* Writing an entry of the array or the one behind its end.
LEMMA PutFacts ==
  ASSUME reg \in Seq(Entries), NEW j \in 1..Len(reg) + 1, NEW x \in Entries, Put(j, x)
  PROVE  /\ reg' \in Seq(Entries)
         /\ Len(reg') = IF j = Len(reg) + 1 THEN j ELSE Len(reg)
         /\ DOMAIN reg' = 1..Len(reg')
         /\ \A k \in 1..Len(reg') : reg'[k] = IF k = j THEN x ELSE reg[k]
<1>1. CASE j = Len(reg) + 1
  BY <1>1 DEF Put
<1>2. CASE j # Len(reg) + 1
  BY <1>2 DEF Put
<1> QED BY <1>1, <1>2

LEMMA InitHolds ==
  ASSUME RegistryAssumption
  PROVE  Init => HInv
<1> SUFFICES ASSUME Init PROVE HInv OBVIOUS
<1> USE DEF Init, RegistryAssumption
<1>1. TypeOK
  BY DEF TypeOK, Entries, PCs
<1>2. Hidden = {} /\ \A k : ~Pointing(k)
  BY DEF Hidden, Pointing
<1> QED BY <1>1, <1>2 DEF HInv, Shape, PointsToFree, Injective, NotHidden, LiveKept, Local

-----------------------------------------------------------------------------
\* While calls do not overlap, at most one entry is hidden.
LEMMA HiddenAlone ==
  ASSUME NEW t \in Threads, Alone(t)
  PROVE  Hidden = IF pc[t] \in {"store", "head"} THEN {ref[t]} ELSE {}
BY DEF Hidden, Alone

LEMMA HiddenAloneNext ==
  ASSUME NEW t \in Threads, Alone(t)'
  PROVE  Hidden' = IF pc'[t] \in {"store", "head"} THEN {ref'[t]} ELSE {}
BY DEF Hidden, Alone

\* A thread outside of luaL_ref and luaL_unref relies on nothing.
LEMMA LocalAlone ==
  ASSUME NEW t \in Threads, Alone(t)', Local(t)'
  PROVE  (\A u \in Threads : Local(u))'
<1>1. ASSUME NEW u \in Threads, u # t PROVE Local(u)'
  BY <1>1 DEF Alone, Local
<1> QED BY <1>1

\* A step that leaves the array and the live references alone and hides
\* nothing or an entry nobody points to keeps the list as it is.
LEMMA ReadStep ==
  ASSUME HInv, reg' = reg, live' = live,
         Hidden' = Hidden \/ \A h \in Hidden' : h \notin DOMAIN reg,
         Hidden \subseteq Hidden'
  PROVE  PointsToFree' /\ Injective' /\ NotHidden' /\ LiveKept' /\ Shape'
<1> USE DEF HInv
<1>1. PointsToFree' /\ Shape'
  BY DEF PointsToFree, Shape
<1>2. \A k : Pointing(k)' => Pointing(k)
  BY DEF Pointing
<1>3. Injective'
  BY <1>2 DEF Injective
<1>4. \A k : Pointing(k) => reg[k] \in DOMAIN reg
  BY DEF Pointing, PointsToFree, TypeOK
<1>5. NotHidden'
  BY <1>2, <1>4 DEF NotHidden
<1>6. \A p \in live : p[1] \in DOMAIN reg
  BY DEF LiveKept, TypeOK
<1>7. LiveKept'
  BY <1>6 DEF LiveKept
<1> QED BY <1>1, <1>3, <1>5, <1>7

LEMMA ReadHolds ==
  ASSUME RegistryAssumption, NEW t \in Threads, Alone(t), Alone(t)', HInv, NEW v \in Values, RefRead(t, v)
  PROVE  HInv'
<1> USE DEF RegistryAssumption, HInv, RefRead
<1>1. TypeOK'
  <2>1. PICK r \in Nat, x \in PCs : ref' = [ref EXCEPT ![t] = r] /\ pc' = [pc EXCEPT ![t] = x]
    BY DEF PCs
  <2> QED BY <2>1 DEF TypeOK
<1>2. Hidden = {} /\ Hidden' = {}
  BY HiddenAlone, HiddenAloneNext DEF TypeOK
<1>3. PointsToFree' /\ Injective' /\ NotHidden' /\ LiveKept' /\ Shape'
  BY ONLY <1>2, HInv, RefRead(t, v), ReadStep DEF RefRead
<1>4. Local(t)'
  BY DEF Local, TypeOK, Shape
<1> QED BY <1>1, <1>3, <1>4, LocalAlone

LEMMA InitStepHolds ==
  ASSUME RegistryAssumption, NEW t \in Threads, Alone(t), Alone(t)', HInv, RefInit(t)
  PROVE  HInv'
<1> USE DEF RegistryAssumption, HInv, RefInit
<1>1. /\ reg' \in Seq(Entries) /\ Len(reg') = Len(reg)
      /\ DOMAIN reg' = 1..Len(reg)
      /\ \A k \in 1..Len(reg) : reg'[k] = IF k = 1 THEN 0 ELSE reg[k]
  BY PutFacts DEF TypeOK, Entries, Shape
<1>2. TypeOK'
  BY <1>1 DEF TypeOK, PCs
<1>3. Hidden = {} /\ Hidden' = {}
  BY HiddenAlone, HiddenAloneNext DEF TypeOK
<1>4. live = {}
  BY DEF Local, Shape
<1>5. Shape'
  BY <1>1, <1>4 DEF Shape
<1>6. PointsToFree'
  BY <1>1 DEF PointsToFree, TypeOK
<1>7. \A k : Pointing(k)' => Pointing(k) /\ reg'[k] = reg[k]
  BY <1>1, <1>3 DEF Pointing, TypeOK
<1>8. Injective' /\ NotHidden' /\ LiveKept'
  BY <1>3, <1>4, <1>7 DEF Injective, NotHidden, LiveKept
<1>9. Local(t)'
  BY <1>1 DEF Local, TypeOK, Shape
<1> QED BY <1>2, <1>5, <1>6, <1>8, <1>9, LocalAlone

LEMMA NextStepHolds ==
  ASSUME RegistryAssumption, NEW t \in Threads, Alone(t), Alone(t)', HInv, RefNext(t)
  PROVE  HInv'
<1> USE DEF RegistryAssumption, HInv, RefNext
<1>1. ref[t] \in 3..Len(reg) /\ reg[ref[t]] \in Nat
  BY DEF Local, PointsToFree, Shape, TypeOK
<1>2. TypeOK'
  BY <1>1 DEF TypeOK, PCs, Entries
<1>3. Hidden = {} /\ Hidden' = {}
  BY HiddenAlone, HiddenAloneNext DEF TypeOK
<1>4. PointsToFree' /\ Injective' /\ NotHidden' /\ LiveKept' /\ Shape'
  BY ONLY <1>3, HInv, RefNext(t), ReadStep DEF RefNext
<1>5. Local(t)'
  BY DEF Local, TypeOK
<1> QED BY <1>2, <1>4, <1>5, LocalAlone

LEMMA LenStepHolds ==
  ASSUME RegistryAssumption, NEW t \in Threads, Alone(t), Alone(t)', HInv, RefLen(t)
  PROVE  HInv'
<1> USE DEF RegistryAssumption, HInv, RefLen
<1>1. TypeOK'
  BY DEF TypeOK, PCs
<1>2. Hidden = {} /\ Hidden' = {Len(reg) + 1}
  BY HiddenAlone, HiddenAloneNext DEF TypeOK
<1>3. \A h \in Hidden' : h \notin DOMAIN reg
  BY <1>2 DEF TypeOK
<1>4. PointsToFree' /\ Injective' /\ NotHidden' /\ LiveKept' /\ Shape'
  BY ONLY <1>2, <1>3, HInv, RefLen(t), ReadStep DEF RefLen
<1>5. Local(t)'
  BY DEF Local, TypeOK, Shape
<1> QED BY <1>1, <1>4, <1>5, LocalAlone

\* RefPop: the header skips the first free entry, which is hidden from now on.
LEMMA PopHolds ==
  ASSUME RegistryAssumption, NEW t \in Threads, Alone(t), Alone(t)', HInv, RefPop(t)
  PROVE  HInv'
<1> USE DEF RegistryAssumption, HInv, RefPop
<1>1. /\ ref[t] = reg[1] /\ ref[t] \in 3..Len(reg)
      /\ top[t] = reg[ref[t]] /\ top[t] \in Nat
  BY DEF Local, PointsToFree, Shape, TypeOK
<1>2. /\ reg' \in Seq(Entries) /\ Len(reg') = Len(reg)
      /\ DOMAIN reg' = 1..Len(reg) /\ DOMAIN reg = 1..Len(reg)
      /\ \A k \in 1..Len(reg) : reg'[k] = IF k = 1 THEN top[t] ELSE reg[k]
  BY <1>1, PutFacts DEF TypeOK, Entries, Shape
<1>3. TypeOK'
  BY <1>2 DEF TypeOK, PCs
<1>4. Hidden = {} /\ Hidden' = {ref[t]}
  BY HiddenAlone, HiddenAloneNext DEF TypeOK
<1>5. PointsToFree'
  <2> SUFFICES ASSUME NEW k \in 1..Len(reg), reg'[k] \in Nat, reg'[k] # 0
               PROVE  reg'[k] \in 3..Len(reg) /\ reg'[reg'[k]] \in Nat
    BY <1>2 DEF PointsToFree
  <2>1. PICK l \in 1..Len(reg) : reg'[k] = reg[l]
    BY <1>1, <1>2
  <2> QED BY <2>1, <1>2 DEF PointsToFree
<1>6. Pointing(1) /\ Pointing(ref[t]) = (top[t] # 0)
  BY <1>1, <1>2, <1>4 DEF Pointing
<1>7. ASSUME NEW k, Pointing(k)'
      PROVE  \/ k = 1 /\ reg'[k] = reg[ref[t]] /\ Pointing(ref[t])
             \/ k # 1 /\ k # ref[t] /\ reg'[k] = reg[k] /\ Pointing(k)
  BY <1>1, <1>2, <1>4, <1>6, <1>7 DEF Pointing
<1>8. Injective'
  BY <1>1, <1>7 DEF Injective
<1>9. NotHidden'
  <2> SUFFICES ASSUME NEW k, Pointing(k)', reg'[k] = reg[1] PROVE FALSE
    BY <1>1, <1>4 DEF NotHidden
  <2>1. PICK l : Pointing(l) /\ l # 1 /\ reg[l] = reg[1]
    BY <1>1, <1>7
  <2> QED BY <2>1, <1>6 DEF Injective
<1>10. LiveKept' /\ Shape'
  <2>1. \A p \in live : p[1] # ref[t]
    BY <1>1 DEF LiveKept, TypeOK
  <2>2. LiveKept'
    BY <1>2, <1>4, <2>1 DEF LiveKept
  <2>3. Shape'
    BY <1>1, <1>2 DEF Shape
  <2> QED BY <2>2, <2>3
<1>11. Local(t)'
  BY <1>1, <1>2 DEF Local, TypeOK
<1> QED BY <1>3, <1>5, <1>8, <1>9, <1>10, <1>11, LocalAlone

\* RefStore: the hidden entry gets the value and is live.
LEMMA StoreHolds ==
  ASSUME RegistryAssumption, NEW t \in Threads, Alone(t), Alone(t)', HInv, RefStore(t)
  PROVE  HInv'
<1> USE DEF RegistryAssumption, HInv, RefStore
<1>1. /\ ref[t] \in 3..Len(reg) + 1 /\ val[t] \in Values /\ reg[1] \in Nat
      /\ val[t] \notin Nat
  BY DEF Local
<1>2. /\ reg' \in Seq(Entries) /\ Len(reg') = IF ref[t] = Len(reg) + 1 THEN Len(reg) + 1 ELSE Len(reg)
      /\ DOMAIN reg' = 1..Len(reg') /\ DOMAIN reg = 1..Len(reg)
      /\ \A k \in 1..Len(reg') : reg'[k] = IF k = ref[t] THEN val[t] ELSE reg[k]
  <2>1. val[t] \in Entries /\ ref[t] \in 1..Len(reg) + 1 /\ Put(ref[t], val[t]) /\ reg \in Seq(Entries)
    BY <1>1 DEF TypeOK, Entries
  <2>2. DOMAIN reg = 1..Len(reg)
    BY <2>1
  <2> QED BY ONLY <2>1, <2>2, PutFacts
<1>3. TypeOK'
  BY <1>1, <1>2 DEF TypeOK, PCs
<1>4. Hidden = {ref[t]} /\ Hidden' = {}
  BY HiddenAlone, HiddenAloneNext DEF TypeOK
<1>5. ASSUME NEW k \in 1..Len(reg'), reg'[k] \in Nat, reg'[k] # 0
      PROVE  Pointing(k) /\ reg'[k] = reg[k] /\ reg[k] # ref[t] /\ k \in 1..Len(reg)
  <2>1. k # ref[t] /\ k \in 1..Len(reg) /\ reg'[k] = reg[k]
    BY <1>1, <1>2, <1>5 DEF TypeOK
  <2>2. Pointing(k)
    BY <1>2, <1>4, <1>5, <2>1 DEF Pointing
  <2> QED BY <2>1, <2>2, <1>4 DEF NotHidden
<1>6. PointsToFree'
  <2> SUFFICES ASSUME NEW k \in 1..Len(reg'), reg'[k] \in Nat, reg'[k] # 0
               PROVE  reg'[k] \in 3..Len(reg') /\ reg'[reg'[k]] \in Nat
    BY <1>2 DEF PointsToFree
  <2>1. k \in 1..Len(reg) /\ reg'[k] = reg[k] /\ reg[k] # ref[t]
    BY <1>5
  <2>2. reg[k] \in 3..Len(reg) /\ reg[reg[k]] \in Nat
    BY <2>1, <1>2 DEF PointsToFree
  <2> QED BY <2>1, <2>2, <1>2 DEF TypeOK
<1>7. \A k : Pointing(k)' => Pointing(k) /\ reg'[k] = reg[k]
  BY <1>2, <1>5 DEF Pointing
<1>8. Injective' /\ NotHidden'
  BY <1>4, <1>7 DEF Injective, NotHidden
<1>9. LiveKept'
  <2> SUFFICES ASSUME NEW p \in live'
               PROVE  p[1] \in 3..Len(reg') /\ reg'[p[1]] = p[2]
    BY <1>4 DEF LiveKept
  <2>1. CASE p \in live
    BY <2>1, <1>2, <1>4 DEF LiveKept, TypeOK
  <2>2. CASE p = <<ref[t], val[t]>>
    BY <2>2, <1>1, <1>2 DEF TypeOK
  <2> QED BY <2>1, <2>2
<1>10. Shape'
  BY <1>1, <1>2 DEF Shape, TypeOK
<1>11. Local(t)'
  BY DEF Local, TypeOK
<1> QED BY <1>3, <1>6, <1>8, <1>9, <1>10, <1>11, LocalAlone

\* UnrefRead: the reference is no longer live; its entry still holds the value.
LEMMA UnrefReadHolds ==
  ASSUME RegistryAssumption, NEW t \in Threads, Alone(t), Alone(t)', HInv, NEW p \in live, UnrefRead(t, p)
  PROVE  HInv'
<1> USE DEF RegistryAssumption, HInv, UnrefRead
<1>1. /\ p \in Nat \X Values /\ p[1] \in 3..Len(reg) /\ reg[p[1]] = p[2]
      /\ reg[1] \in Nat /\ reg[1] \in Entries
  BY DEF LiveKept, Shape, TypeOK, Entries
<1>2. TypeOK'
  BY <1>1 DEF TypeOK, PCs
<1>3. Hidden = {} /\ Hidden' = {}
  BY HiddenAlone, HiddenAloneNext DEF TypeOK
<1>4. PointsToFree' /\ Injective' /\ NotHidden'
  BY <1>3 DEF PointsToFree, Injective, NotHidden, Pointing
<1>5. LiveKept' /\ Shape'
  BY <1>3 DEF LiveKept, Shape
<1>6. ASSUME NEW q \in live', q[1] = p[1] PROVE FALSE
  <2>1. q \in live /\ q \in Nat \X Values /\ reg[q[1]] = q[2] /\ q # p
    BY DEF LiveKept, TypeOK
  <2>2. q[2] = p[2]
    BY <2>1, <1>1, <1>6
  <2> QED BY ONLY <2>1, <2>2, <1>1, <1>6
<1>7. Local(t)'
  BY <1>1, <1>6 DEF Local, TypeOK
<1> QED BY <1>2, <1>4, <1>5, <1>7, LocalAlone

\* UnrefLink: the entry points where the header points, hidden for a moment.
LEMMA LinkHolds ==
  ASSUME RegistryAssumption, NEW t \in Threads, Alone(t), Alone(t)', HInv, UnrefLink(t)
  PROVE  HInv'
<1> USE DEF RegistryAssumption, HInv, UnrefLink
<1>1. /\ ref[t] \in 3..Len(reg) /\ reg[ref[t]] \in Values /\ reg[ref[t]] \notin Nat
      /\ top[t] = reg[1] /\ reg[1] \in Nat
  BY DEF Local
<1>2. /\ reg' \in Seq(Entries) /\ Len(reg') = Len(reg)
      /\ DOMAIN reg' = 1..Len(reg) /\ DOMAIN reg = 1..Len(reg)
      /\ \A k \in 1..Len(reg) : reg'[k] = IF k = ref[t] THEN reg[1] ELSE reg[k]
  <2>1. reg[1] \in Entries /\ ref[t] \in 1..Len(reg) + 1 /\ Put(ref[t], reg[1]) /\ reg \in Seq(Entries)
    BY <1>1 DEF TypeOK, Entries
  <2>2. DOMAIN reg = 1..Len(reg) /\ ref[t] # Len(reg) + 1
    BY <1>1 DEF TypeOK
  <2> QED BY ONLY <2>1, <2>2, PutFacts
<1>3. TypeOK'
  BY <1>2 DEF TypeOK, PCs
<1>4. Hidden = {} /\ Hidden' = {ref[t]}
  BY HiddenAlone, HiddenAloneNext DEF TypeOK
<1>5. PointsToFree'
  <2> SUFFICES ASSUME NEW k \in 1..Len(reg), reg'[k] \in Nat, reg'[k] # 0
               PROVE  reg'[k] \in 3..Len(reg) /\ reg'[reg'[k]] \in Nat
    BY <1>2 DEF PointsToFree
  <2>1. PICK l \in 1..Len(reg) : reg'[k] = reg[l]
    BY <1>1, <1>2
  <2>2. reg[l] \in 3..Len(reg) /\ reg[reg[l]] \in Nat
    BY <2>1, <1>2 DEF PointsToFree
  <2> QED BY <2>1, <2>2, <1>1, <1>2
<1>6. ASSUME NEW k, Pointing(k)'
      PROVE  Pointing(k) /\ reg'[k] = reg[k] /\ reg[k] # ref[t]
  <2>1. k \in DOMAIN reg /\ k # ref[t] /\ reg'[k] = reg[k] /\ reg[k] \in Nat /\ reg[k] # 0
    BY <1>2, <1>4, <1>6 DEF Pointing
  <2> QED BY <2>1, <1>1, <1>4 DEF Pointing, PointsToFree
<1>7. Injective' /\ NotHidden'
  BY <1>4, <1>6 DEF Injective, NotHidden
<1>8. LiveKept'
  <2>1. \A q \in live : q[1] # ref[t]
    BY DEF Local
  <2> QED BY <2>1, <1>2, <1>4 DEF LiveKept
<1>9. Shape'
  BY <1>1, <1>2 DEF Shape, TypeOK
<1>10. Local(t)'
  BY <1>1, <1>2 DEF Local, TypeOK
<1> QED BY <1>3, <1>5, <1>7, <1>8, <1>9, <1>10, LocalAlone

\* UnrefHead: the header points to the entry, which is part of the list again.
LEMMA HeadHolds ==
  ASSUME RegistryAssumption, NEW t \in Threads, Alone(t), Alone(t)', HInv, UnrefHead(t)
  PROVE  HInv'
<1> USE DEF RegistryAssumption, HInv, UnrefHead
<1>1. ref[t] \in 3..Len(reg) /\ reg[ref[t]] = reg[1] /\ reg[1] \in Nat
  BY DEF Local
<1>2. /\ reg' \in Seq(Entries) /\ Len(reg') = Len(reg)
      /\ DOMAIN reg' = 1..Len(reg) /\ DOMAIN reg = 1..Len(reg)
      /\ \A k \in 1..Len(reg) : reg'[k] = IF k = 1 THEN ref[t] ELSE reg[k]
  <2>1. ref[t] \in Entries /\ 1 \in 1..Len(reg) + 1 /\ Put(1, ref[t]) /\ reg \in Seq(Entries)
    BY <1>1 DEF TypeOK, Entries
  <2>2. DOMAIN reg = 1..Len(reg) /\ 1 # Len(reg) + 1
    BY <1>1 DEF TypeOK
  <2> QED BY ONLY <2>1, <2>2, PutFacts
<1>3. TypeOK'
  BY <1>2 DEF TypeOK, PCs
<1>4. Hidden = {ref[t]} /\ Hidden' = {}
  BY HiddenAlone, HiddenAloneNext DEF TypeOK
<1>5. PointsToFree'
  <2> SUFFICES ASSUME NEW k \in 1..Len(reg), reg'[k] \in Nat, reg'[k] # 0
               PROVE  reg'[k] \in 3..Len(reg) /\ reg'[reg'[k]] \in Nat
    BY <1>2 DEF PointsToFree
  <2>1. CASE k = 1
    BY <2>1, <1>1, <1>2
  <2>2. CASE k # 1
    <3>1. reg[k] \in 3..Len(reg) /\ reg[reg[k]] \in Nat
      BY <2>2, <1>2 DEF PointsToFree
    <3> QED BY <3>1, <2>2, <1>2
  <2> QED BY <2>1, <2>2
<1>6. reg[1] # 0 => Pointing(1)
  BY <1>1, <1>2, <1>4 DEF Pointing
<1>7. ASSUME NEW k, Pointing(k)'
      PROVE  \/ k = 1 /\ reg'[k] = ref[t]
             \/ k = ref[t] /\ reg'[k] = reg[1] /\ Pointing(1)
             \/ k # 1 /\ k # ref[t] /\ reg'[k] = reg[k] /\ Pointing(k)
  BY <1>1, <1>2, <1>4, <1>6, <1>7 DEF Pointing
<1>8. \A k : Pointing(k) => reg[k] # ref[t]
  BY <1>4 DEF NotHidden
<1>9. Injective'
  BY <1>7, <1>8 DEF Injective
<1>10. NotHidden'
  BY <1>4 DEF NotHidden
<1>11. LiveKept'
  BY <1>2, <1>4 DEF LiveKept, TypeOK
<1>12. Shape'
  BY <1>1, <1>2 DEF Shape, TypeOK
<1>13. Local(t)'
  BY DEF Local, TypeOK
<1> QED BY <1>3, <1>5, <1>9, <1>10, <1>11, <1>12, <1>13, LocalAlone

-----------------------------------------------------------------------------
\* While calls do not overlap, the thread that takes a step is alone before and
\* after it.
LEMMA StepAlone ==
  ASSUME NEW t \in Threads, pc \in [Threads -> PCs], Serial, Serial',
         \/ \E v \in Values : RefRead(t, v)
         \/ RefInit(t) \/ RefNext(t) \/ RefPop(t) \/ RefLen(t) \/ RefStore(t)
         \/ \E p \in live : UnrefRead(t, p)
         \/ UnrefLink(t) \/ UnrefHead(t)
  PROVE  Alone(t) /\ Alone(t)'
<1>1. PICK x, y : /\ pc' = [pc EXCEPT ![t] = y] /\ x = pc[t]
                  /\ x # "idle" \/ y # "idle"
  <2>1. ASSUME NEW v \in Values, RefRead(t, v)
        PROVE  \E y : pc' = [pc EXCEPT ![t] = y] /\ y # "idle"
    BY <2>1 DEF RefRead
  <2>2. ASSUME NEW p \in live, UnrefRead(t, p)
        PROVE  \E y : pc' = [pc EXCEPT ![t] = y] /\ y # "idle"
    BY "link" # "idle", <2>2 DEF UnrefRead
  <2>3. ASSUME RefInit(t) \/ RefNext(t) \/ RefPop(t) \/ RefLen(t) \/ RefStore(t)
               \/ UnrefLink(t) \/ UnrefHead(t)
        PROVE  pc[t] # "idle" /\ \E y : pc' = [pc EXCEPT ![t] = y]
    BY <2>3 DEF RefInit, RefNext, RefPop, RefLen, RefStore, UnrefLink, UnrefHead
  <2> QED BY <2>1, <2>2, <2>3
<1>2. \A u \in Threads \ {t} : pc'[u] = pc[u]
  BY <1>1
<1>3. pc'[t] = y
  BY <1>1
<1>4. CASE x # "idle"
  BY <1>1, <1>2, <1>4 DEF Alone, Serial
<1>5. CASE y # "idle"
  BY <1>2, <1>3, <1>5 DEF Alone, Serial
<1> QED BY <1>1, <1>4, <1>5

LEMMA NextHolds ==
  ASSUME RegistryAssumption, Serial, Serial', HInv, [Next]_vars
  PROVE  HInv'
<1>1. CASE UNCHANGED vars
  BY <1>1 DEF vars, HInv, TypeOK, Shape, PointsToFree, Injective, NotHidden,
              LiveKept, Local, Pointing, Hidden
<1>2. CASE Next
  <2>1. PICK t \in Threads :
          \/ \E v \in Values : RefRead(t, v)
          \/ RefInit(t) \/ RefNext(t) \/ RefPop(t) \/ RefLen(t) \/ RefStore(t)
          \/ \E p \in live : UnrefRead(t, p)
          \/ UnrefLink(t) \/ UnrefHead(t)
    BY <1>2 DEF Next
  <2>2. Alone(t) /\ Alone(t)'
    BY <2>1, StepAlone DEF HInv, TypeOK
  <2> QED BY ONLY RegistryAssumption, HInv, <2>1, <2>2, ReadHolds, InitStepHolds, NextStepHolds, PopHolds,
                  LenStepHolds, StoreHolds, UnrefReadHolds, LinkHolds, HeadHolds
<1> QED BY <1>1, <1>2

\* A reference designates the value it was created for until it is released,
\* whatever luaL_ref and luaL_unref have done before and whichever threads have
\* called them, in every behaviour in which no two calls overlap.
THEOREM ReferencesHold ==
  ASSUME RegistryAssumption
  PROVE  Spec /\ []Serial => []Holds
<1>1. HInv => Holds
  BY DEF HInv, LiveKept, Holds, TypeOK
<1>2. HInv /\ Serial /\ Serial' /\ [Next]_vars => HInv'
  BY NextHolds
<1>3. Init => HInv
  BY InitHolds
<1> QED BY <1>1, <1>2, <1>3, PTL DEF Spec

-----------------------------------------------------------------------------
(* The free list.                                                          *)

\* The entries that belong to the free list.
OnList(k) == k \in 3..Len(reg) /\ reg[k] \in Nat /\ k \notin Hidden

\* q names, in order, the entries of the free list.
Listed(q) ==
  /\ \A i, j \in 1..Len(q) : q[i] = q[j] => i = j
  /\ \A k : OnList(k) <=> \E i \in 1..Len(q) : q[i] = k
  /\ reg[1] = IF Len(q) = 0 THEN 0 ELSE q[1]
  /\ \A i \in 1..Len(q) : reg[q[i]] = IF i = Len(q) THEN 0 ELSE q[i + 1]

\* An entry that is no number is under a live reference, or is being released.
Covered == \A k \in 3..Len(reg) :
  \/ reg[k] \in Nat
  \/ \E p \in live : p[1] = k
  \/ \E t \in Threads : pc[t] = "link" /\ ref[t] = k

FInv ==
  /\ Covered
  /\ reg[1] \notin Nat => Len(reg) = 2
  /\ reg[1] \in Nat => \E q \in Seq(Nat) : Listed(q)

LEMMA KeepListed ==
  ASSUME NEW q \in Seq(Nat), Listed(q), reg'[1] = reg[1],
         \A k : OnList(k)' <=> OnList(k), \A k : OnList(k) => reg'[k] = reg[k]
  PROVE  Listed(q)'
<1>1. \A i \in 1..Len(q) : OnList(q[i])
  BY DEF Listed
<1>2. QED
  BY <1>1 DEF Listed

LEMMA KeepF ==
  ASSUME FInv, reg' = reg, live' = live, \A k \in 3..Len(reg) : k \in Hidden' <=> k \in Hidden,
         \A t \in Threads : pc[t] = "link" => pc'[t] = "link" /\ ref'[t] = ref[t]
  PROVE  FInv'
<1>1. \A k : OnList(k)' <=> OnList(k)
  BY DEF OnList
<1>2. ASSUME reg'[1] \in Nat PROVE \E q \in Seq(Nat) : Listed(q)'
  <2>1. PICK q \in Seq(Nat) : Listed(q)
    BY <1>2 DEF FInv
  <2>2. Listed(q)'
    BY <1>1, <2>1, KeepListed
  <2>3. QED
    BY <2>2
<1>3. QED
  BY <1>2 DEF FInv, Covered

LEMMA InitStepF ==
  ASSUME RegistryAssumption, NEW t \in Threads, Alone(t), Alone(t)', HInv, FInv, RefInit(t)
  PROVE  FInv'
<1>1. reg[1] \notin Nat /\ Len(reg) = 2 /\ reg \in Seq(Entries) /\ pc[t] = "init"
  BY DEF HInv, Local, FInv, RefInit, TypeOK
<1>2. Put(1, 0) /\ 1 \in 1..Len(reg) + 1 /\ 0 \in Entries
  BY <1>1 DEF RefInit, Entries
<1>3. Len(reg') = 2 /\ reg'[1] = 0
  BY <1>1, <1>2, PutFacts
<1>4. PICK q \in Seq(Nat) : Len(q) = 0
  BY EmptySeq
<1>5. Listed(q)'
  BY <1>3, <1>4 DEF Listed, OnList
<1>6. Covered'
  BY <1>3 DEF Covered
<1>7. reg'[1] \in Nat
  BY <1>3
<1>8. QED
  BY <1>5, <1>6, <1>7 DEF FInv

LEMMA PopF ==
  ASSUME RegistryAssumption, NEW t \in Threads, Alone(t), Alone(t)', HInv, FInv, RefPop(t)
  PROVE  FInv'
<1>1. /\ pc[t] = "pop" /\ pc' = [pc EXCEPT ![t] = "store"] /\ UNCHANGED <<ref, live>>
      /\ Put(1, top[t])
      /\ ref[t] = reg[1] /\ ref[t] \in 3..Len(reg) /\ reg[1] \in Nat
      /\ top[t] = reg[ref[t]] /\ top[t] \in Nat
  BY DEF RefPop, HInv, Local, PointsToFree, Shape, TypeOK
<1>2. /\ Hidden = {} /\ Hidden' = {ref[t]}
  BY <1>1, HiddenAlone, HiddenAloneNext DEF HInv, TypeOK
<1>3. /\ reg \in Seq(Entries) /\ 1 \in 1..Len(reg) + 1 /\ top[t] \in Entries /\ Len(reg) \in Nat
      /\ 1 # Len(reg) + 1
  BY <1>1 DEF HInv, TypeOK, Shape, Entries
<1>4. Len(reg') = Len(reg) /\ reg'[1] = top[t] /\ \A k \in 3..Len(reg) : reg'[k] = reg[k]
  BY <1>1, <1>3, PutFacts
<1>5. PICK q \in Seq(Nat) : Listed(q)
  BY <1>1 DEF FInv
<1>6. Len(q) # 0 /\ q[1] = ref[t]
  BY <1>1, <1>5 DEF Listed
<1>7. q # <<>>
  BY <1>6
<1>8. PICK r \in Seq(Nat) : Len(r) = Len(q) - 1 /\ \A i \in 1..Len(r) : r[i] = q[i + 1]
  BY <1>7, HeadTailProperties
<1>9. \A k : OnList(k)' <=> OnList(k) /\ k # q[1]
  BY <1>2, <1>4, <1>6 DEF OnList
<1>10. \A i \in 1..Len(r) : i + 1 \in 1..Len(q) /\ OnList(q[i + 1])
  BY <1>5, <1>8 DEF Listed
<1>11. ASSUME NEW i \in 1..Len(r), NEW j \in 1..Len(r), r[i] = r[j] PROVE i = j
  <2>1. q[i + 1] = q[j + 1] /\ i + 1 \in 1..Len(q) /\ j + 1 \in 1..Len(q)
    BY <1>8, <1>10, <1>11
  <2>2. i + 1 = j + 1
    BY <1>5, <2>1 DEF Listed
  <2>3. QED
    BY <2>2
<1>12. ASSUME NEW k PROVE OnList(k)' <=> \E i \in 1..Len(r) : r[i] = k
  <2>1. ASSUME OnList(k)' PROVE \E i \in 1..Len(r) : r[i] = k
    <3>1. PICK j \in 1..Len(q) : q[j] = k /\ j # 1
      BY <1>5, <1>9, <2>1 DEF Listed
    <3>2. j - 1 \in 1..Len(r) /\ (j - 1) + 1 = j
      BY <1>8, <3>1
    <3>3. QED
      BY <1>8, <3>1, <3>2
  <2>2. ASSUME NEW i \in 1..Len(r), r[i] = k PROVE OnList(k)'
    <3>1. i + 1 # 1 /\ 1 \in 1..Len(q)
      BY <1>6
    <3>2. OnList(k) /\ k # q[1]
      BY <1>5, <1>8, <1>10, <2>2, <3>1 DEF Listed
    <3>3. QED
      BY <1>9, <3>2
  <2>3. QED
    BY <2>1, <2>2
<1>13. reg'[1] = IF Len(r) = 0 THEN 0 ELSE r[1]
  <2>1. reg'[1] = IF 1 = Len(q) THEN 0 ELSE q[2]
    <3>1. 1 \in 1..Len(q) /\ 1 + 1 = 2
      BY <1>6
    <3>2. reg[q[1]] = IF 1 = Len(q) THEN 0 ELSE q[1 + 1]
      BY <1>5, <3>1 DEF Listed
    <3>3. QED
      BY <1>1, <1>4, <1>6, <3>1, <3>2
  <2>2. CASE Len(r) = 0
    BY <1>8, <2>1, <2>2
  <2>3. CASE Len(r) # 0
    <3>1. 1 \in 1..Len(r) /\ 1 # Len(q) /\ 1 + 1 = 2
      BY <1>6, <1>8, <2>3
    <3>2. r[1] = q[2]
      BY <1>8, <3>1
    <3>3. QED
      BY <2>1, <2>3, <3>1, <3>2
  <2>4. QED
    BY <2>2, <2>3
<1>14. ASSUME NEW i \in 1..Len(r) PROVE reg'[r[i]] = IF i = Len(r) THEN 0 ELSE r[i + 1]
  <2>1. r[i] = q[i + 1] /\ i + 1 \in 1..Len(q) /\ q[i + 1] \in 3..Len(reg)
    BY <1>8, <1>10 DEF OnList
  <2>2. reg'[r[i]] = IF i + 1 = Len(q) THEN 0 ELSE q[(i + 1) + 1]
    BY <1>4, <1>5, <2>1 DEF Listed
  <2>3. CASE i = Len(r)
    BY <1>8, <2>2, <2>3
  <2>4. CASE i # Len(r)
    <3>1. i + 1 \in 1..Len(r) /\ i + 1 # Len(q)
      BY <1>8, <2>4
    <3>2. QED
      BY <1>8, <2>2, <2>4, <3>1
  <2>5. QED
    BY <2>3, <2>4
<1>15. Listed(r)'
  BY <1>11, <1>12, <1>13, <1>14 DEF Listed
<1>16. Covered'
  BY <1>1, <1>4 DEF FInv, Covered, Alone
<1>17. reg'[1] \in Nat
  BY <1>1, <1>4
<1>18. QED
  BY <1>15, <1>16, <1>17 DEF FInv

LEMMA StoreF ==
  ASSUME RegistryAssumption, NEW t \in Threads, Alone(t), Alone(t)', HInv, FInv, RefStore(t)
  PROVE  FInv'
<1>1. /\ pc[t] = "store" /\ pc' = [pc EXCEPT ![t] = "idle"] /\ UNCHANGED ref
      /\ Put(ref[t], val[t]) /\ live' = live \cup {<<ref[t], val[t]>>}
      /\ ref[t] \in 3..Len(reg) + 1 /\ val[t] \in Values /\ val[t] \notin Nat /\ reg[1] \in Nat
  BY DEF RegistryAssumption, RefStore, HInv, Local
<1>2. Hidden = {ref[t]} /\ Hidden' = {}
  BY <1>1, HiddenAlone, HiddenAloneNext DEF HInv, TypeOK
<1>3. /\ reg \in Seq(Entries) /\ ref[t] \in 1..Len(reg) + 1 /\ val[t] \in Entries /\ Len(reg) \in Nat
      /\ 2 <= Len(reg)
  BY <1>1 DEF HInv, TypeOK, Shape, Entries
<1>4. /\ Len(reg') = IF ref[t] = Len(reg) + 1 THEN ref[t] ELSE Len(reg)
      /\ \A k \in 1..Len(reg') : reg'[k] = IF k = ref[t] THEN val[t] ELSE reg[k]
  BY <1>1, <1>3, PutFacts
<1>5. \A k \in 1..Len(reg') : k # ref[t] => k \in 1..Len(reg)
  BY <1>3, <1>4
<1>6. \A k \in 1..Len(reg) : k \in 1..Len(reg')
  BY <1>3, <1>4
<1>7. reg'[1] = reg[1]
  BY <1>1, <1>3, <1>4, <1>6
<1>8. \A k : OnList(k)' <=> OnList(k)
  BY <1>1, <1>2, <1>4, <1>5, <1>6 DEF OnList
<1>9. \A k : OnList(k) => reg'[k] = reg[k]
  BY <1>2, <1>4, <1>6 DEF OnList
<1>10. PICK q \in Seq(Nat) : Listed(q)
  BY <1>1 DEF FInv
<1>11. Listed(q)'
  BY <1>7, <1>8, <1>9, <1>10, KeepListed
<1>12. Covered'
  <2> SUFFICES ASSUME NEW k \in 3..Len(reg'), k # ref[t]
               PROVE  reg'[k] \in Nat \/ \E p \in live' : p[1] = k
    <3>1. <<ref[t], val[t]>> \in live' /\ <<ref[t], val[t]>>[1] = ref[t]
      BY <1>1
    <3>2. QED
      BY <3>1 DEF Covered
  <2>1. k \in 3..Len(reg) /\ reg'[k] = reg[k]
    BY <1>4, <1>5
  <2>2. QED
    BY <1>1, <2>1 DEF FInv, Covered, Alone
<1>13. QED
  BY <1>1, <1>7, <1>11, <1>12 DEF FInv

LEMMA LinkF ==
  ASSUME RegistryAssumption, NEW t \in Threads, Alone(t), Alone(t)', HInv, FInv, UnrefLink(t)
  PROVE  FInv'
<1>1. /\ pc[t] = "link" /\ pc' = [pc EXCEPT ![t] = "head"] /\ UNCHANGED <<ref, live>>
      /\ Put(ref[t], top[t])
      /\ ref[t] \in 3..Len(reg) /\ reg[ref[t]] \in Values /\ reg[ref[t]] \notin Nat
      /\ top[t] = reg[1] /\ reg[1] \in Nat
  BY DEF RegistryAssumption, UnrefLink, HInv, Local
<1>2. Hidden = {} /\ Hidden' = {ref[t]}
  BY <1>1, HiddenAlone, HiddenAloneNext DEF HInv, TypeOK
<1>3. /\ reg \in Seq(Entries) /\ ref[t] \in 1..Len(reg) + 1 /\ top[t] \in Entries /\ Len(reg) \in Nat
      /\ 2 <= Len(reg) /\ ref[t] # Len(reg) + 1
  BY <1>1 DEF HInv, TypeOK, Shape, Entries
<1>4. /\ Len(reg') = Len(reg)
      /\ \A k \in 1..Len(reg) : reg'[k] = IF k = ref[t] THEN top[t] ELSE reg[k]
  BY <1>1, <1>3, PutFacts
<1>5. reg'[1] = reg[1]
  BY <1>1, <1>3, <1>4
<1>6. \A k : OnList(k)' <=> OnList(k)
  BY <1>1, <1>2, <1>4 DEF OnList
<1>7. \A k : OnList(k) => reg'[k] = reg[k]
  BY <1>1, <1>4 DEF OnList
<1>8. PICK q \in Seq(Nat) : Listed(q)
  BY <1>1 DEF FInv
<1>9. Listed(q)'
  BY <1>5, <1>6, <1>7, <1>8, KeepListed
<1>10. Covered'
  <2> SUFFICES ASSUME NEW k \in 3..Len(reg) PROVE reg'[k] \in Nat \/ \E p \in live : p[1] = k
    BY <1>1, <1>4 DEF Covered
  <2>1. k \in 1..Len(reg)
    BY <1>3
  <2>2. CASE k = ref[t]
    BY <1>1, <1>4, <2>1, <2>2
  <2>3. CASE k # ref[t]
    <3>1. reg'[k] = reg[k]
      BY <1>4, <2>1, <2>3
    <3>2. reg[k] \in Nat \/ \E p \in live : p[1] = k
      BY <2>3 DEF FInv, Covered, Alone
    <3>3. QED
      BY <3>1, <3>2
  <2>4. QED
    BY <2>2, <2>3
<1>11. QED
  BY <1>1, <1>5, <1>9, <1>10 DEF FInv

LEMMA HeadF ==
  ASSUME RegistryAssumption, NEW t \in Threads, Alone(t), Alone(t)', HInv, FInv, UnrefHead(t)
  PROVE  FInv'
<1>1. /\ pc[t] = "head" /\ pc' = [pc EXCEPT ![t] = "idle"] /\ UNCHANGED <<ref, live>>
      /\ Put(1, ref[t])
      /\ ref[t] \in 3..Len(reg) /\ reg[ref[t]] = reg[1] /\ reg[1] \in Nat
  BY DEF UnrefHead, HInv, Local
<1>2. Hidden = {ref[t]} /\ Hidden' = {}
  BY <1>1, HiddenAlone, HiddenAloneNext DEF HInv, TypeOK
<1>3. /\ reg \in Seq(Entries) /\ 1 \in 1..Len(reg) + 1 /\ ref[t] \in Entries /\ Len(reg) \in Nat
      /\ 1 # Len(reg) + 1
  BY <1>1 DEF HInv, TypeOK, Shape, Entries
<1>4. Len(reg') = Len(reg) /\ reg'[1] = ref[t] /\ \A k \in 3..Len(reg) : reg'[k] = reg[k]
  BY <1>1, <1>3, PutFacts
<1>5. PICK q \in Seq(Nat) : Listed(q)
  BY <1>1 DEF FInv
<1>6. \A k : OnList(k)' <=> OnList(k) \/ k = ref[t]
  BY <1>1, <1>2, <1>4 DEF OnList
<1>7. ~OnList(ref[t]) /\ ref[t] \in Nat
  BY <1>1, <1>2 DEF OnList
<1>8. PICK n \in Nat : n = Len(q)
  OBVIOUS
<1>9. PICK r \in Seq(Nat) : Len(r) = n + 1 /\ r[1] = ref[t] /\ \A i \in 1..n : r[i + 1] = q[i]
  <2>1. <<ref[t]>> \in Seq(Nat) /\ Len(<<ref[t]>>) = 1 /\ <<ref[t]>>[1] = ref[t]
    BY <1>7
  <2> DEFINE r == <<ref[t]>> \o q
  <2>2. /\ r \in Seq(Nat) /\ Len(r) = 1 + Len(q)
        /\ \A i \in 1 .. 1 + Len(q) : r[i] = IF i <= 1 THEN <<ref[t]>>[i] ELSE q[i - 1]
    BY <2>1, ConcatProperties
  <2> HIDE DEF r
  <2>3. /\ 1 + Len(q) = n + 1 /\ 1 \in 1 .. 1 + Len(q)
        /\ \A i \in 1..n : i + 1 \in 1 .. 1 + Len(q) /\ ~(i + 1 <= 1) /\ (i + 1) - 1 = i
    BY <1>8
  <2>4. r[1] = ref[t] /\ \A i \in 1..n : r[i + 1] = q[i]
    BY <2>1, <2>2, <2>3
  <2>5. QED
    BY <2>2, <2>3, <2>4
<1>10. \A i \in 1..n + 1 : i # 1 => i - 1 \in 1..n /\ r[i] = q[i - 1]
  BY <1>9
<1>11. \A i \in 1..n : OnList(q[i]) /\ q[i] # ref[t]
  BY <1>5, <1>7, <1>8 DEF Listed
<1>12. ASSUME NEW i \in 1..n + 1, NEW j \in 1..n + 1, r[i] = r[j] PROVE i = j
  <2>1. CASE i = 1 \/ j = 1
    BY <1>9, <1>10, <1>11, <1>12, <2>1
  <2>2. CASE i # 1 /\ j # 1
    <3>1. q[i - 1] = q[j - 1] /\ i - 1 \in 1..n /\ j - 1 \in 1..n
      BY <1>10, <1>12, <2>2
    <3>2. i - 1 = j - 1
      BY <1>5, <1>8, <3>1 DEF Listed
    <3>3. QED
      BY <3>2
  <2>3. QED
    BY <2>1, <2>2
<1>13. ASSUME NEW k PROVE OnList(k)' <=> \E i \in 1..n + 1 : r[i] = k
  <2>1. ASSUME NEW i \in 1..n, q[i] = k PROVE i + 1 \in 1..n + 1 /\ r[i + 1] = k
    <3>1. i + 1 \in 1..n + 1
      OBVIOUS
    <3>2. QED
      BY <1>9, <2>1, <3>1
  <2>2. ASSUME NEW i \in 1..n + 1, r[i] = k, i # 1 PROVE OnList(k)
    BY <1>10, <1>11, <2>2
  <2>3. OnList(k) <=> \E i \in 1..n : q[i] = k
    BY <1>5, <1>8 DEF Listed
  <2>4. 1 \in 1..n + 1
    OBVIOUS
  <2>5. QED
    BY <1>6, <1>9, <2>1, <2>2, <2>3, <2>4
<1>14. \A i \in 1..n : reg'[q[i]] = IF i = n THEN 0 ELSE q[i + 1]
  BY <1>4, <1>5, <1>8, <1>11 DEF Listed, OnList
<1>15. reg'[r[1]] = IF n = 0 THEN 0 ELSE q[1]
  BY <1>1, <1>4, <1>5, <1>8, <1>9 DEF Listed
<1>16. ASSUME NEW i \in 1..n + 1 PROVE reg'[r[i]] = IF i = n + 1 THEN 0 ELSE r[i + 1]
  <2>1. CASE i = 1
    <3>1. CASE n = 0
      BY <1>15, <2>1, <3>1
    <3>2. CASE n # 0
      <4>1. 1 \in 1..n /\ i # n + 1
        BY <2>1, <3>2
      <4>2. r[i + 1] = q[1]
        BY <1>9, <2>1, <4>1
      <4>3. QED
        BY <1>15, <2>1, <3>2, <4>1, <4>2
    <3>3. QED
      BY <3>1, <3>2
  <2>2. CASE i # 1
    <3>1. i - 1 \in 1..n /\ r[i] = q[i - 1] /\ (i - 1) + 1 = i
      BY <2>2, i \in 1..n + 1, <1>10
    <3>2. reg'[r[i]] = IF i - 1 = n THEN 0 ELSE q[i]
      BY <1>14, <3>1
    <3>3. CASE i = n + 1
      BY <3>2, <3>3
    <3>4. CASE i # n + 1
      <4>1. i \in 1..n /\ i - 1 # n
        BY <3>4
      <4>2. QED
        BY <1>9, <3>2, <3>4, <4>1
    <3>5. QED
      BY <3>3, <3>4
  <2>3. QED
    BY <2>1, <2>2
<1>17. Listed(r)'
  <2>1. Len(r) = n + 1 /\ n + 1 # 0 /\ reg'[1] = r[1]
    BY <1>4, <1>9
  <2>2. QED
    BY <1>12, <1>13, <1>16, <2>1 DEF Listed
<1>18. Covered'
  BY <1>1, <1>4 DEF FInv, Covered, Alone
<1>19. reg'[1] \in Nat
  BY <1>1, <1>4
<1>20. QED
  BY <1>17, <1>18, <1>19 DEF FInv

LEMMA NextF ==
  ASSUME RegistryAssumption, Serial, Serial', HInv, FInv, [Next]_vars
  PROVE  FInv'
<1>0. pc \in [Threads -> PCs]
  BY DEF HInv, TypeOK
<1>1. CASE UNCHANGED vars
  BY <1>1, KeepF DEF vars, Hidden
<1>2. ASSUME NEW t \in Threads, NEW v \in Values, RefRead(t, v) PROVE FInv'
  <2>0. Alone(t) /\ Alone(t)'
    BY <1>0, <1>2, StepAlone
  <2>1. Hidden = {} /\ Hidden' = {}
    BY <1>2, <2>0, HiddenAlone, HiddenAloneNext DEF RefRead, HInv, TypeOK
  <2>2. \A u \in Threads : pc[u] # "link"
    BY <1>2, <2>0 DEF RefRead, Alone
  <2>3. QED
    BY <1>2, <2>1, <2>2, KeepF DEF RefRead
<1>3. ASSUME NEW t \in Threads, RefNext(t) PROVE FInv'
  <2>0. Alone(t) /\ Alone(t)'
    BY <1>0, <1>3, StepAlone
  <2>1. Hidden = {} /\ Hidden' = {}
    BY <1>3, <2>0, HiddenAlone, HiddenAloneNext DEF RefNext, HInv, TypeOK
  <2>2. \A u \in Threads : pc[u] # "link"
    BY <1>3, <2>0 DEF RefNext, Alone
  <2>3. QED
    BY <1>3, <2>1, <2>2, KeepF DEF RefNext
<1>4. ASSUME NEW t \in Threads, RefLen(t) PROVE FInv'
  <2>0. Alone(t) /\ Alone(t)'
    BY <1>0, <1>4, StepAlone
  <2>1. Hidden = {} /\ Hidden' = {Len(reg) + 1}
    BY <1>4, <2>0, HiddenAlone, HiddenAloneNext DEF RefLen, HInv, TypeOK
  <2>2. \A k \in 3..Len(reg) : k \in Hidden' <=> k \in Hidden
    <3>1. Len(reg) \in Nat
      BY DEF HInv, TypeOK
    <3>2. QED
      BY <2>1, <3>1
  <2>3. \A u \in Threads : pc[u] # "link"
    BY <1>4, <2>0 DEF RefLen, Alone
  <2>4. QED
    BY <1>4, <2>2, <2>3, KeepF DEF RefLen
<1>5. ASSUME NEW t \in Threads, NEW p \in live, UnrefRead(t, p) PROVE FInv'
  <2>0. Alone(t) /\ Alone(t)'
    BY <1>0, <1>5, StepAlone
  <2>1. Hidden = {} /\ Hidden' = {} /\ reg' = reg /\ pc[t] = "idle"
    BY <1>5, <2>0, HiddenAlone, HiddenAloneNext DEF UnrefRead, HInv, TypeOK
  <2>2. pc'[t] = "link" /\ ref'[t] = p[1] /\ live' = live \ {p}
    BY <1>5 DEF UnrefRead, HInv, TypeOK
  <2>3. Covered'
    <3> SUFFICES ASSUME NEW k \in 3..Len(reg), reg[k] \notin Nat, \A r \in live' : r[1] # k
                 PROVE  p[1] = k
      BY <2>1, <2>2 DEF Covered
    <3>1. PICK r \in live : r[1] = k
      BY <2>0, <2>1 DEF FInv, Covered, Alone
    <3>2. QED
      BY <2>2, <3>1
  <2>4. \A k : OnList(k)' <=> OnList(k)
    BY <2>1 DEF OnList
  <2>5. ASSUME reg[1] \in Nat PROVE \E q \in Seq(Nat) : Listed(q)'
    BY <2>1, <2>4, <2>5, KeepListed DEF FInv
  <2>6. QED
    BY <2>1, <2>3, <2>5 DEF FInv
<1>6. ASSUME NEW t \in Threads, RefInit(t) \/ RefPop(t) \/ RefStore(t) \/ UnrefLink(t) \/ UnrefHead(t)
      PROVE  FInv'
  <2>1. Alone(t) /\ Alone(t)'
    BY <1>0, <1>6, StepAlone
  <2>2. QED
    BY <1>6, <2>1, InitStepF, PopF, StoreF, LinkF, HeadF
<1>7. QED
  BY <1>1, <1>2, <1>3, <1>4, <1>5, <1>6 DEF Next

-----------------------------------------------------------------------------
(* What following the list from the header yields.                         *)

Turn(f, n) ==
  IF n = 0 THEN <<reg[1]>>
  ELSE IF f[n - 1][Len(f[n - 1])] \in Nat \ {0}
       THEN Append(f[n - 1], reg[f[n - 1][Len(f[n - 1])]])
       ELSE f[n - 1]

\* Induction over the natural numbers, for a set instead of a predicate.
LEMMA SetInduction ==
  ASSUME NEW S, 0 \in S, \A n \in Nat : n \in S => n + 1 \in S
  PROVE  \A n \in Nat : n \in S
<1> DEFINE R == OpToRel(<, Nat)
           T == {n \in Nat : n \notin S}
<1>1. IsWellFoundedOn(R, Nat)
  BY NatLessThanWellFounded
<1>2. \A x, y \in Nat : y < x => <<y, x>> \in R
  BY DEF OpToRel
<1> HIDE DEF R
<1>3. ASSUME T # {} PROVE FALSE
  <2>1. PICK x \in T : \A y \in T : ~ (<<y, x>> \in R)
    BY <1>1, <1>3, WFMin, T \subseteq Nat, Zenon
  <2>2. x # 0 /\ x \in Nat
    OBVIOUS
  <2>3. x - 1 \in Nat /\ x - 1 < x
    BY <2>2
  <2>4. x - 1 \notin T
    BY <2>1, <2>2, <2>3, <1>2
  <2>5. (x - 1) + 1 \in S
    BY <2>3, <2>4
  <2>6. QED
    BY <2>2, <2>5
<1>4. QED
  BY <1>3

LEMMA ChainExists ==
  ASSUME NEW N \in Nat
  PROVE  \E f : f = [n \in 0..N |-> Turn(f, n)]
<1> DEFINE S == {m \in Nat : \E f : f = [n \in 0..m |-> Turn(f, n)]}
<1>1. 0 \in S
  <2> DEFINE f == [n \in 0..0 |-> <<reg[1]>>]
  <2>1. \A n \in 0..0 : Turn(f, n) = <<reg[1]>>
    BY DEF Turn
  <2>2. f = [n \in 0..0 |-> Turn(f, n)]
    BY <2>1, Zenon
  <2>3. QED
    BY <2>2
<1>2. ASSUME NEW m \in Nat, m \in S PROVE m + 1 \in S
  <2>1. PICK f : f = [n \in 0..m |-> Turn(f, n)]
    BY <1>2
  <2> DEFINE g == [n \in 0..m+1 |-> IF n = m + 1 THEN Turn(f, m + 1) ELSE f[n]]
  <2>2. ASSUME NEW n \in 0..m+1 PROVE Turn(g, n) = Turn(f, n)
    <3>1. CASE n = 0
      BY <3>1 DEF Turn
    <3>2. CASE n # 0
      <4>1. n - 1 \in 0..m+1 /\ n - 1 # m + 1
        BY <3>2
      <4>2. g[n - 1] = f[n - 1]
        BY <4>1
      <4> HIDE DEF g
      <4>3. QED
        BY <4>2 DEF Turn
    <3>3. QED
      BY <3>1, <3>2
  <2>3. \A n \in 0..m+1 : g[n] = Turn(f, n)
    <3>1. \A n \in 0..m+1 : n # m + 1 => n \in 0..m
      OBVIOUS
    <3>2. \A n \in 0..m : f[n] = Turn(f, n)
      BY <2>1, Zenon
    <3>3. QED
      BY <3>1, <3>2
  <2>4. g = [n \in 0..m+1 |-> Turn(g, n)]
    <3>1. \A n \in 0..m+1 : g[n] = Turn(g, n)
      BY <2>2, <2>3
    <3>2. DOMAIN g = 0..m+1 /\ g = [n \in DOMAIN g |-> g[n]]
      OBVIOUS
    <3> HIDE DEF g
    <3>3. QED
      BY <3>1, <3>2, Zenon
  <2> HIDE DEF g
  <2>5. \E h : h = [n \in 0..m+1 |-> Turn(h, n)]
    BY <2>4
  <2>6. QED
    BY <2>5
<1>3. \A m \in Nat : m \in S
  <2> HIDE DEF S
  <2>1. QED
    BY <1>1, <1>2, SetInduction
<1>4. QED
  BY <1>3

LEMMA ChainTurn ==
  ASSUME Len(reg) \in Nat, NEW m \in 0..Len(reg)
  PROVE  Chain[m] = Turn(Chain, m)
<1>1. \E f : f = [n \in 0..Len(reg) |-> Turn(f, n)]
  BY ChainExists
<1>2. Chain = [n \in 0..Len(reg) |-> Turn(Chain, n)]
  BY <1>1, Zenon DEF Chain, Turn
<1>3. QED
  BY <1>2, Zenon

\* The list is no longer than the array.
LEMMA ListFits ==
  ASSUME NEW q \in Seq(Nat), NEW N \in Nat, \A i \in 1..Len(q) : q[i] \in 1..N,
         \A i, j \in 1..Len(q) : q[i] = q[j] => i = j
  PROVE  Len(q) <= N
<1>1. PICK d \in Nat : d = Len(q)
  OBVIOUS
<1> DEFINE f == [i \in 1..d |-> q[i]]
<1>2. f \in [1..d -> 1..N] /\ \A i, j \in 1..d : f[i] = f[j] => i = j
  BY <1>1
<1>3. f \in Injection(1..d, 1..N)
  BY <1>2 DEF Injection, IsInjective
<1>4. Cardinality(1..d) = d /\ Cardinality(1..N) = N /\ IsFiniteSet(1..N)
  BY FS_Interval
<1>5. Cardinality(1..d) <= Cardinality(1..N)
  BY <1>3, <1>4, FS_Injection
<1>6. QED
  BY <1>1, <1>4, <1>5

\* The chain is the header's list, one element longer with every turn until
\* the end of the list.
LEMMA ChainValue ==
  ASSUME NEW q \in Seq(Nat), NEW N \in Nat, NEW m \in Nat,
         reg \in Seq(Entries), Listed(q), N = Len(reg), m = Len(q), m <= N
  PROVE  /\ Len(Chain[N]) = m + 1
         /\ \A i \in 1..m + 1 : Chain[N][i] = IF i = m + 1 THEN 0 ELSE q[i]
<1> DEFINE e(i) == IF i = m + 1 THEN 0 ELSE q[i]
           w(n) == (IF n <= m THEN n ELSE m) + 1
           S == {n \in Nat : n <= N => Chain[n] \in Seq(Nat) /\ Len(Chain[n]) = w(n)
                                       /\ \A i \in 1..w(n) : Chain[n][i] = e(i)}
<1>0. /\ \A i \in 1..m : q[i] \in Nat \ {0} /\ reg[q[i]] = e(i + 1)
      /\ reg[1] = e(1)
  <2>1. \A i \in 1..m : q[i] \in 3..Len(reg)
    BY DEF Listed, OnList
  <2>2. \A i \in 1..m : (i = m <=> i + 1 = m + 1)
    OBVIOUS
  <2>3. m = 0 <=> 1 = m + 1
    OBVIOUS
  <2>4. QED
    BY <2>1, <2>2, <2>3 DEF Listed
<1>00. \A i \in 1..m + 1 : e(i) \in Nat
  OBVIOUS
<1> HIDE DEF e
<1>1. 0 \in S
  <2>1. Chain[0] = <<reg[1]>>
    <3>1. 0 \in 0..Len(reg) /\ Len(reg) \in Nat
      OBVIOUS
    <3>2. QED
      BY <3>1, ChainTurn DEF Turn
  <2>2. e(1) \in Nat /\ w(0) = 1 /\ reg[1] = e(1)
    BY <1>00, <1>0
  <2>3. Chain[0] \in Seq(Nat) /\ Len(Chain[0]) = 1 /\ Chain[0][1] = e(1)
    BY <2>1, <2>2
  <2>4. QED
    BY <2>2, <2>3
<1>2. ASSUME NEW n \in Nat, n \in S PROVE n + 1 \in S
  <2> SUFFICES ASSUME n + 1 <= N
               PROVE  /\ Chain[n + 1] \in Seq(Nat) /\ Len(Chain[n + 1]) = w(n + 1)
                      /\ \A i \in 1..w(n + 1) : Chain[n + 1][i] = e(i)
    OBVIOUS
  <2>1. PICK s \in Seq(Nat) : s = Chain[n] /\ Len(s) = w(n) /\ \A i \in 1..w(n) : s[i] = e(i)
    BY <1>2
  <2>2. Chain[n + 1] = IF s[w(n)] \in Nat \ {0} THEN Append(s, reg[s[w(n)]]) ELSE s
    <3>1. n + 1 \in 0..Len(reg) /\ Len(reg) \in Nat /\ (n + 1) - 1 = n /\ n + 1 # 0
      OBVIOUS
    <3>2. Chain[n + 1] = Turn(Chain, n + 1)
      BY <3>1, ChainTurn
    <3>3. QED
      BY <2>1, <3>1, <3>2 DEF Turn
  <2>3. CASE n < m
    <3>1. w(n) = n + 1 /\ w(n + 1) = n + 2 /\ n + 1 \in 1..m /\ (n + 1) + 1 = n + 2 /\ n + 1 \in 1..w(n)
      BY <2>3
    <3>2. s[n + 1] = e(n + 1) /\ e(n + 1) = q[n + 1] /\ e(n + 2) \in Nat
      BY <1>00, <2>1, <3>1 DEF e
    <3>3. Chain[n + 1] = Append(s, e(n + 2))
      BY <1>0, <2>2, <3>1, <3>2
    <3>4. \A i \in 1..n + 2 : i # n + 2 => i \in 1..Len(s) /\ i \in 1..w(n)
      BY <2>1, <3>1
    <3>5. /\ Append(s, e(n + 2)) \in Seq(Nat) /\ Len(Append(s, e(n + 2))) = n + 2
          /\ \A i \in 1..Len(s) : Append(s, e(n + 2))[i] = s[i]
          /\ Append(s, e(n + 2))[n + 2] = e(n + 2)
      BY <2>1, <3>1, <3>2, AppendProperties
    <3>6. ASSUME NEW i \in 1..n + 2 PROVE Append(s, e(n + 2))[i] = e(i)
      BY <2>1, <3>4, <3>5
    <3>7. QED
      BY <3>1, <3>3, <3>5, <3>6
  <2>4. CASE ~(n < m)
    <3>1. w(n) = m + 1 /\ w(n + 1) = m + 1 /\ m + 1 \in 1..w(n)
      BY <2>4
    <3>2. s[m + 1] = 0
      BY <2>1, <3>1 DEF e
    <3>3. QED
      BY <2>1, <2>2, <3>1, <3>2
  <2>5. QED
    BY <2>3, <2>4
<1>3. \A n \in Nat : n \in S
  <2> HIDE DEF S
  <2>1. QED
    BY <1>1, <1>2, SetInduction
<1>4. w(N) = m + 1
  OBVIOUS
<1>5. QED
  BY <1>3, <1>4 DEF e

LEMMA FreeEntriesExact ==
  ASSUME RegistryAssumption, HInv, FInv, reg[1] \in Nat, \A t \in Threads : pc[t] = "idle"
  PROVE  FreeEntries = ({0} \cup (LUA_RIDX_LAST + 1 .. Len(reg))) \ {p[1] : p \in live}
<1>1. PICK q \in Seq(Nat) : Listed(q)
  BY DEF FInv
<1>2. PICK m \in Nat, N \in Nat : m = Len(q) /\ N = Len(reg) /\ reg \in Seq(Entries)
  BY DEF HInv, TypeOK
<1>3. \A i \in 1..m : q[i] \in 1..N
  BY <1>1, <1>2 DEF Listed, OnList
<1>4. m <= N
  BY <1>1, <1>2, <1>3, ListFits DEF Listed
<1>5. /\ Len(Chain[N]) = m + 1
      /\ \A i \in 1..m + 1 : Chain[N][i] = IF i = m + 1 THEN 0 ELSE q[i]
  BY <1>1, <1>2, <1>4, ChainValue
<1>6. \A k : k \in FreeEntries <=> k = 0 \/ \E i \in 1..m : q[i] = k
  <2>1. \A k : k \in FreeEntries <=> \E i \in 1..m + 1 : Chain[N][i] = k
    BY <1>2, <1>5 DEF FreeEntries
  <2>2. m + 1 \in 1..m + 1 /\ \A i \in 1..m : i \in 1..m + 1 /\ i # m + 1
    OBVIOUS
  <2>3. \A i \in 1..m + 1 : i # m + 1 => i \in 1..m
    OBVIOUS
  <2>4. QED
    BY <1>5, <2>1, <2>2, <2>3
<1>7. Hidden = {}
  BY DEF Hidden
<1>8. \A k : (\E i \in 1..m : q[i] = k) <=> k \in 3..N /\ reg[k] \in Nat
  BY <1>1, <1>2, <1>7 DEF Listed, OnList
<1>9. \A p \in live : p[1] \in 3..N /\ reg[p[1]] \notin Nat
  BY <1>2 DEF RegistryAssumption, HInv, LiveKept, TypeOK
<1>10. \A k \in 3..N : reg[k] \in Nat \/ \E p \in live : p[1] = k
  BY <1>2 DEF FInv, Covered
<1>11. \A k : k \in FreeEntries <=> (k = 0 \/ k \in 3..N) /\ ~ \E p \in live : p[1] = k
  <2>1. \A p \in live : p[1] # 0
    BY <1>9
  <2>2. QED
    BY <1>6, <1>8, <1>9, <1>10, <2>1
<1>12. QED
  BY <1>2, <1>11 DEF LUA_RIDX_LAST

\* While no call is under way, following the free list from the header meets
\* every entry under no reference, once, and nothing else: no entry is lost to
\* the registry, whatever luaL_ref and luaL_unref have done before, in every
\* behaviour in which no two calls overlap.
THEOREM NoEntryLost ==
  ASSUME RegistryAssumption
  PROVE  Spec /\ []Serial => []FreeListExact
<1>1. Init => HInv /\ FInv
  <2> SUFFICES ASSUME Init PROVE FInv
    BY InitHolds
  <2>1. reg = <<MAIN, GLOBALS>> /\ Len(reg) = 2 /\ reg[1] \notin Nat
    BY DEF RegistryAssumption, Init
  <2>2. QED
    BY <2>1 DEF FInv, Covered
<1>2. (HInv /\ FInv) /\ Serial /\ Serial' /\ [Next]_vars => (HInv /\ FInv)'
  BY NextHolds, NextF
<1>3. HInv /\ FInv => FreeListExact
  BY FreeEntriesExact DEF FreeListExact
<1>4. QED
  BY <1>1, <1>2, <1>3, PTL DEF Spec

-----------------------------------------------------------------------------
(* Types, when calls of any number of threads overlap.                      *)

\* What a thread is about to read or write is an entry of the array or the one
\* behind its end, whatever other threads have done since it read the index.
InArray == \A t \in Threads :
  /\ pc[t] \in {"next", "pop", "link", "head"} => ref[t] \in 1..Len(reg)
  /\ pc[t] = "store" => ref[t] \in 1..Len(reg) + 1

\* Wherever indices are kept they are inside the array, which never shrinks.
Inside ==
  /\ TypeOK /\ InArray /\ Len(reg) >= 2
  /\ \A k \in 1..Len(reg) : reg[k] \in Nat => reg[k] <= Len(reg)
  /\ \A p \in live : p[1] \in 1..Len(reg)
  /\ \A t \in Threads :
       /\ top[t] \in Nat => top[t] <= Len(reg)
       /\ pc[t] \in {"init", "next", "pop", "len", "store"} => val[t] \in Values

\* Calls that do not write to the array
LEMMA InsideReads ==
  ASSUME RegistryAssumption, Inside, NEW t \in Threads,
         \/ \E v \in Values : RefRead(t, v)
         \/ RefNext(t) \/ RefLen(t)
         \/ \E p \in live : UnrefRead(t, p)
  PROVE  Inside'
<1> USE DEF RegistryAssumption, Inside, InArray, TypeOK, PCs
<1>1. reg' = reg /\ DOMAIN reg = 1..Len(reg) /\ Len(reg) \in Nat
      /\ \A k \in 1..Len(reg) : reg[k] \in Entries
  BY DEF RefRead, RefNext, RefLen, UnrefRead
<1>2. ASSUME NEW v \in Values, RefRead(t, v) PROVE Inside'
  <2>1. reg[1] \in Nat => reg[1] <= Len(reg)
    BY <1>1
  <2>2. /\ UNCHANGED <<reg, top, live>> /\ val' = [val EXCEPT ![t] = v] /\ pc[t] = "idle"
        /\ \/ /\ reg[1] \in Nat \ {0} /\ ref' = [ref EXCEPT ![t] = reg[1]]
              /\ pc' = [pc EXCEPT ![t] = "next"]
           \/ ref' = [ref EXCEPT ![t] = 0] /\ pc' = [pc EXCEPT ![t] = "len"]
           \/ ref' = [ref EXCEPT ![t] = 0] /\ pc' = [pc EXCEPT ![t] = "init"]
    BY <1>2 DEF RefRead
  <2>3. TypeOK'
    <3>1. val' \in [Threads -> Values \cup {MAIN}]
      BY <2>2
    <3>2. pc' \in [Threads -> PCs]
      BY <2>2
    <3>3. ref' \in [Threads -> Nat]
      <4>1. PICK r \in Nat : ref' = [ref EXCEPT ![t] = r]
        BY <2>2
      <4>2. QED
        BY <4>1
    <3>4. QED
      BY <2>2, <3>1, <3>2, <3>3
  <2>4. InArray'
    <3>1. Len(reg) \in Nat /\ 1 \in 1..Len(reg)
      BY <1>1
    <3>2. CASE pc' = [pc EXCEPT ![t] = "next"]
      BY ONLY InArray, <2>1, <2>2, <3>1, <3>2, pc \in [Threads -> PCs], ref \in [Threads -> Nat], t \in Threads DEF InArray, PCs
    <3>3. CASE pc' = [pc EXCEPT ![t] = "len"] \/ pc' = [pc EXCEPT ![t] = "init"]
      BY ONLY InArray, <2>2, <3>1, <3>3, pc \in [Threads -> PCs], ref \in [Threads -> Nat], t \in Threads DEF InArray, PCs
    <3> QED BY <2>2, <3>2, <3>3
  <2>5. QED
    BY <1>1, <2>2, <2>3, <2>4
<1>3. CASE RefNext(t)
  BY <1>1, <1>3 DEF RefNext
<1>4. CASE RefLen(t)
  BY <1>1, <1>4 DEF RefLen
<1>5. ASSUME NEW p \in live, UnrefRead(t, p) PROVE Inside'
  BY <1>1, <1>5 DEF UnrefRead
<1>6. QED
  BY <1>2, <1>3, <1>4, <1>5

\* Calls that do write an entry j
LEMMA InsideWrites ==
  ASSUME RegistryAssumption, Inside, NEW t \in Threads,
         RefInit(t) \/ RefPop(t) \/ RefStore(t) \/ UnrefLink(t) \/ UnrefHead(t)
  PROVE  Inside'
<1> USE DEF RegistryAssumption, Inside, InArray, TypeOK, PCs
<1>1. PICK j \in 1..Len(reg) + 1, x \in Entries :
        /\ Put(j, x)
        /\ x \in Nat => x <= Len(reg)
        /\ UNCHANGED <<ref, top, val>>
        /\ \/ /\ live' = live /\ j <= Len(reg)
              /\ pc[t] = "init" /\ pc' = [pc EXCEPT ![t] = "len"]
           \/ /\ live' = live /\ j <= Len(reg)
              /\ pc[t] = "pop" /\ pc' = [pc EXCEPT ![t] = "store"]
           \/ /\ live' = live \cup {<<j, x>>} /\ x \in Values
              /\ pc' = [pc EXCEPT ![t] = "idle"]
           \/ /\ live' = live /\ j <= Len(reg)
              /\ pc[t] = "link" /\ pc' = [pc EXCEPT ![t] = "head"]
           \/ /\ live' = live /\ j <= Len(reg)
              /\ pc' = [pc EXCEPT ![t] = "idle"]
  <2>0. Len(reg) \in Nat
    OBVIOUS
  <2>1. CASE RefInit(t)
    <3>1. 1 \in 1..Len(reg) + 1 /\ 1 <= Len(reg) /\ 0 \in Entries /\ 0 <= Len(reg)
      BY <2>0 DEF Entries
    <3>2. Put(1, 0) /\ pc[t] = "init" /\ pc' = [pc EXCEPT ![t] = "len"]
          /\ UNCHANGED <<ref, top, val, live>>
      BY <2>1 DEF RefInit
    <3>3. QED
      BY ONLY <3>1, <3>2
  <2>2. CASE RefPop(t)
    <3>1. 1 \in 1..Len(reg) + 1 /\ 1 <= Len(reg) /\ top[t] \in Entries
      BY <2>0
    <3>2. top[t] \in Nat => top[t] <= Len(reg)
      OBVIOUS
    <3>3. Put(1, top[t]) /\ pc[t] = "pop" /\ pc' = [pc EXCEPT ![t] = "store"]
          /\ UNCHANGED <<ref, top, val, live>>
      BY <2>2 DEF RefPop
    <3>4. QED
      BY ONLY <3>1, <3>2, <3>3
  <2>3. CASE RefStore(t)
    <3>1. ref[t] \in 1..Len(reg) + 1 /\ val[t] \in Values /\ val[t] \in Entries /\ val[t] \notin Nat
      BY <2>0, <2>3 DEF RefStore, Entries
    <3>2. Put(ref[t], val[t]) /\ live' = live \cup {<<ref[t], val[t]>>} /\ pc' = [pc EXCEPT ![t] = "idle"]
          /\ UNCHANGED <<ref, top, val>>
      BY <2>3 DEF RefStore
    <3>3. QED
      BY ONLY <3>1, <3>2
  <2>4. CASE UnrefLink(t)
    <3>0. pc[t] = "link" /\ ref[t] \in 1..Len(reg) /\ top[t] \in Entries
      BY <2>4 DEF UnrefLink
    <3>1. ref[t] \in 1..Len(reg) + 1 /\ ref[t] <= Len(reg) /\ top[t] \in Entries
      BY ONLY <2>0, <3>0
    <3>2. top[t] \in Nat => top[t] <= Len(reg)
      OBVIOUS
    <3>3. Put(ref[t], top[t]) /\ pc[t] = "link" /\ pc' = [pc EXCEPT ![t] = "head"]
          /\ UNCHANGED <<ref, top, val, live>>
      BY <2>4 DEF UnrefLink
    <3>4. QED
      BY ONLY <3>1, <3>2, <3>3
  <2>5. CASE UnrefHead(t)
    <3>1. 1 \in 1..Len(reg) + 1 /\ 1 <= Len(reg) /\ ref[t] \in Entries /\ ref[t] <= Len(reg)
      BY <2>0, <2>5 DEF UnrefHead, Entries
    <3>2. Put(1, ref[t]) /\ pc' = [pc EXCEPT ![t] = "idle"] /\ UNCHANGED <<ref, top, val, live>>
      BY <2>5 DEF UnrefHead
    <3>3. QED
      BY ONLY <3>1, <3>2
  <2>6. QED
    BY <2>1, <2>2, <2>3, <2>4, <2>5
<1>2. /\ reg' \in Seq(Entries)
      /\ Len(reg') = IF j = Len(reg) + 1 THEN j ELSE Len(reg)
      /\ DOMAIN reg' = 1..Len(reg')
      /\ \A k \in 1..Len(reg') : reg'[k] = IF k = j THEN x ELSE reg[k]
  <2>1. reg \in Seq(Entries)
    OBVIOUS
  <2>2. Put(j, x)
    BY <1>1
  <2>3. QED
    BY ONLY <2>1, <2>2, j \in 1..Len(reg) + 1, x \in Entries, PutFacts
<1>3. Len(reg) \in Nat /\ Len(reg') \in Nat /\ Len(reg) <= Len(reg') /\ j \in 1..Len(reg')
  BY <1>1, <1>2
<1>4. \A k \in 1..Len(reg') : reg'[k] \in Nat => reg'[k] <= Len(reg')
  <2>1. \A k \in 1..Len(reg') : k = j \/ k \in 1..Len(reg)
    BY <1>2, <1>3
  <2>2. \A k \in 1..Len(reg) : reg[k] \in Nat => reg[k] <= Len(reg)
    OBVIOUS
  <2>3. ASSUME NEW k \in 1..Len(reg'), reg'[k] \in Nat PROVE reg'[k] <= Len(reg')
    <3>1. CASE k = j
      BY ONLY <1>1, <1>2, <1>3, <2>3, k \in 1..Len(reg'), <3>1
    <3>2. CASE k # j
      <4>1. reg'[k] = reg[k] /\ k \in 1..Len(reg)
        BY ONLY <1>2, <2>1, <2>3, k \in 1..Len(reg'), <3>2
      <4>2. QED
        BY ONLY <1>3, <2>2, <2>3, <4>1
    <3>3. QED
      BY <3>1, <3>2
  <2>4. QED
    BY <2>3
<1>5. live' \subseteq Nat \X Values /\ \A p \in live' : p[1] \in 1..Len(reg')
  BY <1>1, <1>3
<1>6. pc' \in [Threads -> PCs]
  BY <1>1
<1>7. InArray' /\ \A u \in Threads : /\ top'[u] \in Nat => top'[u] <= Len(reg')
                                     /\ pc'[u] \in {"init", "next", "pop", "len", "store"} => val'[u] \in Values
  BY <1>1, <1>3
<1>8. QED
  BY <1>1, <1>2, <1>3, <1>4, <1>5, <1>6, <1>7

\* For any number of threads whose calls overlap in any way, types are kept and
\* no call reads or writes outside of the array: what overlapping calls spoil
\* are references and the free list, never the table.
THEOREM RegistryTypes ==
  ASSUME RegistryAssumption
  PROVE  Spec => [](TypeOK /\ InArray)
<1>1. Init => Inside
  <2> SUFFICES ASSUME Init PROVE Inside
    OBVIOUS
  <2>1. TypeOK
    BY InitHolds DEF HInv
  <2>2. reg = <<MAIN, GLOBALS>> /\ Len(reg) = 2 /\ \A k \in 1..2 : reg[k] \notin Nat
    BY DEF RegistryAssumption, Init
  <2>3. QED
    BY <2>1, <2>2 DEF Init, Inside, InArray
<1>2. Inside /\ [Next]_vars => Inside'
  <2> SUFFICES ASSUME Inside, [Next]_vars PROVE Inside'
    OBVIOUS
  <2>1. CASE UNCHANGED vars
    BY <2>1 DEF vars, Inside, InArray, TypeOK
  <2>2. CASE Next
    BY <2>2, InsideReads, InsideWrites DEF Next
  <2>3. QED
    BY <2>1, <2>2
<1>3. Inside => TypeOK /\ InArray
  BY DEF Inside
<1>4. QED
  BY <1>1, <1>2, <1>3, PTL DEF Spec
=============================================================================
