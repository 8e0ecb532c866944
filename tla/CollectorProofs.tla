-------------------------- MODULE CollectorProofs --------------------------
(***************************************************************************)
(* Theorems about Collector, for any number of objects of all kinds but    *)
(* maps, and any number of entries.                                        *)
(***************************************************************************)
EXTENDS Collector, TLAPS, Integers, FiniteSetTheorems, SequenceTheorems, NaturalsInduction, WellFoundedInduction

\* A set that contains 0, and the successor of what it contains, contains all
\* natural numbers.
LEMMA SetInduction ==
  ASSUME NEW S, 0 \in S, \A n \in Nat : n \in S => n + 1 \in S
  PROVE  \A n \in Nat : n \in S
<1> DEFINE R == OpToRel(<, Nat)
           T == {n \in Nat : n \notin S}
<1>1. IsWellFoundedOn(R, Nat)
  BY NatLessThanWellFounded
<1>2. \A x, y \in Nat : y < x => <<y, x>> \in R
  BY DEF OpToRel
<1> HIDE DEF R
<1>3. ASSUME T # {} PROVE FALSE
  <2>1. PICK x \in T : \A y \in T : ~ (<<y, x>> \in R)
    BY <1>1, <1>3, WFMin, T \subseteq Nat, Zenon
  <2>2. x # 0 /\ x \in Nat
    OBVIOUS
  <2>3. x - 1 \in Nat /\ x - 1 < x
    BY <2>2
  <2>4. x - 1 \notin T
    BY <2>1, <2>2, <2>3, <1>2
  <2>5. (x - 1) + 1 \in S
    BY <2>3, <2>4
  <2>6. QED
    BY <2>2, <2>5
<1>4. QED
  BY <1>3

-----------------------------------------------------------------------------
(* Sequences: distinct members, and what comes after what.                 *)

Distinct(s) == \A i, j \in 1 .. Len(s) : s[i] = s[j] => i = j

\* y comes after x in s
After(s, x, y) == \E i, j \in 1 .. Len(s) : i < j /\ s[i] = x /\ s[j] = y

LEMMA RangeIs ==
  ASSUME NEW X, NEW s \in Seq(X)
  PROVE  /\ Range(s) = {s[i] : i \in 1 .. Len(s)} /\ Range(s) \subseteq X
         /\ \A i \in 1 .. Len(s) : s[i] \in Range(s) /\ s[i] \in X
         /\ Len(s) \in Nat
<1>1. DOMAIN s = 1 .. Len(s)
  OBVIOUS
<1>2. \A i \in 1 .. Len(s) : s[i] \in X
  OBVIOUS
<1>3. QED
  BY <1>1, <1>2 DEF Range

LEMMA AfterIn ==
  ASSUME NEW X, NEW s \in Seq(X), NEW x, NEW y, After(s, x, y)
  PROVE  x \in Range(s) /\ y \in Range(s)
BY RangeIs DEF After

\* What Only computes for the first n members of s.
Step(f, s, S, n) ==
  IF n = 0 THEN <<>>
  ELSE IF s[n] \in S THEN Append(f[n - 1], s[n]) ELSE f[n - 1]

LEMMA OnlyExists ==
  ASSUME NEW s, NEW S, NEW N \in Nat
  PROVE  \E f : f = [n \in 0 .. N |-> Step(f, s, S, n)]
<1> DEFINE T == {m \in Nat : \E f : f = [n \in 0 .. m |-> Step(f, s, S, n)]}
<1>1. 0 \in T
  <2> DEFINE f == [n \in 0 .. 0 |-> <<>>]
  <2>1. \A n \in 0 .. 0 : Step(f, s, S, n) = <<>>
    BY DEF Step
  <2>2. f = [n \in 0 .. 0 |-> Step(f, s, S, n)]
    BY <2>1
  <2>3. QED
    BY <2>2
<1>2. ASSUME NEW m \in Nat, m \in T PROVE m + 1 \in T
  <2>1. PICK f : f = [n \in 0 .. m |-> Step(f, s, S, n)]
    BY <1>2
  <2>0. PICK g : g = [n \in 0 .. m + 1 |-> IF n = m + 1 THEN Step(f, s, S, m + 1) ELSE f[n]]
    OBVIOUS
  <2>2. \A n \in 0 .. m + 1 : Step(g, s, S, n) = Step(f, s, S, n)
    <3> TAKE n \in 0 .. m + 1
    <3>1. CASE n = 0
      BY <3>1 DEF Step
    <3>2. CASE n # 0
      <4>1. n - 1 \in 0 .. m + 1 /\ n - 1 # m + 1
        BY <3>2
      <4>2. g[n - 1] = f[n - 1]
        BY <2>0, <4>1
      <4>3. QED
        BY ONLY <4>2 DEF Step
    <3>3. QED
      BY <3>1, <3>2
  <2>3. \A n \in 0 .. m + 1 : g[n] = Step(g, s, S, n)
    <3> TAKE n \in 0 .. m + 1
    <3>1. CASE n = m + 1
      BY <2>0, <2>2, <3>1
    <3>2. CASE n # m + 1
      <4>1. n \in 0 .. m
        BY <3>2
      <4>2. f[n] = Step(f, s, S, n)
        BY <2>1, <4>1
      <4>3. g[n] = f[n]
        BY <2>0, <3>2
      <4>4. QED
        BY <2>2, <4>2, <4>3
    <3>3. QED
      BY <3>1, <3>2
  <2>4. g = [n \in 0 .. m + 1 |-> Step(g, s, S, n)]
    <3>1. PICK h : h = [n \in 0 .. m + 1 |-> Step(g, s, S, n)]
      OBVIOUS
    <3>2. \A n \in 0 .. m + 1 : g[n] = h[n]
      BY <2>3, <3>1
    <3>3. g = h
      BY <2>0, <3>1, <3>2
    <3>4. QED
      BY <3>1, <3>3
  <2>5. QED
    BY <2>4
<1> HIDE DEF T
<1>3. \A n \in Nat : n \in T
  BY <1>1, <1>2, SetInduction
<1>4. QED
  BY <1>3 DEF T

\* e says where the members of t are in the first n members of s.
Places(e, t, s, n) ==
  /\ e \in [1 .. Len(t) -> 1 .. n]
  /\ \A k, l \in 1 .. Len(t) : k < l => e[k] < e[l]
  /\ \A k \in 1 .. Len(t) : t[k] = s[e[k]]

LEMMA OnlyPlaces ==
  ASSUME NEW X, NEW s \in Seq(X), NEW S
  PROVE  /\ Only(s, S) \in Seq(X \cap S)
         /\ \E e : /\ Places(e, Only(s, S), s, Len(s))
                   /\ \A i \in 1 .. Len(s) : s[i] \in S => \E k \in 1 .. Len(Only(s, S)) : e[k] = i
<1>1. PICK N \in Nat : N = Len(s)
  OBVIOUS
<1> DEFINE f == CHOOSE h : h = [n \in 0 .. Len(s) |-> Step(h, s, S, n)]
<1>2. f = [n \in 0 .. N |-> Step(f, s, S, n)]
  BY <1>1, OnlyExists
<1>3. Only(s, S) = f[N]
  BY <1>1 DEF Only, Step
<1> HIDE DEF f
<1>4. \A n \in 0 .. N : f[n] = Step(f, s, S, n)
  BY <1>2
<1> DEFINE Good(n) == /\ f[n] \in Seq(X \cap S)
                      /\ \E e : /\ Places(e, f[n], s, n)
                                /\ \A i \in 1 .. n : s[i] \in S => \E k \in 1 .. Len(f[n]) : e[k] = i
           T == {n \in Nat : n <= N => Good(n)}
<1>5. 0 \in T
  <2>1. f[0] = <<>>
    BY <1>4 DEF Step
  <2>2. PICK e : e = [k \in 1 .. 0 |-> 1]
    OBVIOUS
  <2>3. Places(e, <<>>, s, 0)
    BY <2>2 DEF Places
  <2>4. <<>> \in Seq(X \cap S) /\ \A i \in 1 .. 0 : FALSE
    OBVIOUS
  <2>5. QED
    BY <2>1, <2>3, <2>4
<1>6. ASSUME NEW n \in Nat, n \in T PROVE n + 1 \in T
  <2> SUFFICES ASSUME n + 1 <= N PROVE Good(n + 1)
    OBVIOUS
  <2>1. n \in 0 .. N /\ n + 1 \in 0 .. N /\ n + 1 # 0 /\ (n + 1) - 1 = n
    BY <1>1
  <2>2. f[n + 1] = IF s[n + 1] \in S THEN Append(f[n], s[n + 1]) ELSE f[n]
    BY <1>4, <2>1 DEF Step
  <2>3. Good(n)
    BY <1>6, <2>1
  <2>4. PICK t \in Seq(X \cap S) : t = f[n]
    BY <2>3
  <2>5. PICK e : /\ Places(e, t, s, n)
                 /\ \A i \in 1 .. n : s[i] \in S => \E k \in 1 .. Len(t) : e[k] = i
    BY <2>3, <2>4
  <2>6. PICK m \in Nat : m = Len(t)
    OBVIOUS
  <2>7. CASE s[n + 1] \notin S
    <3>1. f[n + 1] = t
      BY <2>2, <2>4, <2>7
    <3>2. e \in [1 .. Len(t) -> 1 .. n + 1]
      BY <2>5 DEF Places
    <3>3. Places(e, t, s, n + 1)
      BY <2>5, <3>2 DEF Places
    <3>4. \A i \in 1 .. n + 1 : s[i] \in S => \E k \in 1 .. Len(t) : e[k] = i
      BY <2>5, <2>7
    <3>5. QED
      BY <3>1, <3>3, <3>4
  <2>8. CASE s[n + 1] \in S
    <3>0. s[n + 1] \in X
      BY <1>1, <2>1
    <3>1. PICK u : u = Append(t, s[n + 1])
      OBVIOUS
    <3>2. f[n + 1] = u
      BY <2>2, <2>4, <2>8, <3>1
    <3>3. /\ u \in Seq(X \cap S) /\ Len(u) = m + 1 /\ u[m + 1] = s[n + 1]
          /\ \A k \in 1 .. m : u[k] = t[k]
      BY <2>6, <2>8, <3>0, <3>1, AppendProperties
    <3>4. PICK d : d = [k \in 1 .. m + 1 |-> IF k = m + 1 THEN n + 1 ELSE e[k]]
      OBVIOUS
    <3>5. \A k \in 1 .. m : d[k] = e[k] /\ e[k] \in 1 .. n
      <4>1. \A k \in 1 .. m : k \in 1 .. m + 1 /\ k # m + 1
        OBVIOUS
      <4>2. \A k \in 1 .. m : d[k] = e[k]
        BY <3>4, <4>1
      <4>3. \A k \in 1 .. m : e[k] \in 1 .. n
        BY <2>5, <2>6 DEF Places
      <4>4. QED
        BY <4>2, <4>3
    <3>6. d[m + 1] = n + 1
      BY <3>4
    <3>7. d \in [1 .. Len(u) -> 1 .. n + 1]
      BY <2>5, <2>6, <3>3, <3>4 DEF Places
    <3>8. ASSUME NEW k \in 1 .. m + 1, NEW l \in 1 .. m + 1, k < l PROVE d[k] < d[l]
      <4>1. k \in 1 .. m
        BY <3>8
      <4>2. CASE l = m + 1
        BY <3>5, <3>6, <4>1, <4>2
      <4>3. CASE l # m + 1
        <5>1. l \in 1 .. m
          BY <4>3
        <5>2. e[k] < e[l]
          BY <2>5, <2>6, <3>8, <4>1, <5>1 DEF Places
        <5>3. QED
          BY <3>5, <4>1, <5>1, <5>2
      <4>4. QED
        BY <4>2, <4>3
    <3>9. ASSUME NEW k \in 1 .. m + 1 PROVE u[k] = s[d[k]]
      <4>1. CASE k = m + 1
        BY <3>3, <3>6, <4>1
      <4>2. CASE k # m + 1
        <5>1. k \in 1 .. m
          BY <4>2
        <5>2. QED
          BY <2>5, <2>6, <3>3, <3>5, <5>1 DEF Places
      <4>3. QED
        BY <4>1, <4>2
    <3>10. Places(d, u, s, n + 1)
      BY <3>3, <3>7, <3>8, <3>9 DEF Places
    <3>11. ASSUME NEW i \in 1 .. n + 1, s[i] \in S PROVE \E k \in 1 .. Len(u) : d[k] = i
      <4>1. CASE i = n + 1
        BY <3>3, <3>6, <4>1
      <4>2. CASE i # n + 1
        <5>1. PICK k \in 1 .. m : e[k] = i
          BY <2>5, <2>6, <3>11, <4>2
        <5>2. k \in 1 .. m + 1
          OBVIOUS
        <5>3. QED
          BY <3>3, <3>5, <5>1, <5>2
      <4>3. QED
        BY <4>1, <4>2
    <3>12. QED
      BY <3>2, <3>3, <3>10, <3>11
  <2>9. QED
    BY <2>7, <2>8
<1>7. \A n \in Nat : n \in T
  <2> HIDE DEF T
  <2>1. QED
    BY <1>5, <1>6, SetInduction
<1>8. Good(N)
  BY <1>7
<1>9. QED
  BY <1>1, <1>3, <1>8

\* Only keeps the members of S and their order, and repeats none.
LEMMA OnlyIs ==
  ASSUME NEW X, NEW s \in Seq(X), NEW S
  PROVE  /\ Only(s, S) \in Seq(X) /\ Range(Only(s, S)) = Range(s) \cap S
         /\ Distinct(s) => Distinct(Only(s, S))
         /\ \A x, y \in S : After(s, x, y) => After(Only(s, S), x, y)
<1>1. PICK t : t = Only(s, S)
  OBVIOUS
<1>2. t \in Seq(X \cap S)
  BY <1>1, OnlyPlaces
<1>3. PICK e : /\ Places(e, t, s, Len(s))
               /\ \A i \in 1 .. Len(s) : s[i] \in S => \E k \in 1 .. Len(t) : e[k] = i
  <2>1. \E e : /\ Places(e, Only(s, S), s, Len(s))
               /\ \A i \in 1 .. Len(s) : s[i] \in S => \E k \in 1 .. Len(Only(s, S)) : e[k] = i
    BY OnlyPlaces
  <2>2. QED
    BY ONLY <1>1, <2>1
<1>4. t \in Seq(X)
  BY <1>2
<1>5. Len(t) \in Nat /\ Len(s) \in Nat
  BY <1>2
<1>6. Range(t) = Range(s) \cap S
  <2>1. Range(t) = {t[k] : k \in 1 .. Len(t)} /\ Range(t) \subseteq X \cap S
    BY <1>2, RangeIs
  <2>2. Range(s) = {s[i] : i \in 1 .. Len(s)}
    BY RangeIs
  <2>3. Range(t) \subseteq Range(s)
    BY <1>3, <2>1, <2>2 DEF Places
  <2>4. ASSUME NEW x \in Range(s), x \in S PROVE x \in Range(t)
    <3>1. PICK i \in 1 .. Len(s) : s[i] = x
      BY <2>2
    <3>2. PICK k \in 1 .. Len(t) : e[k] = i
      BY <1>3, <2>4, <3>1
    <3>3. t[k] = x
      BY <1>3, <3>1, <3>2 DEF Places
    <3>4. QED
      BY <2>1, <3>3
  <2>5. QED
    BY <2>1, <2>3, <2>4
<1>7. ASSUME Distinct(s) PROVE Distinct(t)
  <2> SUFFICES ASSUME NEW k \in 1 .. Len(t), NEW l \in 1 .. Len(t), t[k] = t[l] PROVE k = l
    BY DEF Distinct
  <2>1. e[k] \in 1 .. Len(s) /\ e[l] \in 1 .. Len(s) /\ s[e[k]] = s[e[l]]
    BY <1>3 DEF Places
  <2>2. e[k] = e[l]
    BY <1>7, <2>1 DEF Distinct
  <2>3. ~(k < l) /\ ~(l < k)
    BY <1>3, <2>1, <2>2 DEF Places
  <2>4. QED
    BY <1>5, <2>3
<1>8. ASSUME NEW x \in S, NEW y \in S, After(s, x, y) PROVE After(t, x, y)
  <2>1. PICK i \in 1 .. Len(s) : \E j \in 1 .. Len(s) : i < j /\ s[i] = x /\ s[j] = y
    BY <1>8 DEF After
  <2>2. PICK j \in 1 .. Len(s) : i < j /\ s[i] = x /\ s[j] = y
    BY <2>1
  <2>3. PICK k \in 1 .. Len(t) : e[k] = i
    BY <1>3, <2>2
  <2>4. PICK l \in 1 .. Len(t) : e[l] = j
    BY <1>3, <2>2
  <2>5. t[k] = x /\ t[l] = y
    BY <1>3, <2>2, <2>3, <2>4 DEF Places
  <2>6. k < l
    <3>1. k # l
      BY <2>2, <2>3, <2>4
    <3>2. ~(l < k)
      <4>1. ASSUME l < k PROVE FALSE
        <5>1. e[l] < e[k]
          BY <1>3, <4>1 DEF Places
        <5>2. QED
          BY <2>2, <2>3, <2>4, <5>1
      <4>2. QED
        BY <4>1
    <3>3. QED
      BY <1>5, <3>1, <3>2
  <2>7. QED
    BY <2>5, <2>6 DEF After
<1>9. QED
  BY <1>1, <1>4, <1>6, <1>7, <1>8

-----------------------------------------------------------------------------
(* The lists of objects.                                                   *)

Names == {"allgc", "finobj", "tobefnz"}

\* Each object of A is once in one of the lists ls.
Lists(ls, A) ==
  /\ ls \in [Names -> Seq(Objects)]
  /\ \A n \in Names : Distinct(ls[n])
  /\ \A m, n \in Names : \A o \in Objects : o \in Range(ls[m]) /\ o \in Range(ls[n]) => m = n
  /\ \A o \in Objects : o \in A <=> \E n \in Names : o \in Range(ls[n])

\* The address p is in front of o: p is the head of the list, or an object.
IsBehind(ls, p, o) == \E n \in Names : (p = n /\ o \in Range(ls[n])) \/ After(ls[n], p, o)

LEMMA NoName == Names \cap Objects = {} /\ "none" \notin Objects \cup Names
BY CollectorAssumption DEF Names

LEMMA ListIs ==
  ASSUME NEW ls, NEW A, Lists(ls, A), NEW n \in Names
  PROVE  /\ ls[n] \in Seq(Objects) /\ Distinct(ls[n]) /\ Len(ls[n]) \in Nat
         /\ Range(ls[n]) = {ls[n][i] : i \in 1 .. Len(ls[n])} /\ Range(ls[n]) \subseteq Objects
         /\ \A i \in 1 .. Len(ls[n]) : ls[n][i] \in Range(ls[n]) /\ ls[n][i] \in Objects
         /\ DOMAIN ls = Names
<1>1. ls[n] \in Seq(Objects) /\ DOMAIN ls = Names /\ Distinct(ls[n])
  BY DEF Lists
<1>2. QED
  BY <1>1, RangeIs

\* Behind finds what it should, in the order of the list.
LEMMA BehindIs ==
  ASSUME NEW ls, NEW A, Lists(ls, A), NEW p \in Names \cup A, A \subseteq Objects,
         NEW s, s = Behind(ls, p)
  PROVE  /\ s \in Seq(Objects)
         /\ \A o : o \in Range(s) <=> IsBehind(ls, p, o)
         /\ \A i, j \in 1 .. Len(s) : i < j => IsBehind(ls, s[i], s[j])
         /\ Distinct(s) /\ p \notin Range(s)
<1>1. CASE p \in Names
  <2>1. s = ls[p]
    BY <1>1, ListIs DEF Behind
  <2>2. ASSUME NEW o PROVE o \in Range(s) <=> IsBehind(ls, p, o)
    <3>1. \A n \in Names : ~After(ls[n], p, o)
      <4>1. \A n \in Names : p \notin Range(ls[n])
        BY <1>1, NoName, ListIs
      <4>2. QED
        BY <4>1, ListIs, AfterIn
    <3>2. QED
      BY <1>1, <2>1, <3>1 DEF IsBehind
  <2>3. \A i, j \in 1 .. Len(s) : i < j => IsBehind(ls, s[i], s[j])
    BY <1>1, <2>1 DEF IsBehind, After
  <2>4. s \in Seq(Objects) /\ Distinct(s) /\ p \notin Range(s)
    BY <1>1, <2>1, ListIs, NoName
  <2>5. QED
    BY <2>2, <2>3, <2>4
<1>2. CASE p \in A
  <2>1. PICK n \in Names : p \in Range(ls[n])
    BY <1>2 DEF Lists
  <2>2. \A m \in Names : p \in Range(ls[m]) => m = n
    BY <1>2, <2>1 DEF Lists
  <2>3. ListOf(ls, p) = n
    <3>1. DOMAIN ls = Names
      BY <2>1, ListIs
    <3>2. QED
      BY <2>1, <2>2, <3>1 DEF ListOf
  <2>4. PICK t \in Seq(Objects) : t = ls[n]
    BY ListIs
  <2>5. PICK N \in Nat : N = Len(t)
    OBVIOUS
  <2>6. PICK k \in 1 .. N : t[k] = p
    BY <2>1, <2>4, <2>5, ListIs
  <2>7. \A l \in 1 .. N : t[l] = p => l = k
    BY <2>4, <2>5, <2>6, ListIs DEF Distinct
  <2>8. IndexIn(t, p) = k
    BY <2>5, <2>6, <2>7 DEF IndexIn
  <2>9. s = SubSeq(t, k + 1, N)
    <3>1. p \notin DOMAIN ls
      BY <1>2, <2>1, ListIs, NoName
    <3>2. QED
      BY <2>3, <2>4, <2>5, <2>8, <3>1 DEF Behind
  <2>10. /\ s \in Seq(Objects) /\ Len(s) = N - k
         /\ \A i \in 1 .. N - k : s[i] = t[k + i]
    BY <2>4, <2>5, <2>6, <2>9
  <2>11. ASSUME NEW o PROVE o \in Range(s) <=> IsBehind(ls, p, o)
    <3>1. IsBehind(ls, p, o) <=> After(t, p, o)
      <4>1. ASSUME NEW m \in Names, After(ls[m], p, o) PROVE m = n
        BY <2>2, <4>1, ListIs, AfterIn
      <4>2. p \notin Names
        BY <1>2, NoName
      <4>3. QED
        BY <2>4, <4>1, <4>2 DEF IsBehind
    <3>2. Range(s) = {s[i] : i \in 1 .. N - k}
      BY <2>10, RangeIs
    <3>3. ASSUME After(t, p, o) PROVE o \in Range(s)
      <4>1. PICK i \in 1 .. N : \E j \in 1 .. N : i < j /\ t[i] = p /\ t[j] = o
        BY <2>5, <3>3 DEF After
      <4>2. PICK j \in 1 .. N : i < j /\ t[i] = p /\ t[j] = o
        BY <4>1
      <4>3. i = k
        BY <2>7, <4>2
      <4>4. j - k \in 1 .. N - k /\ k + (j - k) = j
        BY <4>2, <4>3
      <4>5. QED
        BY <2>10, <3>2, <4>2, <4>4
    <3>4. ASSUME o \in Range(s) PROVE After(t, p, o)
      <4>1. PICK i \in 1 .. N - k : s[i] = o
        BY <3>2, <3>4
      <4>2. k + i \in 1 .. N /\ k < k + i
        BY <2>6
      <4>3. t[k + i] = o
        BY <2>10, <4>1
      <4>4. QED
        BY <2>5, <2>6, <4>2, <4>3 DEF After
    <3>5. QED
      BY <3>1, <3>3, <3>4
  <2>12. ASSUME NEW i \in 1 .. Len(s), NEW j \in 1 .. Len(s), i < j PROVE IsBehind(ls, s[i], s[j])
    <3>1. k + i \in 1 .. N /\ k + j \in 1 .. N /\ k + i < k + j
      BY <2>6, <2>10, <2>12
    <3>2. t[k + i] = s[i] /\ t[k + j] = s[j]
      BY <2>10
    <3>3. QED
      BY <2>4, <2>5, <3>1, <3>2 DEF IsBehind, After
  <2>13. Distinct(s)
    <3> SUFFICES ASSUME NEW i \in 1 .. Len(s), NEW j \in 1 .. Len(s), s[i] = s[j] PROVE i = j
      BY DEF Distinct
    <3>1. k + i \in 1 .. N /\ k + j \in 1 .. N /\ t[k + i] = t[k + j]
      BY <2>6, <2>10
    <3>2. k + i = k + j
      BY <2>4, <2>5, <3>1, ListIs DEF Distinct
    <3>3. QED
      BY <2>6, <3>2
  <2>14. p \notin Range(s)
    <3> SUFFICES ASSUME p \in Range(s) PROVE FALSE
      OBVIOUS
    <3>1. PICK i \in 1 .. N - k : s[i] = p
      BY <2>10, RangeIs
    <3>2. k + i \in 1 .. N /\ t[k + i] = p
      BY <2>6, <2>10, <3>1
    <3>3. QED
      BY <2>7, <3>2
  <2>15. QED
    BY <2>10, <2>11, <2>12, <2>13, <2>14
<1>3. QED
  BY <1>1, <1>2

\* What is behind p is an object of its list.
LEMMA BehindListed ==
  ASSUME NEW ls, NEW A, Lists(ls, A), NEW p, NEW o, IsBehind(ls, p, o)
  PROVE  /\ o \in A /\ o \in Objects
         /\ \A n \in Names : p = n \/ p \in Range(ls[n]) => o \in Range(ls[n])
<1>1. PICK m \in Names : (p = m /\ o \in Range(ls[m])) \/ After(ls[m], p, o)
  BY DEF IsBehind
<1>2. After(ls[m], p, o) => p \in Range(ls[m]) /\ o \in Range(ls[m])
  BY ListIs, AfterIn
<1>3. o \in Range(ls[m]) /\ o \in Objects /\ o \in A
  <2>1. o \in Range(ls[m])
    BY <1>1, <1>2
  <2>2. o \in Objects
    BY <2>1, ListIs
  <2>3. QED
    BY <2>1, <2>2 DEF Lists
<1>4. ASSUME NEW n \in Names, p = n \/ p \in Range(ls[n]) PROVE n = m
  <2>1. CASE p = m
    BY <1>4, <2>1, ListIs, NoName
  <2>2. CASE p # m
    <3>1. p \in Range(ls[m])
      BY <1>1, <1>2, <2>2
    <3>2. p \in Objects
      BY <3>1, ListIs
    <3>3. p \in Range(ls[n])
      BY <1>4, <3>2, NoName
    <3>4. QED
      BY <3>1, <3>2, <3>3 DEF Lists
  <2>3. QED
    BY <2>1, <2>2
<1>5. QED
  BY <1>3, <1>4

\* Objects are taken out of the lists.
LEMMA WithoutIs ==
  ASSUME NEW ls, NEW A, Lists(ls, A), NEW gone \in SUBSET A
  PROVE  /\ Lists(Without(ls, gone), A \ gone)
         /\ \A n \in Names : Range(Without(ls, gone)[n]) = Range(ls[n]) \ gone
         /\ \A p, o : p \notin gone /\ o \notin gone /\ IsBehind(ls, p, o) => IsBehind(Without(ls, gone), p, o)
<1>0. DOMAIN ls = Names
  BY DEF Lists
<1>1. PICK w : w = Without(ls, gone)
  OBVIOUS
<1>2. w = [n \in Names |-> Only(ls[n], Objects \ gone)]
  BY <1>0, <1>1 DEF Without
<1>3. ASSUME NEW n \in Names
      PROVE  /\ w[n] \in Seq(Objects) /\ Distinct(w[n]) /\ Range(w[n]) = Range(ls[n]) \ gone
             /\ \A x, y \in Objects \ gone : After(ls[n], x, y) => After(w[n], x, y)
  <2>1. w[n] = Only(ls[n], Objects \ gone)
    BY <1>2
  <2>2. ls[n] \in Seq(Objects) /\ Distinct(ls[n]) /\ Range(ls[n]) \subseteq Objects
    BY ListIs
  <2>3. /\ Only(ls[n], Objects \ gone) \in Seq(Objects)
        /\ Range(Only(ls[n], Objects \ gone)) = Range(ls[n]) \cap (Objects \ gone)
        /\ Distinct(Only(ls[n], Objects \ gone))
        /\ \A x, y \in Objects \ gone : After(ls[n], x, y) => After(Only(ls[n], Objects \ gone), x, y)
    BY <2>2, OnlyIs
  <2>4. QED
    BY <2>1, <2>2, <2>3
<1>4. Lists(w, A \ gone)
  <2>1. w \in [Names -> Seq(Objects)]
    BY <1>2, <1>3
  <2>2. QED
    BY <1>3, <2>1 DEF Lists
<1>5. ASSUME NEW p, NEW o, p \notin gone, o \notin gone, IsBehind(ls, p, o) PROVE IsBehind(w, p, o)
  <2>1. PICK n \in Names : (p = n /\ o \in Range(ls[n])) \/ After(ls[n], p, o)
    BY <1>5 DEF IsBehind
  <2>2. CASE p = n /\ o \in Range(ls[n])
    BY <1>3, <1>5, <2>2 DEF IsBehind
  <2>3. CASE After(ls[n], p, o)
    <3>1. p \in Objects /\ o \in Objects
      BY <2>3, ListIs, AfterIn
    <3>2. QED
      BY <1>3, <1>5, <2>3, <3>1 DEF IsBehind
  <2>4. QED
    BY <2>1, <2>2, <2>3
<1>6. QED
  BY <1>1, <1>3, <1>4, <1>5

\* An object is linked in front of a list.
Prepended(ls, n, o) == [ls EXCEPT ![n] = <<o>> \o ls[n]]

LEMMA PrependIs ==
  ASSUME NEW ls, NEW A, Lists(ls, A), NEW o \in Objects, o \notin A, NEW n \in Names
  PROVE  /\ Lists(Prepended(ls, n, o), A \cup {o})
         /\ Range(Prepended(ls, n, o)[n]) = {o} \cup Range(ls[n])
         /\ \A m \in Names \ {n} : Range(Prepended(ls, n, o)[m]) = Range(ls[m])
         /\ \A p, x : IsBehind(ls, p, x) => IsBehind(Prepended(ls, n, o), p, x)
<1> DEFINE new == Prepended(ls, n, o)
<1>1. /\ new[n] = <<o>> \o ls[n] /\ \A m \in Names \ {n} : new[m] = ls[m]
      /\ new \in [Names -> Seq(Objects)]
  <2>0. new = [ls EXCEPT ![n] = <<o>> \o ls[n]]
    BY DEF Prepended
  <2>1. ls[n] \in Seq(Objects) /\ ls \in [Names -> Seq(Objects)]
    BY DEF Lists
  <2>2. <<o>> \o ls[n] \in Seq(Objects)
    BY <2>1
  <2>3. QED
    BY <2>0, <2>1, <2>2
<1> HIDE DEF new
<1>2. PICK t \in Seq(Objects) : t = ls[n]
  BY ListIs
<1>3. PICK N \in Nat : N = Len(t)
  OBVIOUS
<1>4. PICK u \in Seq(Objects) : u = <<o>> \o t
  <2>1. <<o>> \o t \in Seq(Objects)
    OBVIOUS
  <2>2. QED
    BY <2>1
<1>5. /\ Len(u) = N + 1 /\ u[1] = o
      /\ \A i \in 1 .. N : u[i + 1] = t[i]
      /\ \A i \in 1 .. N + 1 : i # 1 => i - 1 \in 1 .. N /\ u[i] = t[i - 1]
  BY <1>3, <1>4
<1>6. Range(u) = {o} \cup Range(t)
  <2>1. Range(u) = {u[i] : i \in 1 .. N + 1} /\ Range(t) = {t[i] : i \in 1 .. N}
    BY <1>3, <1>5, RangeIs
  <2>2. Range(u) \subseteq {o} \cup Range(t)
    BY <1>5, <2>1
  <2>3. o \in Range(u)
    BY <1>5, <2>1
  <2>4. ASSUME NEW i \in 1 .. N PROVE t[i] \in Range(u)
    <3>1. i + 1 \in 1 .. N + 1
      OBVIOUS
    <3>2. QED
      BY <1>5, <2>1, <3>1
  <2>5. QED
    BY <2>1, <2>2, <2>3, <2>4
<1>7. o \notin Range(t) /\ \A m \in Names : o \notin Range(ls[m])
  BY <1>2 DEF Lists
<1>8. Distinct(u)
  <2> SUFFICES ASSUME NEW i \in 1 .. N + 1, NEW j \in 1 .. N + 1, u[i] = u[j] PROVE i = j
    BY <1>5 DEF Distinct
  <2>1. \A k \in 1 .. N : t[k] \in Range(t)
    BY <1>3, RangeIs
  <2>2. (i = 1) <=> (j = 1)
    BY <1>5, <1>7, <2>1
  <2>3. CASE i # 1
    <3>1. i - 1 \in 1 .. N /\ j - 1 \in 1 .. N /\ t[i - 1] = t[j - 1]
      BY <1>5, <2>2, <2>3
    <3>2. i - 1 = j - 1
      BY <1>2, <1>3, <3>1, ListIs DEF Distinct
    <3>3. QED
      BY <3>2
  <2>4. QED
    BY <2>2, <2>3
<1>9. /\ Range(new[n]) = {o} \cup Range(ls[n])
      /\ \A m \in Names \ {n} : Range(new[m]) = Range(ls[m])
  BY <1>1, <1>2, <1>4, <1>6
<1>10. Lists(new, A \cup {o})
  <2>1. \A m \in Names : Distinct(new[m])
    BY <1>1, <1>2, <1>4, <1>8, ListIs
  <2>2. \A k, m \in Names : \A x \in Objects : x \in Range(new[k]) /\ x \in Range(new[m]) => k = m
    <3> TAKE k \in Names, m \in Names
    <3> TAKE x \in Objects
    <3>1. CASE x = o
      <4>1. \A l \in Names \ {n} : x \notin Range(new[l])
        BY <1>7, <1>9, <3>1
      <4>2. QED
        BY <4>1
    <3>2. CASE x # o
      <4>1. \A l \in Names : x \in Range(new[l]) => x \in Range(ls[l])
        BY <1>9, <3>2
      <4>2. QED
        BY <4>1 DEF Lists
    <3>3. QED
      BY <3>1, <3>2
  <2>3. \A x \in Objects : x \in A \cup {o} <=> \E m \in Names : x \in Range(new[m])
    BY <1>9 DEF Lists
  <2>4. QED
    BY <1>1, <2>1, <2>2, <2>3 DEF Lists
<1>11. ASSUME NEW p, NEW x, IsBehind(ls, p, x) PROVE IsBehind(new, p, x)
  <2>1. PICK m \in Names : (p = m /\ x \in Range(ls[m])) \/ After(ls[m], p, x)
    BY <1>11 DEF IsBehind
  <2>2. CASE p = m /\ x \in Range(ls[m])
    <3>1. x \in Range(new[m])
      BY <1>9, <2>2
    <3>2. QED
      BY <2>2, <3>1 DEF IsBehind
  <2>3. CASE After(ls[m], p, x) /\ m # n
    BY <1>1, <2>3 DEF IsBehind
  <2>4. CASE After(ls[m], p, x) /\ m = n
    <3>1. PICK i \in 1 .. N : \E j \in 1 .. N : i < j /\ t[i] = p /\ t[j] = x
      BY <1>2, <1>3, <2>4 DEF After
    <3>2. PICK j \in 1 .. N : i < j /\ t[i] = p /\ t[j] = x
      BY <3>1
    <3>3. i + 1 \in 1 .. N + 1 /\ j + 1 \in 1 .. N + 1 /\ i + 1 < j + 1
      BY <3>2
    <3>4. u[i + 1] = p /\ u[j + 1] = x
      BY <1>5, <3>2
    <3>5. After(u, p, x)
      BY <1>5, <3>3, <3>4 DEF After
    <3>6. QED
      BY <1>1, <1>2, <1>4, <3>5 DEF IsBehind
  <2>5. QED
    BY <2>1, <2>2, <2>3, <2>4
<1>12. QED
  BY <1>9, <1>10, <1>11 DEF new

\* The first object of a list is taken out.
LEMMA BeheadIs ==
  ASSUME NEW ls, NEW A, Lists(ls, A), NEW n \in Names, ls[n] # <<>>
  PROVE  /\ Head(ls[n]) \in Range(ls[n]) /\ Head(ls[n]) \in Objects
         /\ Lists([ls EXCEPT ![n] = Tail(ls[n])], A \ {Head(ls[n])})
         /\ \A m \in Names : Range([ls EXCEPT ![n] = Tail(ls[n])][m]) = Range(ls[m]) \ {Head(ls[n])}
<1>1. PICK new : new = [ls EXCEPT ![n] = Tail(ls[n])]
  OBVIOUS
<1>2. PICK t \in Seq(Objects) : t = ls[n]
  BY ListIs
<1>3. PICK N \in Nat : N + 1 = Len(t)
  <2>1. Len(t) \in Nat /\ Len(t) # 0
    BY <1>2
  <2>2. Len(t) - 1 \in Nat /\ (Len(t) - 1) + 1 = Len(t)
    BY <2>1
  <2>3. QED
    BY <2>2
<1>4. PICK u : u = Tail(t)
  OBVIOUS
<1>5. u \in Seq(Objects) /\ Len(u) = N /\ \A i \in 1 .. N : u[i] = t[i + 1]
  BY <1>2, <1>3, <1>4
<1>6. PICK h : h = Head(t)
  OBVIOUS
<1>7. h = t[1]
  BY <1>6
<1>8. h \in Objects /\ h \in Range(t)
  BY <1>2, <1>3, <1>7, RangeIs
<1>9. \A i \in 1 .. N + 1 : i # 1 => t[i] # h
  BY <1>2, <1>3, <1>7, ListIs DEF Distinct
<1>10. Range(u) = Range(t) \ {h}
  <2>1. Range(u) = {u[i] : i \in 1 .. N} /\ Range(t) = {t[i] : i \in 1 .. N + 1}
    <3>1. Range(u) = {u[i] : i \in 1 .. Len(u)}
      BY <1>5, RangeIs
    <3>2. Range(t) = {t[i] : i \in 1 .. Len(t)}
      BY RangeIs
    <3>3. QED
      BY <1>3, <1>5, <3>1, <3>2
  <2>2. ASSUME NEW i \in 1 .. N PROVE u[i] \in Range(t) \ {h}
    <3>1. i + 1 \in 1 .. N + 1 /\ i + 1 # 1
      OBVIOUS
    <3>2. QED
      BY <1>5, <1>9, <2>1, <3>1
  <2>3. ASSUME NEW i \in 1 .. N + 1, t[i] # h PROVE t[i] \in Range(u)
    <3>1. i # 1
      BY <1>7, <2>3
    <3>2. i - 1 \in 1 .. N /\ (i - 1) + 1 = i
      BY <3>1
    <3>3. QED
      BY <1>5, <2>1, <3>2
  <2>4. QED
    BY <2>1, <2>2, <2>3
<1>11. Distinct(u)
  <2> SUFFICES ASSUME NEW i \in 1 .. N, NEW j \in 1 .. N, u[i] = u[j] PROVE i = j
    BY <1>5 DEF Distinct
  <2>1. i + 1 \in 1 .. N + 1 /\ j + 1 \in 1 .. N + 1 /\ t[i + 1] = t[j + 1]
    BY <1>5
  <2>2. i + 1 = j + 1
    BY <1>2, <1>3, <2>1, ListIs DEF Distinct
  <2>3. QED
    BY <2>2
<1>12. /\ new[n] = u /\ \A m \in Names \ {n} : new[m] = ls[m]
       /\ new \in [Names -> Seq(Objects)]
  BY <1>1, <1>2, <1>4, <1>5 DEF Lists
<1>13. \A m \in Names \ {n} : h \notin Range(ls[m])
  BY <1>2, <1>8 DEF Lists
<1>14. \A m \in Names : Range(new[m]) = Range(ls[m]) \ {h}
  <2>1. Range(new[n]) = Range(ls[n]) \ {h}
    BY <1>2, <1>10, <1>12
  <2>2. ASSUME NEW m \in Names, m # n PROVE Range(new[m]) = Range(ls[m]) \ {h}
    BY <1>12, <1>13, <2>2
  <2>3. QED
    BY <2>1, <2>2
<1>15. Lists(new, A \ {h})
  <2>1. \A m \in Names : Distinct(new[m])
    BY <1>11, <1>12, ListIs
  <2>2. \A k, m \in Names : \A x \in Objects : x \in Range(new[k]) /\ x \in Range(new[m]) => k = m
    BY <1>14 DEF Lists
  <2>3. \A x \in Objects : x \in A \ {h} <=> \E m \in Names : x \in Range(new[m])
    BY <1>14 DEF Lists
  <2>4. QED
    BY <1>12, <2>1, <2>2, <2>3 DEF Lists
<1>16. h = Head(ls[n])
  BY <1>2, <1>6
<1>17. QED
  BY <1>1, <1>2, <1>8, <1>14, <1>15, <1>16

\* Some objects move from finobj to the end of tobefnz.
Separated(ls, S) ==
  [ls EXCEPT !["finobj"] = Only(ls["finobj"], Objects \ S),
             !["tobefnz"] = ls["tobefnz"] \o Only(ls["finobj"], S)]

LEMMA SeparateIs ==
  ASSUME NEW ls, NEW A, Lists(ls, A), NEW S \in SUBSET Objects
  PROVE  /\ Lists(Separated(ls, S), A)
         /\ Range(Separated(ls, S)["allgc"]) = Range(ls["allgc"])
         /\ Range(Separated(ls, S)["finobj"]) = Range(ls["finobj"]) \ S
         /\ Range(Separated(ls, S)["tobefnz"]) = Range(ls["tobefnz"]) \cup (Range(ls["finobj"]) \cap S)
<1>0. PICK new : new = Separated(ls, S)
  OBVIOUS
<1>1. PICK f \in Seq(Objects), t \in Seq(Objects) : f = ls["finobj"] /\ t = ls["tobefnz"]
  BY DEF Lists, Names
<1>2. PICK g : g = Only(f, Objects \ S)
  OBVIOUS
<1>3. PICK u : u = Only(f, S)
  OBVIOUS
<1>4. Distinct(f) /\ Distinct(t) /\ Range(f) \subseteq Objects /\ Range(t) \subseteq Objects
  <2>1. "finobj" \in Names /\ "tobefnz" \in Names
    BY DEF Names
  <2>2. QED
    BY <1>1, <2>1, ListIs
<1>5. g \in Seq(Objects) /\ Range(g) = Range(f) \ S /\ Distinct(g)
  <2>1. /\ Only(f, Objects \ S) \in Seq(Objects)
        /\ Range(Only(f, Objects \ S)) = Range(f) \cap (Objects \ S)
        /\ Distinct(f) => Distinct(Only(f, Objects \ S))
    BY OnlyIs
  <2>2. QED
    BY <1>2, <1>4, <2>1
<1>6. u \in Seq(Objects) /\ Range(u) = Range(f) \cap S /\ Distinct(u)
  <2>1. /\ Only(f, S) \in Seq(Objects) /\ Range(Only(f, S)) = Range(f) \cap S
        /\ Distinct(f) => Distinct(Only(f, S))
    BY OnlyIs
  <2>2. QED
    BY <1>3, <1>4, <2>1
<1>7. PICK M \in Nat, N \in Nat : M = Len(t) /\ N = Len(u)
  BY <1>6
<1>8. PICK d : d = t \o u
  OBVIOUS
<1>9. /\ d \in Seq(Objects) /\ Len(d) = M + N
      /\ \A i \in 1 .. M : d[i] = t[i]
      /\ \A i \in 1 .. N : d[M + i] = u[i]
  BY <1>6, <1>7, <1>8
<1>10. \A i \in 1 .. M + N : i \in 1 .. M \/ (i - M \in 1 .. N /\ M + (i - M) = i)
  OBVIOUS
<1>11. Range(d) = Range(t) \cup Range(u)
  <2>1. /\ Range(d) = {d[i] : i \in 1 .. M + N} /\ Range(t) = {t[i] : i \in 1 .. M}
        /\ Range(u) = {u[i] : i \in 1 .. N}
    BY <1>6, <1>7, <1>9, RangeIs
  <2>2. ASSUME NEW i \in 1 .. M + N PROVE d[i] \in Range(t) \cup Range(u)
    BY <1>9, <1>10, <2>1
  <2>3. ASSUME NEW i \in 1 .. M PROVE t[i] \in Range(d)
    <3>1. i \in 1 .. M + N
      OBVIOUS
    <3>2. QED
      BY <1>9, <2>1, <3>1
  <2>4. ASSUME NEW i \in 1 .. N PROVE u[i] \in Range(d)
    <3>1. M + i \in 1 .. M + N
      OBVIOUS
    <3>2. QED
      BY <1>9, <2>1, <3>1
  <2>5. QED
    BY <2>1, <2>2, <2>3, <2>4
<1>12. Range(t) \cap Range(f) = {}
  BY <1>1, <1>4 DEF Lists, Names
<1>13. Distinct(d)
  <2> SUFFICES ASSUME NEW i \in 1 .. M + N, NEW j \in 1 .. M + N, d[i] = d[j] PROVE i = j
    BY <1>9 DEF Distinct
  <2>1. \A k \in 1 .. M : t[k] \in Range(t)
    BY <1>7, RangeIs
  <2>2. \A k \in 1 .. N : u[k] \in Range(u)
    BY <1>6, <1>7, RangeIs
  <2>3. \A k \in 1 .. M, l \in 1 .. N : t[k] # u[l]
    BY <1>6, <1>12, <2>1, <2>2
  <2>4. CASE i \in 1 .. M /\ j \in 1 .. M
    BY <1>4, <1>7, <1>9, <2>4 DEF Distinct
  <2>5. CASE i \in 1 .. M /\ j \notin 1 .. M
    <3>1. j - M \in 1 .. N /\ d[j] = u[j - M]
      BY <1>9, <1>10, <2>5
    <3>2. QED
      BY <1>9, <2>3, <2>5, <3>1
  <2>6. CASE i \notin 1 .. M /\ j \in 1 .. M
    <3>1. i - M \in 1 .. N /\ d[i] = u[i - M]
      BY <1>9, <1>10, <2>6
    <3>2. QED
      BY <1>9, <2>3, <2>6, <3>1
  <2>7. CASE i \notin 1 .. M /\ j \notin 1 .. M
    <3>1. /\ i - M \in 1 .. N /\ M + (i - M) = i
          /\ j - M \in 1 .. N /\ M + (j - M) = j
      BY <1>10, <2>7
    <3>2. u[i - M] = u[j - M]
      BY <1>9, <3>1
    <3>3. i - M = j - M
      BY <1>6, <1>7, <3>1, <3>2 DEF Distinct
    <3>4. QED
      BY <3>1, <3>3
  <2>8. QED
    BY <2>4, <2>5, <2>6, <2>7
<1>14. /\ new["allgc"] = ls["allgc"] /\ new["finobj"] = g /\ new["tobefnz"] = d
       /\ new \in [Names -> Seq(Objects)]
  BY <1>0, <1>1, <1>2, <1>3, <1>5, <1>8, <1>9 DEF Lists, Names, Separated
<1>15. /\ Range(new["allgc"]) = Range(ls["allgc"])
       /\ Range(new["finobj"]) = Range(ls["finobj"]) \ S
       /\ Range(new["tobefnz"]) = Range(ls["tobefnz"]) \cup (Range(ls["finobj"]) \cap S)
  BY <1>1, <1>5, <1>6, <1>11, <1>14
<1>16. Lists(new, A)
  <2>1. \A m \in Names : Distinct(new[m])
    BY <1>5, <1>13, <1>14 DEF Lists, Names
  <2>2. \A k, m \in Names : \A x \in Objects : x \in Range(new[k]) /\ x \in Range(new[m]) => k = m
    BY <1>15 DEF Lists, Names
  <2>3. \A x \in Objects : x \in A <=> \E m \in Names : x \in Range(new[m])
    BY <1>15 DEF Lists, Names
  <2>4. QED
    BY <1>14, <2>1, <2>2, <2>3 DEF Lists
<1>17. QED
  BY <1>0, <1>15, <1>16

-----------------------------------------------------------------------------
(* What a sweep does behind an address.                                    *)

\* Of the objects behind p, gone were dead and kept were not; the others are
\* behind the next address.
SweepsBehind(ls, p, col, r) ==
  /\ \A o \in r.gone : IsBehind(ls, p, o) /\ col[o] = "dead"
  /\ \A o \in r.kept : IsBehind(ls, p, o) /\ col[o] # "dead"
  /\ r.next = None \/ r.next = p \/ r.next \in r.kept
  /\ \A o : IsBehind(ls, p, o) /\ o \notin r.gone \cup r.kept => r.next # None /\ IsBehind(ls, r.next, o)

LEMMA Least ==
  ASSUME NEW T \in SUBSET Nat, T # {}
  PROVE  \E i \in T : \A j \in T : i <= j
<1> DEFINE R == OpToRel(<, Nat)
<1>1. IsWellFoundedOn(R, Nat)
  BY NatLessThanWellFounded
<1>2. \A x, y \in Nat : y < x => <<y, x>> \in R
  BY DEF OpToRel
<1> HIDE DEF R
<1>3. PICK x \in T : \A y \in T : ~ (<<y, x>> \in R)
  BY <1>1, WFMin, T \subseteq Nat, Zenon
<1>4. \A y \in T : ~ (y < x)
  BY <1>2, <1>3
<1>5. \A y \in T : x <= y
  BY <1>4
<1>6. QED
  BY <1>5

LEMMA SweepToLiveIs ==
  ASSUME NEW A, Lists(list, A), NEW p \in Names \cup A, A \subseteq Objects, NEW col
  PROVE  /\ SweepsBehind(list, p, col, SweepToLive(p, col))
         /\ SweepToLive(p, col).next \in {None} \cup SweepToLive(p, col).kept
<1>1. PICK s : s = Behind(list, p)
  OBVIOUS
<1>2. /\ s \in Seq(Objects)
      /\ \A o : o \in Range(s) <=> IsBehind(list, p, o)
      /\ \A i, j \in 1 .. Len(s) : i < j => IsBehind(list, s[i], s[j])
  BY <1>1, BehindIs
<1>3. Len(s) \in Nat /\ Range(s) = {s[i] : i \in 1 .. Len(s)}
  BY <1>2, RangeIs
<1>4. PICK live : live = {i \in 1 .. Len(s) : col[s[i]] # "dead"}
  OBVIOUS
<1>5. PICK first : first = CHOOSE i \in live : \A j \in live : i <= j
  OBVIOUS
<1>6. PICK gone : gone = {s[i] : i \in {j \in 1 .. Len(s) : \A l \in live : j < l}}
  OBVIOUS
<1>7. PICK r : r = SweepToLive(p, col)
  OBVIOUS
<1>8. /\ r.gone = gone
      /\ r.kept = IF live = {} THEN {} ELSE {s[first]}
      /\ r.next = IF live = {} \/ first = Len(s) THEN None ELSE s[first]
  BY <1>1, <1>4, <1>5, <1>6, <1>7 DEF SweepToLive
<1>9. \A i \in 1 .. Len(s) : IsBehind(list, p, s[i])
  BY <1>2, <1>3
<1>10. \A o \in gone : IsBehind(list, p, o) /\ col[o] = "dead"
  <2> SUFFICES ASSUME NEW i \in 1 .. Len(s), \A l \in live : i < l
               PROVE  IsBehind(list, p, s[i]) /\ col[s[i]] = "dead"
    BY <1>6
  <2>1. i \notin live
    OBVIOUS
  <2>2. QED
    BY <1>4, <1>9, <2>1
<1>11. CASE live = {}
  <2>1. r.kept = {} /\ r.next = None
    BY <1>8, <1>11
  <2>2. \A i \in 1 .. Len(s) : s[i] \in gone
    BY <1>6, <1>11
  <2>3. \A o : IsBehind(list, p, o) => o \in gone
    BY <1>2, <1>3, <2>2
  <2>4. QED
    BY <1>7, <1>8, <1>10, <2>1, <2>3 DEF SweepsBehind
<1>12. CASE live # {}
  <2>1. live \in SUBSET Nat
    BY <1>3, <1>4
  <2>2. first \in live /\ \A j \in live : first <= j
    BY <1>5, <1>12, <2>1, Least
  <2>3. first \in 1 .. Len(s) /\ col[s[first]] # "dead"
    BY <1>4, <2>2
  <2>4. r.kept = {s[first]} /\ r.next = IF first = Len(s) THEN None ELSE s[first]
    BY <1>8, <1>12
  <2>5. \A i \in 1 .. Len(s) : i < first => s[i] \in gone
    <3> TAKE i \in 1 .. Len(s)
    <3> HAVE i < first
    <3>1. \A l \in live : i < l
      BY <1>3, <2>1, <2>2, <2>3
    <3>2. QED
      BY <1>6, <3>1
  <2>6. ASSUME NEW o, IsBehind(list, p, o), o \notin gone, o # s[first]
        PROVE  r.next # None /\ IsBehind(list, r.next, o)
    <3>1. PICK k \in 1 .. Len(s) : s[k] = o
      BY <1>2, <1>3, <2>6
    <3>2. first < k
      BY <1>3, <2>3, <2>5, <2>6, <3>1
    <3>3. first # Len(s) /\ r.next = s[first]
      BY <1>3, <2>3, <2>4, <3>1, <3>2
    <3>4. s[first] # None
      <4>1. s[first] \in Objects
        BY <1>2, <2>3
      <4>2. QED
        BY <4>1, NoName DEF None
    <3>5. QED
      BY <1>2, <2>3, <3>1, <3>2, <3>3, <3>4
  <2>7. r.next = None \/ r.next \in r.kept
    BY <2>4
  <2>8. \A o \in r.kept : IsBehind(list, p, o) /\ col[o] # "dead"
    BY <1>9, <2>3, <2>4
  <2>9. \A o : IsBehind(list, p, o) /\ o \notin r.gone \cup r.kept => r.next # None /\ IsBehind(list, r.next, o)
    BY <1>8, <2>4, <2>6
  <2>10. QED
    BY <1>7, <1>8, <1>10, <2>7, <2>8, <2>9 DEF SweepsBehind
<1>13. QED
  BY <1>11, <1>12

LEMMA SweepOneIs ==
  ASSUME NEW A, Lists(list, A), NEW p \in Names \cup A, A \subseteq Objects
  PROVE  SweepsBehind(list, p, color, SweepOne(p))
<1>1. PICK s : s = Behind(list, p)
  OBVIOUS
<1>2. /\ s \in Seq(Objects)
      /\ \A o : o \in Range(s) <=> IsBehind(list, p, o)
      /\ \A i, j \in 1 .. Len(s) : i < j => IsBehind(list, s[i], s[j])
  BY <1>1, BehindIs
<1>3. Len(s) \in Nat /\ Range(s) = {s[i] : i \in 1 .. Len(s)}
  BY <1>2, RangeIs
<1>4. PICK r : r = SweepOne(p)
  OBVIOUS
<1>5. r = IF s = <<>> THEN NoSweep
          ELSE IF color[s[1]] = "dead"
          THEN [gone |-> {s[1]}, kept |-> {}, next |-> IF Len(s) = 1 THEN None ELSE p]
          ELSE [gone |-> {}, kept |-> {s[1]}, next |-> IF Len(s) = 1 THEN None ELSE s[1]]
  BY <1>1, <1>4 DEF SweepOne
<1>6. CASE s = <<>>
  <2>1. r.gone = {} /\ r.kept = {} /\ r.next = None
    BY <1>5, <1>6 DEF NoSweep
  <2>2. \A o : ~IsBehind(list, p, o)
    <3>1. Len(s) = 0
      BY <1>6
    <3>2. Range(s) = {}
      BY <1>3, <3>1
    <3>3. QED
      BY <1>2, <3>2
  <2>3. QED
    BY <1>4, <2>1, <2>2 DEF SweepsBehind
<1>7. CASE s # <<>>
  <2>1. 1 \in 1 .. Len(s)
    BY <1>2, <1>3, <1>7
  <2>2. IsBehind(list, p, s[1]) /\ s[1] \in Objects /\ s[1] # None /\ p # None
    <3>1. s[1] \in Range(s) /\ s[1] \in Objects
      BY <1>2, <1>3, <2>1
    <3>2. QED
      BY <1>2, <3>1, NoName DEF None
  <2>3. ASSUME NEW o, IsBehind(list, p, o), o # s[1]
        PROVE  Len(s) # 1 /\ IsBehind(list, s[1], o)
    <3>1. PICK k \in 1 .. Len(s) : s[k] = o
      BY <1>2, <1>3, <2>3
    <3>2. 1 < k
      BY <1>3, <2>3, <3>1
    <3>3. QED
      BY <1>2, <1>3, <2>1, <3>1, <3>2
  <2>4. CASE color[s[1]] = "dead"
    <3>1. r.gone = {s[1]} /\ r.kept = {} /\ r.next = IF Len(s) = 1 THEN None ELSE p
      BY <1>5, <1>7, <2>4
    <3>2. QED
      BY <1>4, <2>2, <2>3, <2>4, <3>1 DEF SweepsBehind
  <2>5. CASE color[s[1]] # "dead"
    <3>1. r.gone = {} /\ r.kept = {s[1]} /\ r.next = IF Len(s) = 1 THEN None ELSE s[1]
      BY <1>5, <1>7, <2>5
    <3>2. QED
      BY <1>4, <2>2, <2>3, <2>5, <3>1 DEF SweepsBehind
  <2>6. QED
    BY <2>4, <2>5
<1>8. QED
  BY <1>6, <1>7

-----------------------------------------------------------------------------
(* What objects hold.                                                      *)

\* What the entries E refer to
Members(E) == {e[2] : e \in E} \cup ({e[1] : e \in E} \ {None})
Parts(o) == Members(entries[o])

LEMMA MembersIs ==
  ASSUME NEW E, NEW F
  PROVE  /\ \A x : x \in Members(E) <=> \E e \in E : x = e[2] \/ (x = e[1] /\ x # None)
         /\ E \subseteq F => Members(E) \subseteq Members(F)
         /\ \A k, v : Members(E \cup {<<k, v>>}) = Members(E) \cup {v} \cup ({k} \ {None})
<1>1. \A x : x \in Members(E) <=> \E e \in E : x = e[2] \/ (x = e[1] /\ x # None)
  BY DEF Members
<1>2. E \subseteq F => Members(E) \subseteq Members(F)
  BY DEF Members
<1>3. ASSUME NEW k, NEW v PROVE Members(E \cup {<<k, v>>}) = Members(E) \cup {v} \cup ({k} \ {None})
  <2>1. \A e \in E \cup {<<k, v>>} : e \in E \/ (e[1] = k /\ e[2] = v)
    OBVIOUS
  <2>2. <<k, v>>[1] = k /\ <<k, v>>[2] = v
    OBVIOUS
  <2>3. Members(E \cup {<<k, v>>}) \subseteq Members(E) \cup {v} \cup ({k} \ {None})
    BY <2>1 DEF Members
  <2>4. Members(E) \subseteq Members(E \cup {<<k, v>>})
    BY DEF Members
  <2>5. v \in Members(E \cup {<<k, v>>}) /\ (k # None => k \in Members(E \cup {<<k, v>>}))
    BY <2>2 DEF Members
  <2>6. QED
    BY <2>3, <2>4, <2>5
<1>4. QED
  BY <1>1, <1>2, <1>3

LEMMA PartsAre ==
  ASSUME NEW o
  PROVE  Parts(o) = Keys(o) \cup Values(o)
BY DEF Parts, Members, Keys, Values

-----------------------------------------------------------------------------
(* Types, lists and the address of the sweep.                              *)

ObjectType ==
  /\ kind \in [Objects -> Kinds \cup {"free", "main"}]
  /\ entries \in [Objects -> SUBSET ((Objects \cup {None}) \X Objects)]
  /\ color \in [Objects -> Colors]
  /\ \A o \in Objects : /\ kind[o] = "main" <=> o = main
                        /\ kind[o] = "free" => color[o] = "white" /\ entries[o] = {}
                        /\ kind[o] = "string" => entries[o] = {}

StateType ==
  /\ gcstate \in {"propagate", "enteratomic", "atomic", "swpallgc", "swpfinobj",
                  "swptobefnz", "swpend", "callfin", "pause"}
  /\ stage \in {None, "roots", "again", "converge", "finalize", "reconverge"}
  /\ stage # None <=> gcstate = "atomic"
  /\ stage \notin {"roots", "converge", "reconverge"} => todo = {}
  /\ gray \cup grayagain \cup weak \cup allweak \cup ephemeron \cup todo \subseteq Objects
  /\ changed \in BOOLEAN

\* The sweep is in the list that the state names.
Address ==
  sweepgc # None => \E n \in Names :
    /\ <<gcstate, n>> \in {<<"swpallgc", "allgc">>, <<"swpfinobj", "finobj">>, <<"swptobefnz", "tobefnz">>}
    /\ sweepgc = n \/ sweepgc \in Range(list[n])

TInv == ObjectType /\ StateType /\ Lists(list, Allocated) /\ Address

LEMMA PartsType ==
  ASSUME ObjectType, NEW o \in Objects
  PROVE  /\ Parts(o) \subseteq Objects /\ None \notin Parts(o)
         /\ \A e \in entries[o] : e[2] \in Objects /\ e[1] \in Objects \cup {None}
<1>1. entries[o] \subseteq (Objects \cup {None}) \X Objects
  BY DEF ObjectType
<1>2. \A e \in entries[o] : e[2] \in Objects /\ e[1] \in Objects \cup {None}
  BY <1>1
<1>3. None \notin Objects
  BY NoName DEF None
<1>4. QED
  BY <1>2, <1>3 DEF Parts, Members

LEMMA PushedIs ==
  ASSUME ObjectType, NEW x \in Objects, entries' = Pushed(x)
  PROVE  /\ entries' \in [Objects -> SUBSET ((Objects \cup {None}) \X Objects)]
         /\ Members(entries'[main]) = Members(entries[main]) \cup {x}
         /\ \A o \in Objects \ {main} : entries'[o] = entries[o]
<1>1. entries' = [entries EXCEPT ![main] = entries[main] \cup {<<None, x>>}]
  BY DEF Pushed
<1>2. main \in Objects
  BY CollectorAssumption
<1>3. <<None, x>> \in (Objects \cup {None}) \X Objects
  OBVIOUS
<1>4. entries \in [Objects -> SUBSET ((Objects \cup {None}) \X Objects)]
  BY DEF ObjectType
<1>5. entries'[main] = entries[main] \cup {<<None, x>>} /\ \A o \in Objects \ {main} : entries'[o] = entries[o]
  BY <1>1, <1>2, <1>4
<1>6. entries[main] \cup {<<None, x>>} \in SUBSET ((Objects \cup {None}) \X Objects)
  BY <1>2, <1>3, <1>4
<1>7. entries' \in [Objects -> SUBSET ((Objects \cup {None}) \X Objects)]
  BY <1>1, <1>4, <1>6
<1>8. Members(entries[main] \cup {<<None, x>>}) = Members(entries[main]) \cup {x} \cup ({None} \ {None})
  BY MembersIs
<1>9. QED
  BY <1>5, <1>7, <1>8

\* Steps that leave the lists and what is allocated alone
LEMMA KeepListsT ==
  ASSUME TInv, StateType', UNCHANGED <<kind, list, sweepgc>>, gcstate' = gcstate \/ sweepgc = None,
         entries' \in [Objects -> SUBSET ((Objects \cup {None}) \X Objects)],
         \A o \in Objects : kind[o] \in {"free", "string"} => entries'[o] = entries[o],
         color' \in [Objects -> Colors],
         \A o \in Objects : kind[o] = "free" => color'[o] = color[o]
  PROVE  TInv'
<1>1. ObjectType'
  BY DEF TInv, ObjectType
<1>2. Address'
  BY DEF TInv, Address
<1>3. Allocated' = Allocated /\ list' = list
  BY DEF Allocated
<1>4. QED
  BY <1>1, <1>2, <1>3 DEF TInv

\* What marking does to colours
LEMMA MarkedIs ==
  ASSUME ObjectType, NEW col \in [Objects -> Colors], NEW S
  PROVE  /\ Marked(col, S) \in [Objects -> Colors]
         /\ \A o \in Objects : \/ Marked(col, S)[o] = col[o] /\ (o \notin S \/ ~White(o))
                               \/ /\ o \in S /\ White(o)
                                  /\ Marked(col, S)[o] = IF kind[o] = "string" THEN "black" ELSE "gray"
<1>1. \A o \in Objects : Marked(col, S)[o] = IF o \notin S \/ ~White(o) THEN col[o]
                                             ELSE IF kind[o] = "string" THEN "black" ELSE "gray"
  BY DEF Marked
<1>2. {"black", "gray"} \subseteq Colors
  BY DEF Colors
<1>3. Marked(col, S) \in [Objects -> Colors]
  BY <1>2 DEF Marked
<1>4. QED
  BY <1>1, <1>3

LEMMA MainIs ==
  ASSUME TInv
  PROVE  /\ main \in Objects /\ kind[main] = "main" /\ main \in Allocated
         /\ Stack = Values(main) /\ Stack \subseteq Objects /\ Stack \subseteq Parts(main)
         /\ IsFiniteSet(Objects)
<1>1. main \in Objects /\ kind[main] = "main" /\ IsFiniteSet(Objects)
  BY CollectorAssumption DEF TInv, ObjectType
<1>2. Stack \subseteq Parts(main) /\ Parts(main) \subseteq Objects
  BY <1>1, PartsAre, PartsType DEF Stack, TInv
<1>3. QED
  BY <1>1, <1>2 DEF Stack, Allocated

LEMMA DropT ==
  ASSUME TInv, NEW x \in Objects, Drop(x)
  PROVE  TInv'
<1>1. /\ entries' = [entries EXCEPT ![main] = entries[main] \ {<<None, x>>}]
      /\ UNCHANGED <<kind, color, list, gcstate, grayLists, atomicVars, sweepgc>>
  BY DEF Drop
<1>2. /\ entries' \in [Objects -> SUBSET ((Objects \cup {None}) \X Objects)]
      /\ \A o \in Objects \ {main} : entries'[o] = entries[o]
  BY <1>1 DEF TInv, ObjectType
<1>3. StateType'
  BY <1>1 DEF TInv, StateType, grayLists, atomicVars
<1>4. QED
  BY <1>1, <1>2, <1>3, MainIs, KeepListsT DEF TInv, ObjectType

LEMMA LoadT ==
  ASSUME TInv, NEW c \in Objects, NEW x \in Objects, Load(c, x)
  PROVE  TInv'
<1>1. entries' = Pushed(x) /\ UNCHANGED <<kind, color, list, gcstate, grayLists, atomicVars, sweepgc>>
  BY DEF Load
<1>2. /\ entries' \in [Objects -> SUBSET ((Objects \cup {None}) \X Objects)]
      /\ \A o \in Objects \ {main} : entries'[o] = entries[o]
  BY <1>1, PushedIs DEF TInv
<1>3. StateType'
  BY <1>1 DEF TInv, StateType, grayLists, atomicVars
<1>4. QED
  BY <1>1, <1>2, <1>3, MainIs, KeepListsT DEF TInv, ObjectType

LEMMA EraseT ==
  ASSUME TInv, NEW c \in Objects, NEW e \in entries[c], Erase(c, e)
  PROVE  TInv'
<1>1. /\ entries' = [entries EXCEPT ![c] = entries[c] \ {e}]
      /\ UNCHANGED <<kind, color, list, gcstate, grayLists, atomicVars, sweepgc>>
  BY DEF Erase
<1>2. /\ entries' \in [Objects -> SUBSET ((Objects \cup {None}) \X Objects)]
      /\ \A o \in Objects \ {c} : entries'[o] = entries[o]
  BY <1>1 DEF TInv, ObjectType
<1>3. kind[c] \notin {"free", "string"}
  BY DEF TInv, ObjectType
<1>4. StateType'
  BY <1>1 DEF TInv, StateType, grayLists, atomicVars
<1>5. QED
  BY <1>1, <1>2, <1>3, <1>4, KeepListsT DEF TInv, ObjectType

\* What a barrier does to colours and gray lists
LEMMA ShadeIs ==
  ASSUME TInv, NEW c \in Objects, NEW S \in SUBSET Objects, NEW how, Shade(c, S, how)
  PROVE  \/ /\ UNCHANGED <<color, gray, grayagain>>
            /\ color[c] # "black" \/ how = None \/ \A x \in S : ~White(x)
         \/ /\ color[c] = "black" /\ how = "back"
            /\ color' = [color EXCEPT ![c] = "gray"]
            /\ grayagain' = grayagain \cup {c} /\ UNCHANGED gray
         \/ /\ color[c] = "black" /\ how \notin {None, "back"} /\ KeepInvariant
            /\ color' = Marked(color, S)
            /\ gray' = gray \cup NewGray(S) /\ UNCHANGED grayagain
         \/ /\ color[c] = "black" /\ how \notin {None, "back"} /\ ~KeepInvariant
            /\ color' = [color EXCEPT ![c] = "white"] /\ UNCHANGED <<gray, grayagain>>
<1>1. CASE color[c] # "black" \/ how = None \/ \A x \in S : ~White(x)
  BY <1>1 DEF Shade
<1>2. CASE ~(color[c] # "black" \/ how = None \/ \A x \in S : ~White(x)) /\ how = "back"
  BY <1>2 DEF Shade
<1>3. CASE ~(color[c] # "black" \/ how = None \/ \A x \in S : ~White(x)) /\ how # "back" /\ KeepInvariant
  BY <1>3 DEF Shade
<1>4. CASE ~(color[c] # "black" \/ how = None \/ \A x \in S : ~White(x)) /\ how # "back" /\ ~KeepInvariant
  BY <1>4 DEF Shade, Whiten
<1>5. QED
  BY <1>1, <1>2, <1>3, <1>4

\* What a store does to entries
LEMMA StoreIs ==
  ASSUME TInv, NEW c \in Objects, NEW v \in Objects, NEW k \in Objects \cup {None}, Store(c, k, v)
  PROVE  /\ Running /\ c \in Stack /\ v \in Stack /\ k \in Stack \cup {None}
         /\ kind[c] \notin {"string", "main"}
         /\ Members(entries'[c]) \subseteq Members(entries[c]) \cup ({k, v} \ {None})
         /\ \A o \in Objects \ {c} : entries'[o] = entries[o]
         /\ entries' \in [Objects -> SUBSET ((Objects \cup {None}) \X Objects)]
         /\ \E fresh \in BOOLEAN : Shade(c, {k, v} \ {None}, Barrier(c, fresh))
         /\ UNCHANGED <<kind, list, gcstate, weak, allweak, ephemeron, atomicVars, sweepgc, full, doomed>>
<1>1. PICK old : old = {e \in entries[c] : e[1] = k}
  OBVIOUS
<1>2. /\ entries' = [entries EXCEPT ![c] = (entries[c] \ old) \cup {<<k, v>>}]
      /\ Shade(c, {k, v} \ {None}, Barrier(c, old = {}))
      /\ Running /\ c \in Stack /\ v \in Stack /\ k \in Stack \cup {None}
      /\ kind[c] \notin {"string", "main"}
      /\ UNCHANGED <<kind, list, gcstate, weak, allweak, ephemeron, atomicVars, sweepgc, full, doomed>>
  BY <1>1 DEF Store
<1>3. entries \in [Objects -> SUBSET ((Objects \cup {None}) \X Objects)]
  BY DEF TInv, ObjectType
<1>4. (entries[c] \ old) \cup {<<k, v>>} \in SUBSET ((Objects \cup {None}) \X Objects)
  BY <1>3
<1>5. /\ entries'[c] = (entries[c] \ old) \cup {<<k, v>>}
      /\ \A o \in Objects \ {c} : entries'[o] = entries[o]
      /\ entries' \in [Objects -> SUBSET ((Objects \cup {None}) \X Objects)]
  BY <1>2, <1>3, <1>4
<1>6. Members((entries[c] \ old) \cup {<<k, v>>}) = Members(entries[c] \ old) \cup {v} \cup ({k} \ {None})
  BY MembersIs
<1>7. Members(entries[c] \ old) \subseteq Members(entries[c])
  BY MembersIs
<1>8. v # None
  BY NoName DEF None
<1>9. Members(entries'[c]) \subseteq Members(entries[c]) \cup ({k, v} \ {None})
  BY <1>5, <1>6, <1>7, <1>8
<1>10. QED
  BY <1>2, <1>5, <1>9

LEMMA StoreT ==
  ASSUME TInv, NEW c \in Objects, NEW v \in Objects, NEW k \in Objects \cup {None}, Store(c, k, v),
         \A x \in Stack : kind[x] # "free"
  PROVE  TInv'
<1>1. PICK fresh \in BOOLEAN : Shade(c, {k, v} \ {None}, Barrier(c, fresh))
  BY StoreIs, Zenon
<1>2. {k, v} \ {None} \in SUBSET Objects
  OBVIOUS
<1>3. kind[c] \notin {"free", "string"} /\ k \in Stack \cup {None} /\ v \in Stack
  BY StoreIs
<1>4. color' \in [Objects -> Colors] /\ \A o \in Objects : kind[o] = "free" => color'[o] = color[o]
  <2>1. color \in [Objects -> Colors] /\ {"gray", "white"} \subseteq Colors
    BY DEF TInv, ObjectType, Colors
  <2>2. \/ color' = color \/ color' = [color EXCEPT ![c] = "gray"]
        \/ color' = Marked(color, {k, v} \ {None}) \/ color' = [color EXCEPT ![c] = "white"]
    BY <1>1, <1>2, ShadeIs
  <2>3. CASE color' = Marked(color, {k, v} \ {None})
    <3>1. \A o \in {k, v} \ {None} : kind[o] # "free"
      BY <1>3
    <3>2. QED
      BY <2>1, <2>3, <3>1, MarkedIs DEF TInv
  <2>4. QED
    BY <1>3, <2>1, <2>2, <2>3
<1>5. gray' \subseteq Objects /\ grayagain' \subseteq Objects
  <2>1. gray \subseteq Objects /\ grayagain \subseteq Objects /\ NewGray({k, v} \ {None}) \subseteq Objects
    BY <1>2 DEF TInv, StateType, NewGray
  <2>2. QED
    BY <1>1, <1>2, <2>1, ShadeIs
<1>6. StateType'
  BY <1>5, StoreIs DEF TInv, StateType, atomicVars
<1>7. QED
  BY <1>3, <1>4, <1>6, StoreIs, KeepListsT

\* Colours and entries from which a sweep may start.
Sweepable(col, ents) ==
  /\ col \in [Objects -> Colors] /\ col[main] # "dead"
  /\ ents \in [Objects -> SUBSET ((Objects \cup {None}) \X Objects)]
  /\ \A o \in Objects : kind[o] \in {"free", "string"} => ents[o] = {}
  /\ \A o \in Objects : kind[o] = "free" => col[o] = "white"

\* A sweep frees what is gone, and nothing else changes its kind.
LEMMA SweepObjects ==
  ASSUME TInv, NEW p, NEW col, NEW ents, Sweepable(col, ents),
         NEW r, SweepsBehind(list, p, col, r), Sweep(r, col, ents)
  PROVE  /\ ObjectType' /\ Allocated' = Allocated \ r.gone
         /\ r.gone \in SUBSET Allocated /\ main \notin r.gone
         /\ \A o \in Objects : /\ kind'[o] = IF o \in r.gone THEN "free" ELSE kind[o]
                               /\ entries'[o] = IF o \in r.gone THEN {} ELSE ents[o]
                               /\ color'[o] = IF o \in r.gone \cup r.kept THEN "white" ELSE col[o]
         /\ sweepgc' = r.next
<1>1. /\ kind' = [o \in Objects |-> IF o \in r.gone THEN "free" ELSE kind[o]]
      /\ entries' = [o \in Objects |-> IF o \in r.gone THEN {} ELSE ents[o]]
      /\ color' = [o \in Objects |-> IF o \in r.gone \cup r.kept THEN "white" ELSE col[o]]
      /\ sweepgc' = r.next
  BY DEF Sweep
<1>2. r.gone \in SUBSET Allocated /\ main \notin r.gone
  BY BehindListed DEF SweepsBehind, TInv, Sweepable
<1>3. \A o \in Objects : /\ kind'[o] = IF o \in r.gone THEN "free" ELSE kind[o]
                         /\ entries'[o] = IF o \in r.gone THEN {} ELSE ents[o]
                         /\ color'[o] = IF o \in r.gone \cup r.kept THEN "white" ELSE col[o]
  BY <1>1
<1>4. Allocated' = Allocated \ r.gone
  BY <1>3 DEF Allocated
<1>5. ObjectType'
  <2>1. kind' \in [Objects -> Kinds \cup {"free", "main"}]
    BY <1>1 DEF TInv, ObjectType
  <2>2. entries' \in [Objects -> SUBSET ((Objects \cup {None}) \X Objects)]
    <3>1. \A o \in Objects : entries'[o] \in SUBSET ((Objects \cup {None}) \X Objects)
      BY <1>3 DEF Sweepable
    <3>2. QED
      BY <1>1, <3>1
  <2>3. color' \in [Objects -> Colors]
    BY <1>1 DEF Colors, Sweepable
  <2>4. \A o \in Objects : kind'[o] = "main" <=> o = main
    BY <1>2, <1>3 DEF TInv, ObjectType
  <2>5. \A o \in Objects : kind'[o] = "free" => color'[o] = "white" /\ entries'[o] = {}
    BY <1>3 DEF Sweepable
  <2>6. \A o \in Objects : kind'[o] = "string" => entries'[o] = {}
    BY <1>3 DEF Sweepable
  <2>7. QED
    BY <2>1, <2>2, <2>3, <2>4, <2>5, <2>6 DEF ObjectType
<1>6. QED
  BY <1>1, <1>2, <1>3, <1>4, <1>5

\* A step of the sweep in the list n.
LEMMA SweepT ==
  ASSUME TInv, NEW p \in Names \cup Allocated, NEW n \in Names, p = n \/ p \in Range(list[n]),
         NEW col, NEW ents, Sweepable(col, ents),
         NEW r, SweepsBehind(list, p, col, r), Sweep(r, col, ents),
         list' = Without(list, r.gone), StateType',
         <<gcstate', n>> \in {<<"swpallgc", "allgc">>, <<"swpfinobj", "finobj">>, <<"swptobefnz", "tobefnz">>}
  PROVE  TInv'
<1>1. /\ ObjectType' /\ Allocated' = Allocated \ r.gone
      /\ r.gone \in SUBSET Allocated /\ main \notin r.gone /\ sweepgc' = r.next
  <2>1. ObjectType' /\ Allocated' = Allocated \ r.gone
    BY SweepObjects
  <2>2. r.gone \in SUBSET Allocated /\ main \notin r.gone
    BY SweepObjects
  <2>3. sweepgc' = r.next
    BY SweepObjects
  <2>4. QED
    BY <2>1, <2>2, <2>3
<1>2. /\ Lists(list', Allocated')
      /\ \A m \in Names : Range(list'[m]) = Range(list[m]) \ r.gone
  BY <1>1, WithoutIs DEF TInv
<1>3. Address'
  <2>1. r.next = None \/ r.next = p \/ r.next \in r.kept
    BY DEF SweepsBehind
  <2>2. CASE r.next = p
    <3>1. p \notin r.gone
      <4>1. PICK s : s = Behind(list, p)
        OBVIOUS
      <4>2. p \notin Range(s) /\ \A o : o \in Range(s) <=> IsBehind(list, p, o)
        BY <4>1, BehindIs DEF TInv, Allocated
      <4>3. QED
        BY <4>2 DEF SweepsBehind
    <3>2. p = n \/ p \in Range(list'[n])
      BY <1>2, <3>1
    <3>3. QED
      BY <1>1, <2>2, <3>2 DEF Address
  <2>3. CASE r.next \in r.kept
    <3>1. IsBehind(list, p, r.next) /\ r.next \notin r.gone
      BY <2>3 DEF SweepsBehind
    <3>2. r.next \in Range(list[n])
      BY <3>1, BehindListed DEF TInv
    <3>3. r.next \in Range(list'[n])
      BY <1>2, <3>1, <3>2
    <3>4. QED
      BY <1>1, <3>3 DEF Address
  <2>4. CASE r.next = None
    BY <1>1, <2>4 DEF Address
  <2>5. QED
    BY <2>1, <2>2, <2>3, <2>4
<1>4. QED
  BY <1>1, <1>2, <1>3 DEF TInv

LEMMA NewT ==
  ASSUME TInv, NEW o \in Objects, NEW k \in Kinds, New(o, k)
  PROVE  TInv'
<1>1. /\ kind[o] = "free" /\ kind' = [kind EXCEPT ![o] = k]
      /\ color' = [color EXCEPT ![o] = "white"]
      /\ list' = [list EXCEPT !["allgc"] = <<o>> \o list["allgc"]]
      /\ entries' = Pushed(o)
      /\ UNCHANGED <<gcstate, grayLists, atomicVars, sweepgc>>
  BY DEF New
<1>2. /\ entries' \in [Objects -> SUBSET ((Objects \cup {None}) \X Objects)]
      /\ \A x \in Objects \ {main} : entries'[x] = entries[x]
  BY <1>1, PushedIs DEF TInv
<1>3. /\ kind'[o] = k /\ \A x \in Objects \ {o} : kind'[x] = kind[x]
      /\ color'[o] = "white" /\ \A x \in Objects \ {o} : color'[x] = color[x]
      /\ kind' \in [Objects -> Kinds \cup {"free", "main"}] /\ color' \in [Objects -> Colors]
  BY <1>1 DEF TInv, ObjectType, Colors
<1>4. k \notin {"free", "main"} /\ o # main
  BY <1>1, CollectorAssumption, MainIs
<1>5. ObjectType'
  <2>1. \A x \in Objects : kind'[x] = "main" <=> x = main
    BY <1>3, <1>4 DEF TInv, ObjectType
  <2>2. \A x \in Objects : kind'[x] = "free" => color'[x] = "white" /\ entries'[x] = {}
    BY <1>2, <1>3, <1>4, MainIs DEF TInv, ObjectType
  <2>3. \A x \in Objects : kind'[x] = "string" => entries'[x] = {}
    BY <1>1, <1>2, <1>3, <1>4, MainIs DEF TInv, ObjectType
  <2>4. QED
    BY <1>2, <1>3, <2>1, <2>2, <2>3 DEF ObjectType
<1>6. "allgc" \in Names /\ o \notin Allocated
  BY <1>1 DEF Names, Allocated
<1>7. Allocated' = Allocated \cup {o}
  BY <1>3, <1>4 DEF Allocated
<1>8. /\ Lists(list', Allocated \cup {o})
      /\ Range(list'["allgc"]) = {o} \cup Range(list["allgc"])
      /\ \A m \in Names \ {"allgc"} : Range(list'[m]) = Range(list[m])
  <2>1. Lists(list, Allocated) /\ list' = Prepended(list, "allgc", o)
    BY <1>1 DEF TInv, Prepended
  <2>2. QED
    BY <1>6, <2>1, PrependIs
<1>9. Address'
  BY <1>1, <1>8 DEF TInv, Address
<1>10. StateType'
  BY <1>1 DEF TInv, StateType, grayLists, atomicVars
<1>11. QED
  BY <1>5, <1>7, <1>8, <1>9, <1>10 DEF TInv

\* The object o is moved to finobj; r is the sweep that comes before.
LEMMA SetFinalizerStep ==
  ASSUME TInv, NEW o \in Objects, SetFinalizer(o), color[main] # "dead"
  PROVE  \E r, col :
           /\ o \in Allocated /\ o \in Range(list["allgc"]) /\ Running
           /\ col = [color EXCEPT ![o] = IF SweepPhase THEN "white" ELSE color[o]]
           /\ Sweepable(col, entries) /\ Sweep(r, col, entries)
           /\ SweepPhase /\ sweepgc = o => SweepsBehind(list, o, col, r) /\ r.next \in {None} \cup r.kept
           /\ ~(SweepPhase /\ sweepgc = o) => r.gone = {} /\ r.kept = {} /\ r.next = sweepgc
           /\ o \notin r.gone /\ o \notin r.kept
           /\ ObjectType' /\ Allocated' = Allocated \ r.gone
           /\ r.gone \in SUBSET Allocated /\ sweepgc' = r.next
           /\ Lists(list', Allocated')
           /\ Range(list'["finobj"]) = {o} \cup (Range(list["finobj"]) \ r.gone)
           /\ \A n \in Names \ {"finobj"} : Range(list'[n]) = Range(list[n]) \ (r.gone \cup {o})
           /\ \A q, x : q \notin r.gone \cup {o} /\ x \notin r.gone \cup {o} /\ IsBehind(list, q, x)
                       => IsBehind(list', q, x)
           /\ UNCHANGED <<gcstate, grayLists, atomicVars>> /\ doomed' = doomed \ r.gone
<1>1. o \in Allocated /\ o \in Range(list["allgc"]) /\ Running
  <2>1. o \in Range(list["allgc"]) /\ Running
    BY DEF SetFinalizer, Listed
  <2>2. QED
    BY <2>1 DEF TInv, Lists, Names
<1>2. PICK r : r = IF SweepPhase /\ sweepgc = o THEN SweepToLive(o, color)
                   ELSE [NoSweep EXCEPT !.next = sweepgc]
  OBVIOUS
<1>3. PICK col : col = [color EXCEPT ![o] = IF SweepPhase THEN "white" ELSE color[o]]
  OBVIOUS
<1>4. /\ Sweep(r, col, entries)
      /\ list' = [Without(list, r.gone \cup {o}) EXCEPT
                    !["finobj"] = <<o>> \o Without(list, r.gone \cup {o})["finobj"]]
      /\ UNCHANGED <<gcstate, grayLists, atomicVars, full>>
  BY <1>2, <1>3 DEF SetFinalizer
<1>5. Sweepable(col, entries)
  <2>1. col \in [Objects -> Colors] /\ col[main] # "dead"
    BY <1>3, MainIs DEF TInv, ObjectType, Colors
  <2>2. \A x \in Objects : kind[x] = "free" => col[x] = "white"
    BY <1>1, <1>3 DEF TInv, ObjectType, Allocated
  <2>3. QED
    BY <2>1, <2>2 DEF TInv, ObjectType, Sweepable
<1>6. /\ SweepsBehind(list, o, color, r) \/ (r.gone = {} /\ r.kept = {} /\ r.next = sweepgc)
      /\ SweepPhase /\ sweepgc = o => SweepsBehind(list, o, color, r) /\ r.next \in {None} \cup r.kept
      /\ ~(SweepPhase /\ sweepgc = o) => r.gone = {} /\ r.kept = {} /\ r.next = sweepgc
  <2>1. CASE SweepPhase /\ sweepgc = o
    <3>1. r = SweepToLive(o, color)
      BY <1>2, <2>1
    <3>2. Allocated \subseteq Objects
      BY DEF Allocated
    <3>3. QED
      BY <1>1, <2>1, <3>1, <3>2, SweepToLiveIs DEF TInv
  <2>2. CASE ~(SweepPhase /\ sweepgc = o)
    BY <1>2, <2>2 DEF NoSweep
  <2>3. QED
    BY <2>1, <2>2
<1>7. o \notin r.gone
  <2>1. CASE SweepsBehind(list, o, color, r)
    <3>1. PICK s : s = Behind(list, o)
      OBVIOUS
    <3>2. o \notin Range(s) /\ \A x : x \in Range(s) <=> IsBehind(list, o, x)
      BY <1>1, <3>1, BehindIs DEF TInv, Allocated
    <3>3. QED
      BY <2>1, <3>2 DEF SweepsBehind
  <2>2. CASE r.gone = {}
    BY <2>2
  <2>3. QED
    BY <1>6, <2>1, <2>2
<1>8. SweepsBehind(list, o, col, r) \/ (r.gone = {} /\ r.kept = {})
  <2>1. CASE SweepsBehind(list, o, color, r)
    <3>1. PICK s : s = Behind(list, o)
      OBVIOUS
    <3>2. o \notin Range(s) /\ \A x : x \in Range(s) <=> IsBehind(list, o, x)
      BY <1>1, <3>1, BehindIs DEF TInv, Allocated
    <3>3. \A x : IsBehind(list, o, x) => col[x] = color[x]
      <4>1. \A x : IsBehind(list, o, x) => x \in Objects /\ x # o
        BY <3>2, BehindListed DEF TInv
      <4>2. QED
        BY <1>3, <4>1 DEF TInv, ObjectType
    <3>4. QED
      BY <2>1, <3>3 DEF SweepsBehind
  <2>2. QED
    BY <1>6, <2>1
<1>9. /\ ObjectType' /\ Allocated' = Allocated \ r.gone
      /\ r.gone \in SUBSET Allocated /\ sweepgc' = r.next
  <2>1. CASE SweepsBehind(list, o, col, r)
    <3>1. ObjectType' /\ Allocated' = Allocated \ r.gone
      BY <1>4, <1>5, <2>1, SweepObjects
    <3>2. r.gone \in SUBSET Allocated
      BY <1>4, <1>5, <2>1, SweepObjects
    <3>3. sweepgc' = r.next
      BY <1>4 DEF Sweep
    <3>4. QED
      BY <3>1, <3>2, <3>3
  <2>2. CASE r.gone = {} /\ r.kept = {}
    <3>1. kind' = kind /\ entries' = entries /\ color' = col /\ sweepgc' = r.next
      BY <1>4, <1>5, <2>2 DEF Sweep, Sweepable, TInv, ObjectType
    <3>2. QED
      BY <1>5, <2>2, <3>1 DEF Sweepable, TInv, ObjectType, Allocated
  <2>3. QED
    BY <1>8, <2>1, <2>2
<1>10. PICK w : w = Without(list, r.gone \cup {o})
  OBVIOUS
<1>11. /\ Lists(w, Allocated \ (r.gone \cup {o}))
       /\ \A n \in Names : Range(w[n]) = Range(list[n]) \ (r.gone \cup {o})
  <2>1. r.gone \cup {o} \in SUBSET Allocated
    BY <1>1, <1>9
  <2>2. QED
    BY <1>10, <2>1, WithoutIs DEF TInv
<1>12. list' = Prepended(w, "finobj", o)
  BY <1>4, <1>10 DEF Prepended
<1>13. /\ Lists(list', Allocated')
       /\ Range(list'["finobj"]) = {o} \cup Range(w["finobj"])
       /\ \A n \in Names \ {"finobj"} : Range(list'[n]) = Range(w[n])
  <2>1. PICK A : A = Allocated \ (r.gone \cup {o})
    OBVIOUS
  <2>2. "finobj" \in Names /\ o \notin A /\ Lists(w, A)
    BY <1>11, <2>1 DEF Names
  <2>3. Allocated' = A \cup {o}
    BY <1>1, <1>7, <1>9, <2>1
  <2>4. /\ Lists(Prepended(w, "finobj", o), A \cup {o})
        /\ Range(Prepended(w, "finobj", o)["finobj"]) = {o} \cup Range(w["finobj"])
        /\ \A m \in Names \ {"finobj"} : Range(Prepended(w, "finobj", o)[m]) = Range(w[m])
    BY <2>2, PrependIs
  <2>5. QED
    BY <1>12, <2>3, <2>4
<1>14. "finobj" \in Names /\ "finobj" # "allgc" /\ o \notin Range(list["finobj"])
  BY <1>1 DEF TInv, Lists, Names
<1>15. \A q, x : q \notin r.gone \cup {o} /\ x \notin r.gone \cup {o} /\ IsBehind(list, q, x) => IsBehind(list', q, x)
  <2>1. r.gone \cup {o} \in SUBSET Allocated
    BY <1>1, <1>9
  <2>2. \A q, x : q \notin r.gone \cup {o} /\ x \notin r.gone \cup {o} /\ IsBehind(list, q, x) => IsBehind(w, q, x)
    BY <1>10, <2>1, WithoutIs DEF TInv
  <2>3. PICK A : A = Allocated \ (r.gone \cup {o})
    OBVIOUS
  <2>4. "finobj" \in Names /\ o \notin A /\ Lists(w, A)
    BY <1>11, <2>3 DEF Names
  <2>5. \A q, x : IsBehind(w, q, x) => IsBehind(Prepended(w, "finobj", o), q, x)
    BY <2>4, PrependIs
  <2>6. QED
    BY <1>12, <2>2, <2>5
<1>16. o \notin r.kept
  <2>1. CASE SweepsBehind(list, o, color, r)
    <3>1. PICK s : s = Behind(list, o)
      OBVIOUS
    <3>2. o \notin Range(s) /\ \A x : x \in Range(s) <=> IsBehind(list, o, x)
      BY <1>1, <3>1, BehindIs DEF TInv, Allocated
    <3>3. QED
      BY <2>1, <3>2 DEF SweepsBehind
  <2>2. QED
    BY <1>6, <2>1
<1>17. doomed' = doomed \ r.gone
  BY <1>2 DEF SetFinalizer
<1>18. SweepPhase /\ sweepgc = o => SweepsBehind(list, o, col, r) /\ r.next \in {None} \cup r.kept
  BY <1>6, <1>8 DEF SweepsBehind
<1>19. Range(list'["finobj"]) = {o} \cup (Range(list["finobj"]) \ r.gone)
  BY <1>11, <1>13, <1>14
<1>20. \A n \in Names \ {"finobj"} : Range(list'[n]) = Range(list[n]) \ (r.gone \cup {o})
  BY <1>11, <1>13
<1>21. UNCHANGED <<gcstate, grayLists, atomicVars>>
  BY <1>4
<1>22. QED
  BY <1>1, <1>3, <1>4, <1>5, <1>6, <1>7, <1>9, <1>13, <1>15, <1>16, <1>17, <1>18, <1>19, <1>20, <1>21

LEMMA SetFinalizerT ==
  ASSUME TInv, NEW o \in Objects, SetFinalizer(o), color[main] # "dead"
  PROVE  TInv'
<1>1. PICK r, col :
           /\ o \in Allocated /\ o \in Range(list["allgc"]) /\ Running
           /\ SweepPhase /\ sweepgc = o => SweepsBehind(list, o, col, r) /\ r.next \in {None} \cup r.kept
           /\ ~(SweepPhase /\ sweepgc = o) => r.gone = {} /\ r.kept = {} /\ r.next = sweepgc
           /\ o \notin r.gone /\ o \notin r.kept
           /\ ObjectType' /\ Allocated' = Allocated \ r.gone
           /\ r.gone \in SUBSET Allocated /\ sweepgc' = r.next
           /\ Lists(list', Allocated')
           /\ Range(list'["finobj"]) = {o} \cup (Range(list["finobj"]) \ r.gone)
           /\ \A n \in Names \ {"finobj"} : Range(list'[n]) = Range(list[n]) \ (r.gone \cup {o})
           /\ UNCHANGED <<gcstate, grayLists, atomicVars>>
  BY SetFinalizerStep
<1>2. \A n \in Names : \A x : x \in Range(list[n]) /\ x \notin r.gone \cup {o} => x \in Range(list'[n])
  BY <1>1 DEF Names
<1>3. Address'
  <2>1. ASSUME sweepgc # None PROVE SweepPhase
    BY <2>1 DEF TInv, Address, SweepPhase
  <2>2. CASE sweepgc # None
    <3>1. PICK n \in Names :
            /\ <<gcstate, n>> \in {<<"swpallgc", "allgc">>, <<"swpfinobj", "finobj">>, <<"swptobefnz", "tobefnz">>}
            /\ sweepgc = n \/ sweepgc \in Range(list[n])
      BY <2>2 DEF TInv, Address
    <3>2. gcstate' = gcstate
      BY <1>1
    <3>3. CASE sweepgc = o
      <4>1. SweepsBehind(list, o, col, r) /\ r.next \in {None} \cup r.kept
        BY <1>1, <2>1, <2>2, <3>3
      <4>2. o \in Range(list[n])
        BY <3>1, <3>3, NoName
      <4>3. CASE r.next \in r.kept
        <5>1. IsBehind(list, o, r.next) /\ r.next \notin r.gone
          BY <4>1, <4>3 DEF SweepsBehind
        <5>2. r.next \in Range(list[n])
          BY <4>2, <5>1, BehindListed DEF TInv
        <5>3. r.next # o
          BY <1>1, <4>3
        <5>4. r.next \in Range(list'[n])
          BY <1>2, <5>1, <5>2, <5>3
        <5>5. QED
          BY <1>1, <3>1, <3>2, <5>4 DEF Address
      <4>4. CASE r.next = None
        BY <1>1, <4>4 DEF Address
      <4>5. QED
        BY <4>1, <4>3, <4>4
    <3>4. CASE sweepgc # o
      <4>1. r.gone = {} /\ r.next = sweepgc
        BY <1>1, <3>4
      <4>2. sweepgc = n \/ sweepgc \in Range(list'[n])
        BY <1>2, <3>1, <3>4, <4>1
      <4>3. QED
        BY <1>1, <3>1, <3>2, <4>1, <4>2 DEF Address
    <3>5. QED
      BY <3>3, <3>4
  <2>3. CASE sweepgc = None
    <3>1. sweepgc # o
      BY <2>3, NoName DEF None
    <3>2. r.next = None
      BY <1>1, <2>3, <3>1
    <3>3. QED
      BY <1>1, <3>2 DEF Address
  <2>4. QED
    BY <2>2, <2>3
<1>4. StateType'
  BY <1>1 DEF TInv, StateType, grayLists, atomicVars
<1>5. QED
  BY <1>1, <1>3, <1>4 DEF TInv

LEMMA SweepStepT ==
  ASSUME TInv, SweepStep, color[main] # "dead"
  PROVE  /\ TInv'
         /\ \E r : /\ SweepsBehind(list, sweepgc, color, r) /\ Sweep(r, color, entries)
                   /\ list' = Without(list, r.gone) /\ doomed' = doomed \ r.gone
<1>1. PICK r : r = SweepOne(sweepgc)
  OBVIOUS
<1>2. /\ sweepgc # None /\ Sweep(r, color, entries) /\ list' = Without(list, r.gone)
      /\ doomed' = doomed \ r.gone
      /\ UNCHANGED <<gcstate, grayLists, atomicVars, full>>
  BY <1>1 DEF SweepStep
<1>3. PICK n \in Names :
        /\ <<gcstate, n>> \in {<<"swpallgc", "allgc">>, <<"swpfinobj", "finobj">>, <<"swptobefnz", "tobefnz">>}
        /\ sweepgc = n \/ sweepgc \in Range(list[n])
  BY <1>2 DEF TInv, Address
<1>4. sweepgc \in Names \cup Allocated
  <2>1. CASE sweepgc \in Range(list[n])
    BY <2>1, ListIs DEF TInv, Lists
  <2>2. QED
    BY <1>3, <2>1
<1>5. SweepsBehind(list, sweepgc, color, r)
  BY <1>1, <1>4, SweepOneIs DEF TInv, Allocated
<1>6. Sweepable(color, entries)
  BY DEF TInv, ObjectType, Sweepable
<1>7. StateType'
  BY <1>2 DEF TInv, StateType, grayLists, atomicVars
<1>8. <<gcstate', n>> \in {<<"swpallgc", "allgc">>, <<"swpfinobj", "finobj">>, <<"swptobefnz", "tobefnz">>}
  BY <1>2, <1>3
<1>9. TInv'
  BY <1>2, <1>3, <1>4, <1>5, <1>6, <1>7, <1>8, SweepT
<1>10. QED
  BY <1>2, <1>5, <1>9

-----------------------------------------------------------------------------
(* The steps of a cycle keep types, lists and the address.                 *)

\* A step changes the state, colours and gray lists, but not what is allocated.
LEMMA ColorT ==
  ASSUME TInv, StateType', UNCHANGED <<kind, entries, list, sweepgc>>,
         gcstate' = gcstate \/ sweepgc = None, NEW S, color' = Marked(color, S),
         \A x \in S : kind[x] # "free"
  PROVE  TInv'
<1>1. color \in [Objects -> Colors] /\ ObjectType
  BY DEF TInv, ObjectType
<1>2. color' \in [Objects -> Colors] /\ \A o \in Objects : kind[o] = "free" => color'[o] = color[o]
  <2>1. /\ Marked(color, S) \in [Objects -> Colors]
        /\ \A o \in Objects : Marked(color, S)[o] = color[o] \/ o \in S
    BY <1>1, MarkedIs
  <2>2. QED
    BY <2>1
<1>3. QED
  BY <1>1, <1>2, KeepListsT DEF ObjectType

LEMMA NoAddress ==
  ASSUME TInv, gcstate \notin {"swpallgc", "swpfinobj", "swptobefnz"}
  PROVE  sweepgc = None
BY DEF TInv, Address

LEMMA FullStartT ==
  ASSUME TInv, FullStart, color[main] # "dead"
  PROVE  TInv'
<1>1. CASE KeepInvariant
  <2>1. PICK r : r = SweepToLive("allgc", color)
    OBVIOUS
  <2>2. /\ Sweep(r, color, entries) /\ list' = Without(list, r.gone)
        /\ gcstate' = "swpallgc" /\ UNCHANGED <<grayLists, atomicVars>> /\ stage = None
    BY <1>1, <2>1 DEF FullStart, Running
  <2>3. "allgc" \in Names \cup Allocated /\ "allgc" \in Names /\ Allocated \subseteq Objects
    BY DEF Names, Allocated
  <2>4. SweepsBehind(list, "allgc", color, r)
    BY <2>1, <2>3, SweepToLiveIs DEF TInv
  <2>5. Sweepable(color, entries)
    BY DEF TInv, ObjectType, Sweepable
  <2>6. StateType'
    BY <2>2 DEF TInv, StateType, grayLists, atomicVars
  <2>7. <<gcstate', "allgc">> \in {<<"swpallgc", "allgc">>, <<"swpfinobj", "finobj">>, <<"swptobefnz", "tobefnz">>}
    BY <2>2
  <2>8. QED
    BY <2>2, <2>3, <2>4, <2>5, <2>6, <2>7, SweepT
<1>2. CASE ~KeepInvariant
  <2>1. UNCHANGED <<kind, entries, color, list, gcstate, sweepgc, grayLists, atomicVars>>
    BY <1>2 DEF FullStart
  <2>2. QED
    BY <2>1 DEF TInv, ObjectType, StateType, Address, Allocated, grayLists, atomicVars
<1>3. QED
  BY <1>1, <1>2

LEMMA RestartT ==
  ASSUME TInv, Restart
  PROVE  TInv'
<1>1. PICK roots : roots = {main} \cup Listed("tobefnz")
  OBVIOUS
<1>2. /\ gcstate = "pause" /\ gcstate' \in {"propagate", "enteratomic"}
      /\ color' = Marked(color, roots) /\ gray' = NewGray(roots)
      /\ grayagain' = {} /\ weak' = {} /\ allweak' = {} /\ ephemeron' = {}
      /\ UNCHANGED <<kind, entries, list, atomicVars, sweepgc>>
  BY <1>1 DEF Restart
<1>3. roots \subseteq Allocated
  BY <1>1, MainIs, ListIs DEF TInv, Lists, Listed, Names
<1>4. gray' \subseteq Objects
  BY <1>2, <1>3 DEF NewGray, Allocated
<1>5. StateType'
  BY <1>2, <1>4 DEF TInv, StateType, atomicVars
<1>6. sweepgc = None
  BY <1>2, NoAddress
<1>7. QED
  BY <1>2, <1>3, <1>5, <1>6, ColorT DEF Allocated

\* What a visit marks are objects that o refers to.
LEMMA VisitsAre ==
  ASSUME TInv, NEW o \in Objects
  PROVE  Visits(o) \subseteq Parts(o) /\ Refs(o) \subseteq Parts(o) /\ Parts(o) \subseteq Objects
<1>1. Parts(o) = Keys(o) \cup Values(o)
  BY PartsAre
<1>2. Refs(o) \subseteq Parts(o)
  BY <1>1 DEF Refs
<1>3. Visits(o) \subseteq Parts(o)
  BY <1>1, <1>2 DEF Visits, StringsIn, Values
<1>4. QED
  BY <1>2, <1>3, PartsType DEF TInv

\* What a visit to o changes
LEMMA TraverseIs ==
  ASSUME TInv, NEW o \in Objects, NEW gl, NEW el, Traverse(o, gl, el)
  PROVE  /\ color' \in [Objects -> Colors]
         /\ color'[o] = IF Relinked(o) = None THEN "black" ELSE "gray"
         /\ \A x \in Objects \ {o} :
              \/ color'[x] = color[x] /\ (x \notin Visits(o) \/ ~White(x))
              \/ /\ x \in Visits(o) /\ White(x)
                 /\ color'[x] = IF kind[x] = "string" THEN "black" ELSE "gray"
         /\ gray' = gl \cup NewGray(Visits(o) \ {o})
         /\ grayagain' = IF Relinked(o) = "grayagain" THEN grayagain \cup {o} ELSE grayagain
         /\ weak' = IF Relinked(o) = "weak" THEN weak \cup {o} ELSE weak
         /\ allweak' = IF Relinked(o) = "allweak" THEN allweak \cup {o} ELSE allweak
         /\ ephemeron' = IF Relinked(o) = "ephemeron" THEN el \cup {o} ELSE el
<1>1. PICK seen : seen = [color EXCEPT ![o] = "black"]
  OBVIOUS
<1>2. PICK m : m = Marked(seen, Visits(o) \ {o})
  OBVIOUS
<1>3. /\ color' = [m EXCEPT ![o] = IF Relinked(o) = None THEN "black" ELSE "gray"]
      /\ gray' = gl \cup NewGray(Visits(o) \ {o})
      /\ grayagain' = IF Relinked(o) = "grayagain" THEN grayagain \cup {o} ELSE grayagain
      /\ weak' = IF Relinked(o) = "weak" THEN weak \cup {o} ELSE weak
      /\ allweak' = IF Relinked(o) = "allweak" THEN allweak \cup {o} ELSE allweak
      /\ ephemeron' = IF Relinked(o) = "ephemeron" THEN el \cup {o} ELSE el
  <2>1. color' = [m EXCEPT ![o] = IF Relinked(o) = None THEN "black" ELSE "gray"]
    BY <1>1, <1>2 DEF Traverse
  <2>2. gray' = gl \cup NewGray(Visits(o) \ {o})
    BY DEF Traverse
  <2>3. /\ grayagain' = IF Relinked(o) = "grayagain" THEN grayagain \cup {o} ELSE grayagain
        /\ weak' = IF Relinked(o) = "weak" THEN weak \cup {o} ELSE weak
    BY DEF Traverse
  <2>4. /\ allweak' = IF Relinked(o) = "allweak" THEN allweak \cup {o} ELSE allweak
        /\ ephemeron' = IF Relinked(o) = "ephemeron" THEN el \cup {o} ELSE el
    BY DEF Traverse
  <2>5. QED
    BY <2>1, <2>2, <2>3, <2>4
<1>4. seen \in [Objects -> Colors] /\ \A x \in Objects \ {o} : seen[x] = color[x]
  BY <1>1 DEF TInv, ObjectType, Colors
<1>5. /\ m \in [Objects -> Colors]
      /\ \A x \in Objects : \/ m[x] = seen[x] /\ (x \notin Visits(o) \ {o} \/ ~White(x))
                            \/ /\ x \in Visits(o) \ {o} /\ White(x)
                               /\ m[x] = IF kind[x] = "string" THEN "black" ELSE "gray"
  BY <1>2, <1>4, MarkedIs DEF TInv
<1>6. PICK now : now = IF Relinked(o) = None THEN "black" ELSE "gray"
  OBVIOUS
<1>7. now \in Colors /\ color' = [m EXCEPT ![o] = now]
  BY <1>3, <1>6 DEF Colors
<1>8. color' \in [Objects -> Colors] /\ color'[o] = now /\ \A x \in Objects \ {o} : color'[x] = m[x]
  BY <1>5, <1>7
<1>9. \A x \in Objects \ {o} :
        \/ color'[x] = color[x] /\ (x \notin Visits(o) \/ ~White(x))
        \/ /\ x \in Visits(o) /\ White(x)
           /\ color'[x] = IF kind[x] = "string" THEN "black" ELSE "gray"
  BY <1>4, <1>5, <1>8
<1>10. QED
  BY <1>3, <1>6, <1>8, <1>9

LEMMA TraverseT ==
  ASSUME TInv, NEW o \in Objects, NEW gl \in SUBSET Objects, NEW el \in SUBSET Objects, Traverse(o, gl, el),
         UNCHANGED <<kind, entries, list, gcstate, stage, orig, sweepgc>>,
         todo' \subseteq todo, changed' \in BOOLEAN,
         kind[o] # "free", \A x \in Parts(o) : kind[x] # "free"
  PROVE  TInv'
<1>1. Visits(o) \subseteq Parts(o) /\ Parts(o) \subseteq Objects
  BY VisitsAre
<1>2. color' \in [Objects -> Colors] /\ \A x \in Objects : kind[x] = "free" => color'[x] = color[x]
  BY <1>1, TraverseIs
<1>3. gray' \cup grayagain' \cup weak' \cup allweak' \cup ephemeron' \subseteq Objects
  <2>1. gray \cup grayagain \cup weak \cup allweak \cup ephemeron \subseteq Objects
    BY DEF TInv, StateType
  <2>2. NewGray(Visits(o) \ {o}) \subseteq Objects
    BY <1>1 DEF NewGray
  <2>3. gray' \subseteq Objects
    BY <2>2, TraverseIs
  <2>4. grayagain' \subseteq Objects /\ weak' \subseteq Objects
    BY <2>1, TraverseIs
  <2>5. allweak' \subseteq Objects
    BY <2>1, TraverseIs
  <2>6. ephemeron' \subseteq Objects
    <3>1. ephemeron' = IF Relinked(o) = "ephemeron" THEN el \cup {o} ELSE el
      BY TraverseIs
    <3>2. QED
      BY <2>1, <3>1
  <2>7. QED
    BY <2>3, <2>4, <2>5, <2>6
<1>4. StateType'
  BY <1>3 DEF TInv, StateType
<1>5. QED
  BY <1>2, <1>4, KeepListsT DEF TInv, ObjectType

LEMMA PropagateT ==
  ASSUME TInv, NEW o \in Objects, Propagate(o), kind[o] # "free", \A x \in Parts(o) : kind[x] # "free"
  PROVE  TInv'
<1>1. /\ Traverse(o, gray \ {o}, ephemeron)
      /\ UNCHANGED <<kind, entries, list, gcstate, stage, todo, changed, orig, sweepgc>>
  BY DEF Propagate, atomicVars
<1>2. gray \ {o} \in SUBSET Objects /\ ephemeron \in SUBSET Objects /\ changed \in BOOLEAN
  BY DEF TInv, StateType
<1>3. QED
  BY <1>1, <1>2, TraverseT

LEMMA ConvergeTableT ==
  ASSUME TInv, NEW o \in Objects, ConvergeTable(o), kind[o] # "free", \A x \in Parts(o) : kind[x] # "free"
  PROVE  TInv'
<1>1. /\ Traverse(o, gray, ephemeron) /\ todo' = todo \ {o}
      /\ changed' = (changed \/ \E v \in Visits(o) \cap Values(o) : White(v))
      /\ UNCHANGED <<kind, entries, list, gcstate, stage, orig, sweepgc>>
  BY DEF ConvergeTable, outsideAtomic
<1>2. gray \in SUBSET Objects /\ ephemeron \in SUBSET Objects /\ changed' \in BOOLEAN
  BY <1>1 DEF TInv, StateType
<1>3. QED
  BY <1>1, <1>2, TraverseT

\* Steps that only change the state and the gray lists
LEMMA GrayT ==
  ASSUME TInv, StateType', UNCHANGED <<kind, entries, color, list, sweepgc>>,
         gcstate' = gcstate \/ sweepgc = None
  PROVE  TInv'
BY KeepListsT DEF TInv, ObjectType

LEMMA EndPropagateT ==
  ASSUME TInv, EndPropagate
  PROVE  TInv'
<1>1. /\ gcstate = "propagate" /\ gcstate' = "enteratomic"
      /\ UNCHANGED <<kind, entries, color, list, grayLists, atomicVars, sweepgc>>
  BY DEF EndPropagate
<1>2. StateType'
  BY <1>1 DEF TInv, StateType, grayLists, atomicVars
<1>3. QED
  BY <1>1, <1>2, GrayT, NoAddress

LEMMA EnterAtomicT ==
  ASSUME TInv, EnterAtomic
  PROVE  TInv'
<1>1. /\ gcstate = "enteratomic" /\ gcstate' = "atomic" /\ stage' = "roots"
      /\ todo' = grayagain /\ grayagain' = {}
      /\ color' = Marked(color, {main}) /\ gray' = gray \cup NewGray({main})
      /\ UNCHANGED <<kind, entries, list, sweepgc, weak, allweak, ephemeron, changed>>
  BY DEF EnterAtomic, outsideAtomic
<1>2. NewGray({main}) \subseteq Objects
  BY MainIs DEF NewGray
<1>3. StateType'
  <2>1. "roots" # None
    BY DEF None
  <2>2. QED
    BY <1>1, <1>2, <2>1 DEF TInv, StateType
<1>4. sweepgc = None
  BY <1>1, NoAddress
<1>5. QED
  BY <1>1, <1>3, <1>4, MainIs, ColorT

LEMMA TraverseAgainT ==
  ASSUME TInv, TraverseAgain
  PROVE  TInv'
<1>1. /\ stage = "roots" /\ stage' = "again" /\ gray' = todo /\ todo' = {}
      /\ UNCHANGED <<kind, entries, color, list, sweepgc, gcstate, grayagain, weak, allweak, ephemeron, changed>>
  BY DEF TraverseAgain, At, outsideAtomic
<1>2. StateType'
  BY <1>1 DEF TInv, StateType, None
<1>3. QED
  BY <1>1, <1>2, GrayT

LEMMA ConvergeT ==
  ASSUME TInv, NEW from, NEW to \in {"converge", "reconverge"}, from # None, Converge(from, to)
  PROVE  TInv'
<1>1. /\ stage = from /\ stage' = to /\ todo' = ephemeron /\ ephemeron' = {} /\ changed' = FALSE
      /\ UNCHANGED <<kind, entries, color, list, sweepgc, gcstate, gray, grayagain, weak, allweak>>
  BY DEF Converge, At, outsideAtomic
<1>2. to # None
  BY DEF None
<1>3. StateType'
  <2>1. gcstate' = "atomic" /\ stage' # None
    BY <1>1, <1>2 DEF TInv, StateType
  <2>2. stage' \in {"converge", "reconverge"}
    BY <1>1
  <2>3. gray' \cup grayagain' \cup weak' \cup allweak' \cup ephemeron' \cup todo' \subseteq Objects
    BY <1>1 DEF TInv, StateType
  <2>4. QED
    BY <1>1, <2>1, <2>2, <2>3 DEF StateType
<1>4. QED
  BY <1>1, <1>3, GrayT

\* What is done with strings in tables
LEMMA WithStringsIs ==
  ASSUME TInv, NEW S \in SUBSET Objects
  PROVE  /\ WithStrings(S) \in [Objects -> Colors]
         /\ \A o \in Objects : \/ WithStrings(S)[o] = color[o]
                               \/ kind[o] = "string" /\ White(o) /\ WithStrings(S)[o] = "black"
                                  /\ \E x \in S : o \in Parts(x)
         /\ \A o \in S : \A x \in Parts(o) : kind[x] = "string" => WithStrings(S)[x] # "white" /\ WithStrings(S)[x] # "dead"
<1>1. PICK T : T = StringsIn(UNION {Keys(o) \cup Values(o) : o \in S})
  OBVIOUS
<1>2. WithStrings(S) = Marked(color, T)
  BY <1>1 DEF WithStrings
<1>3. \A x : x \in T <=> kind[x] = "string" /\ \E o \in S : x \in Parts(o)
  BY <1>1, PartsAre DEF StringsIn
<1>4. color \in [Objects -> Colors] /\ ObjectType
  BY DEF TInv, ObjectType
<1>5. /\ Marked(color, T) \in [Objects -> Colors]
      /\ \A o \in Objects : \/ Marked(color, T)[o] = color[o] /\ (o \notin T \/ ~White(o))
                            \/ /\ o \in T /\ White(o)
                               /\ Marked(color, T)[o] = IF kind[o] = "string" THEN "black" ELSE "gray"
  BY <1>4, MarkedIs
<1>6. ASSUME NEW o \in S, NEW x \in Parts(o), kind[x] = "string"
      PROVE  Marked(color, T)[x] # "white" /\ Marked(color, T)[x] # "dead"
  <2>1. x \in T /\ x \in Objects
    BY <1>3, <1>4, <1>6, PartsType
  <2>2. QED
    BY <1>5, <1>6, <2>1 DEF White
<1>7. QED
  BY <1>2, <1>3, <1>5, <1>6

\* What clearing leaves
LEMMA ClearedIs ==
  ASSUME NEW ents, NEW S, NEW o \in Objects
  PROVE  /\ ByValues(ents, S)[o] = IF o \in S THEN {e \in ents[o] : ~Cleared(e[2])} ELSE ents[o]
         /\ ByKeys(ents, S)[o] = IF o \in S THEN {e \in ents[o] : e[1] = None \/ ~Cleared(e[1])} ELSE ents[o]
         /\ ByValues(ents, S)[o] \subseteq ents[o] /\ ByKeys(ents, S)[o] \subseteq ents[o]
<1>1. ByValues(ents, S)[o] = IF o \in S THEN {e \in ents[o] : ~Cleared(e[2])} ELSE ents[o]
  BY DEF ByValues
<1>2. ByKeys(ents, S)[o] = IF o \in S THEN {e \in ents[o] : e[1] = None \/ ~Cleared(e[1])} ELSE ents[o]
  BY DEF ByKeys
<1>3. QED
  BY <1>1, <1>2

\* Entries of a table are a subset of what they were.
LEMMA FewerEntries ==
  ASSUME TInv, NEW ents, DOMAIN ents = Objects, ents = [o \in Objects |-> ents[o]],
         \A o \in Objects : ents[o] \subseteq entries[o]
  PROVE  /\ ents \in [Objects -> SUBSET ((Objects \cup {None}) \X Objects)]
         /\ \A o \in Objects : kind[o] \in {"free", "string"} => ents[o] = {}
<1>1. /\ entries \in [Objects -> SUBSET ((Objects \cup {None}) \X Objects)]
      /\ \A o \in Objects : kind[o] \in {"free", "string"} => entries[o] = {}
  BY DEF TInv, ObjectType
<1>2. \A o \in Objects : ents[o] \in SUBSET ((Objects \cup {None}) \X Objects)
  BY <1>1
<1>3. QED
  BY <1>1, <1>2

\* The separation, with the set of the objects that are unmarked.
LEMMA SeparateStep ==
  ASSUME TInv, Separate
  PROVE  LET whites == {o \in Objects : White(o)}
             due == Range(list["tobefnz"]) \cup (Range(list["finobj"]) \cap whites)
         IN  /\ stage = "converge" /\ stage' = "finalize" /\ gray = {} /\ todo = {} /\ ~changed
             /\ Lists(list', Allocated)
             /\ Range(list'["allgc"]) = Range(list["allgc"])
             /\ Range(list'["finobj"]) = Range(list["finobj"]) \ whites
             /\ Range(list'["tobefnz"]) = due
             /\ due \subseteq Allocated
             /\ entries' = ByValues(entries, weak \cup allweak)
             /\ color' = Marked(WithStrings(weak \cup allweak), due)
             /\ gray' = NewGray(due)
             /\ orig' = [weak |-> weak, allweak |-> allweak]
             /\ UNCHANGED <<kind, sweepgc, full, doomed, gcstate, grayagain, weak, allweak, ephemeron, todo, changed>>
<1>1. PICK whites : whites = {o \in Objects : White(o)}
  OBVIOUS
<1>2. PICK u : u = list["tobefnz"] \o Only(list["finobj"], whites)
  OBVIOUS
<1>3. /\ stage = "converge" /\ stage' = "finalize" /\ gray = {} /\ todo = {} /\ ~changed
      /\ list' = [list EXCEPT !["finobj"] = Only(list["finobj"], Objects \ whites), !["tobefnz"] = u]
      /\ entries' = ByValues(entries, weak \cup allweak)
      /\ color' = Marked(WithStrings(weak \cup allweak), Range(u))
      /\ gray' = NewGray(Range(u))
      /\ orig' = [weak |-> weak, allweak |-> allweak]
      /\ UNCHANGED <<kind, sweepgc, full, doomed, gcstate, grayagain, weak, allweak, ephemeron, todo, changed>>
  BY <1>1, <1>2 DEF Separate, Converged, At, outsideAtomic
<1>4. /\ Lists(list', Allocated)
      /\ Range(list'["allgc"]) = Range(list["allgc"])
      /\ Range(list'["finobj"]) = Range(list["finobj"]) \ whites
      /\ Range(list'["tobefnz"]) = Range(list["tobefnz"]) \cup (Range(list["finobj"]) \cap whites)
  <2>1. whites \in SUBSET Objects /\ Lists(list, Allocated)
    BY <1>1 DEF TInv
  <2>2. list' = Separated(list, whites)
    BY <1>2, <1>3 DEF Separated
  <2>3. QED
    BY <2>1, <2>2, SeparateIs
<1>5. list'["tobefnz"] = u
  BY <1>3 DEF TInv, Lists, Names
<1>6. Range(u) = Range(list["tobefnz"]) \cup (Range(list["finobj"]) \cap whites)
  BY <1>4, <1>5
<1>7. Range(u) \subseteq Allocated
  BY <1>4, <1>5, ListIs DEF Lists, Names
<1>8. QED
  BY <1>1, <1>3, <1>4, <1>6, <1>7

LEMMA SeparateT ==
  ASSUME TInv, Separate
  PROVE  TInv'
<1>1. PICK due : /\ Lists(list', Allocated)
                 /\ due \subseteq Allocated
                 /\ entries' = ByValues(entries, weak \cup allweak)
                 /\ color' = Marked(WithStrings(weak \cup allweak), due)
                 /\ gray' = NewGray(due)
  BY SeparateStep
<1>2. /\ stage = "converge" /\ stage' = "finalize" /\ todo = {}
      /\ UNCHANGED <<kind, sweepgc, gcstate, grayagain, weak, allweak, ephemeron, todo, changed>>
  BY SeparateStep
<1>3. weak \cup allweak \in SUBSET Objects
  BY DEF TInv, StateType
<1>4. /\ WithStrings(weak \cup allweak) \in [Objects -> Colors]
      /\ \A o \in Objects : kind[o] = "free" => WithStrings(weak \cup allweak)[o] = color[o]
  BY <1>3, WithStringsIs
<1>5. color' \in [Objects -> Colors] /\ \A o \in Objects : kind[o] = "free" => color'[o] = color[o]
  BY <1>1, <1>4, MarkedIs DEF TInv, Allocated
<1>6. /\ entries' \in [Objects -> SUBSET ((Objects \cup {None}) \X Objects)]
      /\ \A o \in Objects : kind[o] \in {"free", "string"} => entries'[o] = {}
  <2>1. \A o \in Objects : entries'[o] \subseteq entries[o]
    BY <1>1, ClearedIs
  <2>2. entries' = [o \in Objects |-> entries'[o]]
    BY <1>1 DEF ByValues
  <2>3. QED
    BY <2>1, <2>2, FewerEntries
<1>7. ObjectType'
  BY <1>2, <1>5, <1>6 DEF TInv, ObjectType
<1>8. StateType'
  <2>1. gray' \subseteq Objects
    BY <1>1 DEF NewGray, Allocated
  <2>2. gcstate' = "atomic" /\ stage' # None
    BY <1>2 DEF TInv, StateType, None
  <2>3. QED
    BY <1>2, <2>1, <2>2 DEF TInv, StateType
<1>9. sweepgc' = None
  <2>1. gcstate = "atomic"
    BY <1>2 DEF TInv, StateType, None
  <2>2. QED
    BY <1>2, <2>1, NoAddress
<1>10. Address'
  BY <1>9 DEF Address
<1>11. Allocated' = Allocated
  BY <1>2 DEF Allocated
<1>12. QED
  BY <1>1, <1>7, <1>8, <1>10, <1>11 DEF TInv

\* The end of atomic, with the colours and entries the sweep begins with.
LEMMA FinishStep ==
  ASSUME TInv, FinishAtomic, ~White(main)
  PROVE  \E late, byKeys, col, ents, r :
           /\ late \in SUBSET Objects /\ byKeys \in SUBSET Objects
           /\ late = (weak \ orig.weak) \cup (allweak \ orig.allweak) /\ byKeys = ephemeron \cup allweak
           /\ col = Flipped(WithStrings(late \cup byKeys))
           /\ ents = ByValues(ByKeys(entries, byKeys), late)
           /\ Sweepable(col, ents) /\ SweepsBehind(list, "allgc", col, r) /\ Sweep(r, col, ents)
           /\ list' = Without(list, r.gone) /\ doomed' = doomed \ r.gone
<1>1. PICK late, byKeys, col, ents, r :
        /\ late = (weak \ orig.weak) \cup (allweak \ orig.allweak) /\ byKeys = ephemeron \cup allweak
        /\ col = Flipped(WithStrings(late \cup byKeys))
        /\ ents = ByValues(ByKeys(entries, byKeys), late)
        /\ r = SweepToLive("allgc", col)
  OBVIOUS
<1>2. Sweep(r, col, ents) /\ list' = Without(list, r.gone) /\ doomed' = doomed \ r.gone
  BY <1>1 DEF FinishAtomic
<1>3. late \in SUBSET Objects /\ byKeys \in SUBSET Objects
  BY <1>1 DEF TInv, StateType
<1>4. SweepsBehind(list, "allgc", col, r)
  <2>1. "allgc" \in Names \cup Allocated /\ Allocated \subseteq Objects
    BY DEF Names, Allocated
  <2>2. QED
    BY <1>1, <2>1, SweepToLiveIs DEF TInv
<1>5. Sweepable(col, ents)
  <2>1. late \cup byKeys \in SUBSET Objects
    BY <1>3
  <2>2. PICK w : w = WithStrings(late \cup byKeys)
    OBVIOUS
  <2>3. /\ w \in [Objects -> Colors]
        /\ \A o \in Objects : w[o] = color[o] \/ (kind[o] = "string" /\ w[o] = "black")
    BY <2>1, <2>2, WithStringsIs
  <2>4. col = [o \in Objects |-> IF w[o] = "white" /\ kind[o] # "free" THEN "dead" ELSE w[o]]
    BY <1>1, <2>2 DEF Flipped
  <2>5. col \in [Objects -> Colors]
    BY <2>3, <2>4 DEF Colors
  <2>6. col[main] # "dead"
    BY <2>3, <2>4, MainIs DEF White
  <2>7. \A o \in Objects : kind[o] = "free" => col[o] = "white"
    BY <2>3, <2>4 DEF TInv, ObjectType
  <2>8. PICK mid : mid = ByKeys(entries, byKeys)
    OBVIOUS
  <2>9. \A o \in Objects : mid[o] \subseteq entries[o]
    BY <2>8, ClearedIs
  <2>10. \A o \in Objects : ents[o] \subseteq mid[o]
    <3>1. ents = ByValues(mid, late)
      BY <1>1, <2>8
    <3>2. QED
      BY <3>1, ClearedIs
  <2>11. \A o \in Objects : ents[o] \subseteq entries[o]
    BY <2>9, <2>10
  <2>12. ents = [o \in Objects |-> ents[o]]
    BY <1>1 DEF ByValues
  <2>13. /\ ents \in [Objects -> SUBSET ((Objects \cup {None}) \X Objects)]
         /\ \A o \in Objects : kind[o] \in {"free", "string"} => ents[o] = {}
    BY <2>11, <2>12, FewerEntries
  <2>14. QED
    BY <2>5, <2>6, <2>7, <2>13 DEF Sweepable
<1>6. QED
  BY <1>1, <1>2, <1>3, <1>4, <1>5

LEMMA FinishAtomicT ==
  ASSUME TInv, FinishAtomic, ~White(main)
  PROVE  TInv'
<1>1. PICK col, ents, r :
           /\ Sweepable(col, ents) /\ SweepsBehind(list, "allgc", col, r) /\ Sweep(r, col, ents)
           /\ list' = Without(list, r.gone)
  BY FinishStep
<1>2. /\ gcstate' = "swpallgc" /\ stage' = None /\ todo = {}
      /\ UNCHANGED <<grayLists, todo, changed>>
  BY DEF FinishAtomic, Converged
<1>3. "allgc" \in Names \cup Allocated /\ "allgc" \in Names
  BY DEF Names
<1>4. StateType'
  BY <1>2 DEF TInv, StateType, grayLists
<1>5. <<gcstate', "allgc">> \in {<<"swpallgc", "allgc">>, <<"swpfinobj", "finobj">>, <<"swptobefnz", "tobefnz">>}
  BY <1>2
<1>6. QED
  BY <1>1, <1>3, <1>4, <1>5, SweepT

LEMMA EndSweepT ==
  ASSUME TInv, EndSweep
  PROVE  TInv'
<1>1. /\ sweepgc = None
      /\ \/ gcstate' = "swpfinobj" /\ sweepgc' = "finobj"
         \/ gcstate' = "swptobefnz" /\ sweepgc' = "tobefnz"
         \/ gcstate' \in {"swpend", "callfin"} /\ sweepgc' = None
      /\ gcstate \in {"swpallgc", "swpfinobj", "swptobefnz", "swpend"}
      /\ UNCHANGED <<kind, entries, color, list, grayLists, atomicVars>>
  BY DEF EndSweep, NextSweep
<1>2. ObjectType' /\ Allocated' = Allocated
  BY <1>1 DEF TInv, ObjectType, Allocated
<1>3. StateType'
  BY <1>1 DEF TInv, StateType, grayLists, atomicVars
<1>4. Address'
  BY <1>1 DEF Address, Names
<1>5. QED
  BY <1>1, <1>2, <1>3, <1>4 DEF TInv

LEMMA CallFinalizerT ==
  ASSUME TInv, CallFinalizer
  PROVE  /\ TInv'
         /\ \E o \in Range(list["tobefnz"]) :
              /\ entries' = Pushed(o)
              /\ Range(list'["finobj"]) = Range(list["finobj"])
              /\ Range(list'["tobefnz"]) = Range(list["tobefnz"]) \ {o}
<1>1. PICK o : o = Head(list["tobefnz"])
  OBVIOUS
<1>2. /\ gcstate = "callfin" /\ list["tobefnz"] # <<>> /\ entries' = Pushed(o)
      /\ list' = [list EXCEPT !["tobefnz"] = Tail(list["tobefnz"]), !["allgc"] = <<o>> \o list["allgc"]]
      /\ UNCHANGED <<kind, color, gcstate, grayLists, atomicVars, sweepgc>>
  BY <1>1 DEF CallFinalizer
<1>3. PICK w : w = [list EXCEPT !["tobefnz"] = Tail(list["tobefnz"])]
  OBVIOUS
<1>4. PICK A : A = Allocated \ {o}
  OBVIOUS
<1>5. /\ o \in Range(list["tobefnz"]) /\ o \in Objects /\ Lists(w, A)
      /\ \A m \in Names : Range(w[m]) = Range(list[m]) \ {o}
  <2>1. "tobefnz" \in Names /\ Lists(list, Allocated)
    BY DEF TInv, Names
  <2>2. QED
    BY <1>1, <1>2, <1>3, <1>4, <2>1, BeheadIs
<1>6. o \in Allocated
  BY <1>5 DEF TInv, Lists, Names
<1>7. list' = Prepended(w, "allgc", o)
  BY <1>2, <1>3 DEF Prepended, TInv, Lists, Names
<1>8. /\ Lists(list', A \cup {o})
      /\ \A m \in Names \ {"allgc"} : Range(list'[m]) = Range(w[m])
  <2>1. "allgc" \in Names /\ o \notin A
    BY <1>4 DEF Names
  <2>2. QED
    BY <1>5, <1>7, <2>1, PrependIs
<1>9. Allocated' = A \cup {o}
  BY <1>2, <1>4, <1>6 DEF Allocated
<1>10. ObjectType'
  BY <1>2, <1>5, MainIs, PushedIs DEF TInv, ObjectType
<1>11. StateType'
  BY <1>2 DEF TInv, StateType, grayLists, atomicVars
<1>12. Address'
  BY <1>2, NoAddress DEF Address
<1>13. o \notin Range(list["finobj"])
  BY <1>5 DEF TInv, Lists, Names
<1>14. Range(list'["finobj"]) = Range(list["finobj"]) /\ Range(list'["tobefnz"]) = Range(list["tobefnz"]) \ {o}
  BY <1>5, <1>8, <1>13 DEF Names
<1>15. QED
  BY <1>2, <1>5, <1>8, <1>9, <1>10, <1>11, <1>12, <1>14 DEF TInv

LEMMA EndCycleT ==
  ASSUME TInv, EndCycle
  PROVE  TInv'
<1>1. /\ gcstate = "callfin" /\ gcstate' = "pause"
      /\ UNCHANGED <<kind, entries, color, list, grayLists, atomicVars, sweepgc>>
  BY DEF EndCycle
<1>2. StateType'
  BY <1>1 DEF TInv, StateType, grayLists, atomicVars
<1>3. QED
  BY <1>1, <1>2, GrayT, NoAddress

LEMMA InitT == Init => TInv
<1> SUFFICES ASSUME Init PROVE TInv
  OBVIOUS
<1>1. main \in Objects
  BY CollectorAssumption
<1>2. ObjectType
  <2>1. \A o \in Objects : kind[o] = IF o = main THEN "main" ELSE "free"
    BY DEF Init
  <2>2. kind \in [Objects -> Kinds \cup {"free", "main"}]
    BY DEF Init
  <2>3. \A o \in Objects : color[o] = "white" /\ entries[o] = {}
    BY DEF Init
  <2>4. /\ entries \in [Objects -> SUBSET ((Objects \cup {None}) \X Objects)]
        /\ color \in [Objects -> Colors]
    BY DEF Init, Colors
  <2>5. QED
    BY <2>1, <2>2, <2>3, <2>4 DEF ObjectType
<1>3. StateType
  BY DEF Init, StateType, None
<1>4. Allocated = {main}
  BY <1>1 DEF Init, Allocated
<1>5. Lists(list, {main})
  <2>1. list["allgc"] = <<main>> /\ list["finobj"] = <<>> /\ list["tobefnz"] = <<>>
    BY DEF Init
  <2>2. list \in [Names -> Seq(Objects)]
    <3>1. <<main>> \in Seq(Objects) /\ <<>> \in Seq(Objects)
      BY <1>1
    <3>2. list = [n \in Names |-> list[n]]
      BY DEF Init, Names
    <3>3. \A n \in Names : list[n] \in Seq(Objects)
      BY <2>1, <3>1 DEF Names
    <3>4. QED
      BY <3>2, <3>3
  <2>3. Range(<<main>>) = {main} /\ Range(<<>>) = {} /\ Distinct(<<main>>) /\ Distinct(<<>>)
    BY DEF Range, Distinct
  <2>4. \A n \in Names : Distinct(list[n])
    BY <2>1, <2>3 DEF Names
  <2>5. \A n \in Names : \A o \in Objects : o \in Range(list[n]) <=> n = "allgc" /\ o = main
    BY <2>1, <2>3 DEF Names
  <2>6. "allgc" \in Names
    BY DEF Names
  <2>7. QED
    BY <2>2, <2>4, <2>5, <2>6 DEF Lists
<1>6. Address
  BY DEF Init, Address
<1>7. QED
  BY <1>2, <1>3, <1>4, <1>5, <1>6 DEF TInv

-----------------------------------------------------------------------------
(* The inductive invariant.                                                *)

Live(o) == kind[o] # "free" /\ color[o] # "dead"
IsMarked(o) == color[o] \in {"gray", "black"}

\* What a live object holds is live, and so is what the program or a finalizer
\* will see; while objects are marked there are no dead ones.
AliveInv ==
  /\ \A o \in Objects : Live(o) => \A x \in Parts(o) : Live(x)
  /\ Live(main)
  /\ \A o \in Range(list["finobj"]) \cup Range(list["tobefnz"]) : Live(o)
  /\ KeepInvariant => \A o \in Objects : color[o] # "dead"

\* The sweep at the address p in the state gs will still come to o.
Unswept(gs, ls, p, o) ==
  \/ IsBehind(ls, p, o)
  \/ gs = "swpallgc" /\ o \in Range(ls["finobj"])
  \/ gs \in {"swpallgc", "swpfinobj"} /\ o \in Range(ls["tobefnz"])

\* What the sweep has passed is white.
SweptInv ==
  ~KeepInvariant => \A o \in Objects : color[o] # "white" => Unswept(gcstate, list, sweepgc, o)

\* A black object holds marked objects only, its entries in weak tables too;
\* what may hold others never is black.
BlackInv ==
  KeepInvariant => \A o \in Objects : color[o] = "black" =>
    /\ \A x \in Parts(o) : IsMarked(x)
    /\ kind[o] \notin {"weak", "allweak"}
    /\ stage = None => kind[o] \notin {"thread", "main", "ephemeron"}

InLists == gray \cup grayagain \cup weak \cup allweak \cup ephemeron \cup todo

\* The gray lists have all gray objects, and marked ones only.
GrayInv ==
  KeepInvariant => /\ \A o \in Objects : color[o] = "gray" => o \in InLists
                   /\ \A o \in InLists : IsMarked(o) /\ kind[o] # "free"
                   /\ \A o \in Range(list["tobefnz"]) : IsMarked(o)

\* Before atomic only tables with weak keys and values are in lists of their own.
EarlyInv ==
  KeepInvariant /\ stage = None =>
    weak = {} /\ ephemeron = {} /\ \A o \in allweak : kind[o] = "allweak"

\* What is known in atomic of the tables in each list.
TableInv ==
  stage # None =>
    /\ IsMarked(main)
    /\ stage \in {"finalize", "reconverge"} =>
         /\ \A o \in Range(list["finobj"]) : IsMarked(o)
         /\ \A o \in orig.weak \cup orig.allweak : o \in Objects /\ \A x \in Values(o) : IsMarked(x)
    /\ \A o \in grayagain : kind[o] = "weak" /\ \A x \in Parts(o) : IsMarked(x)
    /\ \A o \in weak : kind[o] = "weak" /\ \A x \in Keys(o) : IsMarked(x)
    /\ \A o \in allweak : /\ kind[o] \in {"allweak", "ephemeron"}
                          /\ kind[o] = "ephemeron" => \A x \in Values(o) : IsMarked(x)
    /\ \A o \in ephemeron : kind[o] = "ephemeron"

\* A round that changes nothing leaves ephemeron tables with marked values for
\* all marked keys.
RoundInv ==
  stage \in {"converge", "reconverge"} =>
    /\ \A o \in todo : kind[o] = "ephemeron"
    /\ ~changed => /\ gray = {}
                   /\ \A o \in ephemeron : \A e \in entries[o] :
                        e[1] = None \/ ~Cleared(e[1]) => IsMarked(e[2])

\* What could not be reached when the cycle began is not marked, and nothing
\* else refers to it; when marking is over, it is dead.
DoomInv ==
  /\ doomed \subseteq Objects
  /\ ~KeepInvariant => \A o \in doomed : color[o] = "dead"
  /\ KeepInvariant => /\ \A o \in doomed : color[o] = "white" /\ kind[o] # "free"
                      /\ \A o \in {main} \cup Range(list["finobj"]) \cup Range(list["tobefnz"]) : o \notin doomed
                      /\ \A o \in Objects \ doomed : \A x \in Parts(o) : x \notin doomed

MarkInv == BlackInv /\ GrayInv /\ EarlyInv
AtomicInv == TableInv /\ RoundInv
IInv == TInv /\ AliveInv /\ SweptInv /\ MarkInv /\ AtomicInv /\ DoomInv

\* A marked object is one that is not white, of either white.
LEMMA MarkedNotWhite ==
  ASSUME ObjectType, NEW o \in Objects
  PROVE  /\ IsMarked(o) <=> ~White(o)
         /\ IsMarked(o) <=> color[o] # "white" /\ color[o] # "dead"
         /\ Cleared(o) <=> ~IsMarked(o) /\ kind[o] # "string"
BY DEF ObjectType, Colors, IsMarked, White, Cleared

\* The state says whether objects are being marked.
LEMMA Phases ==
  ASSUME StateType
  PROVE  /\ stage # None => KeepInvariant /\ gcstate = "atomic"
         /\ KeepInvariant /\ stage = None => gcstate \in {"propagate", "enteratomic"}
         /\ None \notin {"roots", "again", "converge", "finalize", "reconverge"}
BY DEF StateType, KeepInvariant, None

LEMMA NothingBehind ==
  ASSUME NEW ls, NEW A, Lists(ls, A), NEW o
  PROVE  ~IsBehind(ls, None, o)
<1> SUFFICES ASSUME IsBehind(ls, None, o) PROVE FALSE
  OBVIOUS
<1>1. None \notin Names /\ None \notin Objects
  BY NoName DEF None
<1>2. PICK n \in Names : After(ls[n], None, o)
  BY <1>1 DEF IsBehind
<1>3. ls[n] \in Seq(Objects)
  BY DEF Lists
<1>4. None \in Range(ls[n]) /\ Range(ls[n]) \subseteq Objects
  BY <1>2, <1>3, AfterIn, RangeIs
<1>5. QED
  BY <1>1, <1>4

\* When the sweep is over, everything is white.
LEMMA AllWhite ==
  ASSUME IInv, gcstate \in {"swpend", "callfin", "pause"}
  PROVE  \A o \in Objects : color[o] = "white"
<1>1. sweepgc = None
  BY NoAddress DEF IInv
<1>2. \A o \in Objects : ~IsBehind(list, None, o)
  BY NothingBehind DEF IInv, TInv
<1>3. \A o \in Objects : ~Unswept(gcstate, list, sweepgc, o)
  BY <1>1, <1>2 DEF Unswept
<1>4. ~KeepInvariant
  BY DEF KeepInvariant
<1>5. QED
  BY <1>3, <1>4 DEF IInv, SweptInv

\* What the program has on its stack
LEMMA StackIs ==
  ASSUME IInv, NEW x \in Stack
  PROVE  x \in Objects /\ Live(x) /\ (KeepInvariant => x \notin doomed)
<1>1. x \in Parts(main) /\ main \in Objects /\ x \in Objects
  BY MainIs DEF IInv
<1>2. Live(x)
  BY <1>1 DEF IInv, AliveInv
<1>3. KeepInvariant => x \notin doomed
  BY <1>1 DEF IInv, DoomInv
<1>4. QED
  BY <1>1, <1>2, <1>3

\* Steps of the program that may put what is live on the stack, and may take
\* entries out of objects
LEMMA PushI ==
  ASSUME IInv, TInv', stage = None, UNCHANGED <<kind, color, gcstate, grayLists, atomicVars, sweepgc, doomed>>,
         list' = list \/ gcstate = "callfin",
         Range(list'["finobj"]) = Range(list["finobj"]), Range(list'["tobefnz"]) \subseteq Range(list["tobefnz"]),
         \A o \in Objects \ {main} : Members(entries'[o]) \subseteq Members(entries[o]),
         NEW S, Members(entries'[main]) \subseteq Members(entries[main]) \cup S,
         \A x \in S : Live(x) /\ (KeepInvariant => x \notin doomed)
  PROVE  IInv'
<1>1. main \in Objects /\ kind[main] = "main" /\ ObjectType /\ StateType
  BY MainIs DEF IInv, TInv
<1>2. \A o \in Objects : IsMarked(o)' <=> IsMarked(o)
  BY DEF IsMarked
<1>3. \A o \in Objects : Live(o)' <=> Live(o)
  BY DEF Live
<1>4. KeepInvariant' <=> KeepInvariant
  BY DEF KeepInvariant
<1>5. AliveInv'
  <2>1. \A o \in Objects : Live(o)' => \A x \in Members(entries'[o]) : Live(x)
    BY <1>1, <1>3 DEF IInv, AliveInv, Parts
  <2>2. \A o \in Objects : Live(o)' => \A x \in Parts(o)' : Live(x)'
    BY <2>1 DEF Parts, Live
  <2>3. Live(main)'
    BY <1>3, <1>1 DEF IInv, AliveInv
  <2>4. \A o \in Range(list'["finobj"]) \cup Range(list'["tobefnz"]) : Live(o)
    BY DEF IInv, AliveInv
  <2>5. \A o \in Range(list'["finobj"]) \cup Range(list'["tobefnz"]) : Live(o)'
    BY <2>4 DEF Live
  <2>6. KeepInvariant' => \A o \in Objects : color'[o] # "dead"
    BY <1>4 DEF IInv, AliveInv
  <2>7. QED
    BY <2>2, <2>3, <2>5, <2>6 DEF AliveInv
<1>6. SweptInv'
  <2>1. CASE list' = list
    BY <2>1, <1>4 DEF IInv, SweptInv, Unswept
  <2>2. CASE gcstate = "callfin"
    <3>1. \A o \in Objects : color'[o] = "white"
      BY <2>2, AllWhite
    <3>2. QED
      BY <3>1 DEF SweptInv
  <2>3. QED
    BY <2>1, <2>2
<1>7. BlackInv'
  <2> SUFFICES ASSUME KeepInvariant', NEW o \in Objects, color'[o] = "black"
               PROVE  /\ \A x \in Parts(o)' : IsMarked(x)'
                      /\ kind'[o] \notin {"weak", "allweak"}
                      /\ stage' = None => kind'[o] \notin {"thread", "main", "ephemeron"}
    BY DEF BlackInv
  <2>1. /\ \A x \in Parts(o) : IsMarked(x)
        /\ kind[o] \notin {"weak", "allweak", "thread", "main", "ephemeron"}
    BY <1>4 DEF IInv, MarkInv, BlackInv
  <2>2. o # main
    BY <1>1, <2>1
  <2>3. Parts(o)' \subseteq Parts(o)
    BY <2>2 DEF Parts
  <2>4. \A x \in Parts(o)' : IsMarked(x)'
    BY <2>1, <2>3 DEF IsMarked
  <2>5. QED
    BY <2>1, <2>4
<1>8. GrayInv'
  BY <1>4 DEF IInv, MarkInv, GrayInv, IsMarked, InLists, grayLists, atomicVars
<1>9. EarlyInv'
  BY <1>4 DEF IInv, MarkInv, EarlyInv, grayLists, atomicVars
<1>10. AtomicInv'
  <2>1. stage' = None /\ stage' \notin {"converge", "reconverge"}
    BY <1>1, Phases DEF atomicVars
  <2>2. QED
    BY <2>1 DEF AtomicInv, TableInv, RoundInv
<1>11. DoomInv'
  <2>1. CASE ~KeepInvariant
    BY <2>1, <1>4 DEF IInv, DoomInv
  <2>2. CASE KeepInvariant
    <3>1. \A o \in Objects \ doomed : \A x \in Members(entries'[o]) : x \notin doomed
      BY <2>2, <1>1 DEF IInv, DoomInv, Parts
    <3>2. \A o \in Objects \ doomed : \A x \in Parts(o)' : x \notin doomed
      BY <3>1 DEF Parts
    <3>3. QED
      BY <2>2, <3>2, <1>4 DEF IInv, DoomInv
  <2>3. QED
    BY <2>1, <2>2
<1>12. QED
  BY <1>5, <1>6, <1>7, <1>8, <1>9, <1>10, <1>11 DEF IInv, MarkInv

LEMMA DropI ==
  ASSUME IInv, NEW x \in Objects, Drop(x)
  PROVE  IInv'
<1>1. /\ stage = None /\ entries' = [entries EXCEPT ![main] = @ \ {<<None, x>>}]
      /\ UNCHANGED <<kind, color, list, gcstate, grayLists, atomicVars, sweepgc, doomed>>
  BY DEF Drop, Running
<1>2. TInv'
  BY DropT DEF IInv
<1>3. main \in Objects /\ entries' = [o \in Objects |-> entries'[o]] /\ \A o \in Objects : entries'[o] \subseteq entries[o]
  BY <1>1, MainIs DEF IInv, TInv, ObjectType
<1>4. \A o \in Objects : Members(entries'[o]) \subseteq Members(entries[o])
  BY <1>3, MembersIs
<1> PICK S : S = {}
  OBVIOUS
<1>5. Members(entries'[main]) \subseteq Members(entries[main]) \cup S
  BY <1>3, <1>4
<1>6. \A o \in Objects \ {main} : Members(entries'[o]) \subseteq Members(entries[o])
  BY <1>4
<1>7. /\ list' = list \/ gcstate = "callfin"
      /\ Range(list'["finobj"]) = Range(list["finobj"]) /\ Range(list'["tobefnz"]) \subseteq Range(list["tobefnz"])
  BY <1>1
<1>8. \A y \in S : Live(y) /\ (KeepInvariant => y \notin doomed)
  OBVIOUS
<1>9. QED
  BY <1>1, <1>2, <1>5, <1>6, <1>7, <1>8, PushI

LEMMA EraseI ==
  ASSUME IInv, NEW c \in Objects, NEW e \in entries[c], Erase(c, e)
  PROVE  IInv'
<1>1. /\ stage = None /\ entries' = [entries EXCEPT ![c] = @ \ {e}]
      /\ UNCHANGED <<kind, color, list, gcstate, grayLists, atomicVars, sweepgc, doomed>>
  BY DEF Erase, Running
<1>2. TInv'
  BY EraseT DEF IInv
<1>3. main \in Objects /\ \A o \in Objects : entries'[o] \subseteq entries[o]
  BY <1>1, MainIs DEF IInv, TInv, ObjectType
<1>4. \A o \in Objects : Members(entries'[o]) \subseteq Members(entries[o])
  BY <1>3, MembersIs
<1> PICK S : S = {}
  OBVIOUS
<1>5. Members(entries'[main]) \subseteq Members(entries[main]) \cup S
  BY <1>3, <1>4
<1>6. \A o \in Objects \ {main} : Members(entries'[o]) \subseteq Members(entries[o])
  BY <1>4
<1>7. /\ list' = list \/ gcstate = "callfin"
      /\ Range(list'["finobj"]) = Range(list["finobj"]) /\ Range(list'["tobefnz"]) \subseteq Range(list["tobefnz"])
  BY <1>1
<1>8. \A y \in S : Live(y) /\ (KeepInvariant => y \notin doomed)
  OBVIOUS
<1>9. QED
  BY <1>1, <1>2, <1>5, <1>6, <1>7, <1>8, PushI

LEMMA LoadI ==
  ASSUME IInv, NEW c \in Objects, NEW x \in Objects, Load(c, x)
  PROVE  IInv'
<1>1. /\ stage = None /\ entries' = Pushed(x) /\ c \in Stack /\ x \in Parts(c)
      /\ UNCHANGED <<kind, color, list, gcstate, grayLists, atomicVars, sweepgc, doomed>>
  BY PartsAre DEF Load, Running
<1>2. TInv'
  BY LoadT DEF IInv
<1>3. Live(c) /\ (KeepInvariant => c \notin doomed)
  BY <1>1, StackIs
<1>4. Live(x) /\ (KeepInvariant => x \notin doomed)
  BY <1>1, <1>3 DEF IInv, AliveInv, DoomInv
<1>5. /\ Members(entries'[main]) = Members(entries[main]) \cup {x}
      /\ \A o \in Objects \ {main} : entries'[o] = entries[o]
  BY <1>1, PushedIs DEF IInv, TInv
<1>6. \A o \in Objects \ {main} : Members(entries'[o]) \subseteq Members(entries[o])
  BY <1>5
<1>7. /\ list' = list \/ gcstate = "callfin"
      /\ Range(list'["finobj"]) = Range(list["finobj"]) /\ Range(list'["tobefnz"]) \subseteq Range(list["tobefnz"])
  BY <1>1
<1>8. \A y \in {x} : Live(y) /\ (KeepInvariant => y \notin doomed)
  BY <1>4
<1>9. Members(entries'[main]) \subseteq Members(entries[main]) \cup {x}
  BY <1>5
<1>10. QED
  BY <1>1, <1>2, <1>6, <1>7, <1>8, <1>9, PushI

LEMMA CallFinalizerI ==
  ASSUME IInv, CallFinalizer
  PROVE  IInv'
<1>1. /\ gcstate = "callfin"
      /\ UNCHANGED <<kind, color, gcstate, grayLists, atomicVars, sweepgc, doomed>>
  BY DEF CallFinalizer
<1>2. stage = None /\ ~KeepInvariant
  BY <1>1 DEF IInv, TInv, StateType, KeepInvariant
<1>3. PICK o \in Range(list["tobefnz"]) : /\ entries' = Pushed(o)
                                          /\ Range(list'["finobj"]) = Range(list["finobj"])
                                          /\ Range(list'["tobefnz"]) = Range(list["tobefnz"]) \ {o}
  BY CallFinalizerT DEF IInv
<1>4. TInv'
  BY CallFinalizerT DEF IInv
<1>5. Live(o) /\ o \in Objects
  <2>1. Live(o)
    BY DEF IInv, AliveInv
  <2>2. o \in Objects
    BY ListIs DEF IInv, TInv, Names
  <2>3. QED
    BY <2>1, <2>2
<1>6. /\ Members(entries'[main]) = Members(entries[main]) \cup {o}
      /\ \A x \in Objects \ {main} : entries'[x] = entries[x]
  BY <1>3, <1>5, PushedIs DEF IInv, TInv
<1>7. Range(list'["tobefnz"]) \subseteq Range(list["tobefnz"])
  BY <1>3
<1>8. QED
  BY <1>1, <1>2, <1>3, <1>4, <1>5, <1>6, <1>7, PushI

LEMMA NewI ==
  ASSUME IInv, NEW o \in Objects, NEW k \in Kinds, New(o, k)
  PROVE  IInv'
<1>1. /\ stage = None /\ kind[o] = "free" /\ entries' = Pushed(o)
      /\ kind' = [kind EXCEPT ![o] = k] /\ color' = [color EXCEPT ![o] = "white"]
      /\ list' = [list EXCEPT !["allgc"] = <<o>> \o list["allgc"]]
      /\ UNCHANGED <<gcstate, grayLists, atomicVars, sweepgc, doomed>>
  BY DEF New, Running
<1>2. main \in Objects /\ kind[main] = "main" /\ ObjectType /\ StateType /\ o # main
  BY <1>1, MainIs DEF IInv, TInv
<1>3. TInv'
  BY NewT DEF IInv
<1>4. color[o] = "white" /\ entries[o] = {} /\ color' = color
  BY <1>1, <1>2 DEF ObjectType
<1>5. /\ \A x \in Objects \ {o} : kind'[x] = kind[x]
      /\ kind'[o] = k /\ k # "free"
  <2>1. k # "free"
    BY CollectorAssumption
  <2>2. QED
    BY <1>1, <1>2, <2>1 DEF ObjectType
<1>6. /\ Members(entries'[main]) = Members(entries[main]) \cup {o}
      /\ \A x \in Objects \ {main} : entries'[x] = entries[x]
  BY <1>1, <1>2, PushedIs
<1>7. Members(entries'[o]) = {}
  BY <1>2, <1>4, <1>6 DEF Members
<1>8. \A x \in Objects : Live(x)' <=> Live(x) \/ x = o
  BY <1>4, <1>5 DEF Live
<1>9. KeepInvariant' <=> KeepInvariant
  BY <1>1 DEF KeepInvariant
<1>10. /\ \A n \in Names \ {"allgc"} : Range(list'[n]) = Range(list[n])
       /\ \A p, x : IsBehind(list, p, x) => IsBehind(list', p, x)
       /\ "finobj" \in Names \ {"allgc"} /\ "tobefnz" \in Names \ {"allgc"}
  <2>1. o \notin Allocated /\ "allgc" \in Names
    BY <1>1 DEF Allocated, Names
  <2>2. list' = Prepended(list, "allgc", o)
    BY <1>1 DEF Prepended
  <2>3. Lists(list, Allocated)
    BY DEF IInv, TInv
  <2>4. \A n \in Names \ {"allgc"} : Range(list'[n]) = Range(list[n])
    BY <1>1, <2>3 DEF Lists
  <2>5. \A p, x : IsBehind(list, p, x) => IsBehind(list', p, x)
    BY <2>1, <2>2, <2>3, PrependIs
  <2>6. QED
    BY <2>4, <2>5 DEF Names
<1>11. AliveInv'
  <2>1. \A x \in Objects : Live(x)' => \A y \in Members(entries'[x]) : y \in Objects /\ (Live(y) \/ y = o)
    <3> SUFFICES ASSUME NEW x \in Objects, Live(x)', NEW y \in Members(entries'[x])
                 PROVE  y \in Objects /\ (Live(y) \/ y = o)
      OBVIOUS
    <3>1. CASE x = o
      BY <3>1, <1>7
    <3>2. CASE x # o
      <4>1. Live(x)
        BY <3>2, <1>8
      <4>2. y = o \/ y \in Parts(x)
        BY <1>6 DEF Parts
      <4>3. QED
        BY <4>1, <4>2, <1>2, PartsType DEF IInv, AliveInv
    <3>3. QED
      BY <3>1, <3>2
  <2>2. \A x \in Objects : Live(x)' => \A y \in Parts(x)' : Live(y)'
    BY <2>1, <1>8 DEF Parts
  <2>3. Live(main)'
    BY <1>8, <1>2 DEF IInv, AliveInv
  <2>4. \A x \in Range(list'["finobj"]) \cup Range(list'["tobefnz"]) : x \in Objects /\ Live(x)
    BY <1>10, ListIs DEF IInv, TInv, AliveInv, Names
  <2>5. \A x \in Range(list'["finobj"]) \cup Range(list'["tobefnz"]) : Live(x)'
    BY <2>4, <1>8
  <2>6. KeepInvariant' => \A x \in Objects : color'[x] # "dead"
    BY <1>9, <1>4 DEF IInv, AliveInv
  <2>7. QED
    BY <2>2, <2>3, <2>5, <2>6 DEF AliveInv
<1>12. SweptInv'
  BY <1>1, <1>4, <1>9, <1>10 DEF IInv, SweptInv, Unswept
<1>13. BlackInv'
  <2> SUFFICES ASSUME KeepInvariant', NEW x \in Objects, color'[x] = "black"
               PROVE  /\ \A y \in Parts(x)' : IsMarked(y)'
                      /\ kind'[x] \notin {"weak", "allweak"}
                      /\ stage' = None => kind'[x] \notin {"thread", "main", "ephemeron"}
    BY DEF BlackInv
  <2>1. /\ \A y \in Parts(x) : IsMarked(y)
        /\ kind[x] \notin {"weak", "allweak", "thread", "main", "ephemeron"}
    BY <1>1, <1>4, <1>9 DEF IInv, MarkInv, BlackInv
  <2>2. x # main /\ x # o
    BY <1>2, <1>4, <2>1
  <2>3. Parts(x)' = Parts(x)
    BY <2>2, <1>6 DEF Parts
  <2>4. \A y \in Parts(x)' : IsMarked(y)'
    BY <2>1, <2>3, <1>4 DEF IsMarked
  <2>5. QED
    BY <2>1, <2>2, <2>4, <1>5
<1>14. GrayInv'
  <2>1. InLists' = InLists /\ InLists \subseteq Objects
    BY <1>1, <1>2 DEF InLists, grayLists, atomicVars, StateType
  <2>2. \A x \in Objects : IsMarked(x)' <=> IsMarked(x)
    BY <1>4 DEF IsMarked
  <2>3. \A x \in InLists : KeepInvariant => kind'[x] # "free"
    BY <2>1, <1>5 DEF IInv, MarkInv, GrayInv
  <2>4. Range(list["tobefnz"]) \subseteq Objects
    BY ListIs DEF IInv, TInv, Names
  <2>5. QED
    BY <2>1, <2>2, <2>3, <2>4, <1>4, <1>9, <1>10 DEF IInv, MarkInv, GrayInv
<1>15. EarlyInv'
  <2>1. KeepInvariant => \A x \in allweak : kind[x] # "free" /\ x \in Objects
    BY <1>2 DEF IInv, MarkInv, GrayInv, InLists, StateType
  <2>2. KeepInvariant => \A x \in allweak : kind'[x] = kind[x]
    BY <2>1, <1>1, <1>5
  <2>3. QED
    BY <2>2, <1>1, <1>9 DEF IInv, MarkInv, EarlyInv, grayLists, atomicVars
<1>16. AtomicInv'
  <2>1. stage' = None /\ stage' \notin {"converge", "reconverge"}
    BY <1>1, <1>2, Phases DEF atomicVars
  <2>2. QED
    BY <2>1 DEF AtomicInv, TableInv, RoundInv
<1>17. DoomInv'
  <2>1. CASE ~KeepInvariant
    BY <2>1, <1>1, <1>4, <1>9 DEF IInv, DoomInv
  <2>2. CASE KeepInvariant
    <3>1. o \notin doomed
      BY <2>2, <1>1 DEF IInv, DoomInv
    <3>2. \A x \in Objects \ doomed : \A y \in Members(entries'[x]) : y \notin doomed
      BY <2>2, <3>1, <1>2, <1>6 DEF IInv, DoomInv, Parts
    <3>3. \A x \in Objects \ doomed : \A y \in Parts(x)' : y \notin doomed
      BY <3>2 DEF Parts
    <3>4. \A x \in doomed : color'[x] = "white" /\ kind'[x] # "free"
      BY <2>2, <3>1, <1>4, <1>5 DEF IInv, DoomInv
    <3>5. QED
      BY <2>2, <3>3, <3>4, <1>1, <1>9, <1>10 DEF IInv, DoomInv
  <2>3. QED
    BY <2>1, <2>2
<1>18. QED
  BY <1>3, <1>11, <1>12, <1>13, <1>14, <1>15, <1>16, <1>17 DEF IInv, MarkInv

\* What a store puts in c is marked if c stays black.
LEMMA StoreShades ==
  ASSUME IInv, "map" \notin Kinds,
         NEW c \in Objects, NEW v \in Objects, NEW k \in Objects \cup {None}, Store(c, k, v)
  PROVE  \E S \in SUBSET Objects :
           /\ \A x \in S : Live(x) /\ (KeepInvariant => x \notin doomed)
           /\ Members(entries'[c]) \subseteq Members(entries[c]) \cup S
           /\ \/ /\ UNCHANGED <<color, gray, grayagain>>
                 /\ KeepInvariant /\ color[c] = "black" => \A x \in S : IsMarked(x)
              \/ /\ color[c] = "black" /\ color' = [color EXCEPT ![c] = "gray"]
                 /\ grayagain' = grayagain \cup {c} /\ UNCHANGED gray
              \/ /\ color[c] = "black" /\ KeepInvariant /\ color' = Marked(color, S)
                 /\ gray' = gray \cup NewGray(S) /\ UNCHANGED grayagain
              \/ /\ color[c] = "black" /\ ~KeepInvariant
                 /\ color' = [color EXCEPT ![c] = "white"] /\ UNCHANGED <<gray, grayagain>>
<1>1. PICK S : S = {k, v} \ {None}
  OBVIOUS
<1>2. /\ Running /\ c \in Stack /\ v \in Stack /\ k \in Stack \cup {None}
      /\ kind[c] \notin {"string", "main"}
      /\ Members(entries'[c]) \subseteq Members(entries[c]) \cup S
  BY <1>1, StoreIs DEF IInv
<1>3. PICK fresh \in BOOLEAN : Shade(c, S, Barrier(c, fresh))
  <2>1. \E fresh \in BOOLEAN : Shade(c, {k, v} \ {None}, Barrier(c, fresh))
    BY StoreIs DEF IInv
  <2>2. QED
    BY <1>1, <2>1
<1>4. S \in SUBSET Objects
  BY <1>1
<1>5. \A x \in S : Live(x) /\ (KeepInvariant => x \notin doomed)
  BY <1>1, <1>2, StackIs
<1>6. Live(c)
  BY <1>2, StackIs
<1>7. ASSUME NEW how, how = Barrier(c, fresh), how = None
      PROVE  kind[c] = "thread"
  <2>1. kind[c] \in Kinds /\ kind[c] # "map"
    BY <1>2, <1>6, <1>7 DEF IInv, TInv, ObjectType, Live
  <2>2. kind[c] \in {"table", "closure", "thread", "weak", "ephemeron", "allweak"}
    BY <1>2, <2>1, CollectorAssumption
  <2>3. QED
    BY <1>7, <2>2 DEF Barrier, None
<1>8. PICK how : how = Barrier(c, fresh)
  OBVIOUS
<1>9. KeepInvariant /\ color[c] = "black" => kind[c] # "thread"
  <2>1. stage = None
    BY <1>2 DEF Running
  <2>2. QED
    BY <2>1 DEF IInv, MarkInv, BlackInv
<1>10. \A x \in S : ~White(x) => IsMarked(x)
  BY <1>4, MarkedNotWhite DEF IInv, TInv
<1>11. \/ /\ UNCHANGED <<color, gray, grayagain>>
          /\ color[c] # "black" \/ how = None \/ \A x \in S : ~White(x)
       \/ /\ color[c] = "black" /\ how = "back"
          /\ color' = [color EXCEPT ![c] = "gray"]
          /\ grayagain' = grayagain \cup {c} /\ UNCHANGED gray
       \/ /\ color[c] = "black" /\ how \notin {None, "back"} /\ KeepInvariant
          /\ color' = Marked(color, S)
          /\ gray' = gray \cup NewGray(S) /\ UNCHANGED grayagain
       \/ /\ color[c] = "black" /\ how \notin {None, "back"} /\ ~KeepInvariant
          /\ color' = [color EXCEPT ![c] = "white"] /\ UNCHANGED <<gray, grayagain>>
  <2>1. Shade(c, S, how)
    BY <1>3, <1>8
  <2>2. QED
    BY <1>4, <2>1, ShadeIs DEF IInv
<1>12. \/ /\ UNCHANGED <<color, gray, grayagain>>
          /\ KeepInvariant /\ color[c] = "black" => \A x \in S : IsMarked(x)
       \/ /\ color[c] = "black" /\ color' = [color EXCEPT ![c] = "gray"]
          /\ grayagain' = grayagain \cup {c} /\ UNCHANGED gray
       \/ /\ color[c] = "black" /\ KeepInvariant /\ color' = Marked(color, S)
          /\ gray' = gray \cup NewGray(S) /\ UNCHANGED grayagain
       \/ /\ color[c] = "black" /\ ~KeepInvariant
          /\ color' = [color EXCEPT ![c] = "white"] /\ UNCHANGED <<gray, grayagain>>
  <2>1. ASSUME KeepInvariant, color[c] = "black" PROVE how # None
    BY <1>7, <1>8, <1>9, <2>1
  <2>2. QED
    BY <1>10, <1>11, <2>1
<1>13. QED
  BY <1>2, <1>4, <1>5, <1>12

LEMMA StoreI ==
  ASSUME IInv, "map" \notin Kinds,
         NEW c \in Objects, NEW v \in Objects, NEW k \in Objects \cup {None}, Store(c, k, v)
  PROVE  IInv'
<1>1. /\ stage = None /\ c \in Stack /\ kind[c] \notin {"string", "main"}
      /\ \A o \in Objects \ {c} : entries'[o] = entries[o]
      /\ UNCHANGED <<kind, list, gcstate, weak, allweak, ephemeron, atomicVars, sweepgc, doomed>>
  BY StoreIs DEF IInv, Running
<1>2. PICK S \in SUBSET Objects :
           /\ \A x \in S : Live(x) /\ (KeepInvariant => x \notin doomed)
           /\ Members(entries'[c]) \subseteq Members(entries[c]) \cup S
           /\ \/ /\ UNCHANGED <<color, gray, grayagain>>
                 /\ KeepInvariant /\ color[c] = "black" => \A x \in S : IsMarked(x)
              \/ /\ color[c] = "black" /\ color' = [color EXCEPT ![c] = "gray"]
                 /\ grayagain' = grayagain \cup {c} /\ UNCHANGED gray
              \/ /\ color[c] = "black" /\ KeepInvariant /\ color' = Marked(color, S)
                 /\ gray' = gray \cup NewGray(S) /\ UNCHANGED grayagain
              \/ /\ color[c] = "black" /\ ~KeepInvariant
                 /\ color' = [color EXCEPT ![c] = "white"] /\ UNCHANGED <<gray, grayagain>>
  BY StoreShades
<1>3. main \in Objects /\ kind[main] = "main" /\ ObjectType /\ StateType /\ Live(c) /\ c # main
  BY <1>1, StackIs, MainIs DEF IInv, TInv
<1>4. TInv'
  <2>1. \A x \in Stack : kind[x] # "free"
    BY StackIs DEF Live
  <2>2. QED
    BY <2>1, StoreT DEF IInv
<1>5. KeepInvariant' <=> KeepInvariant
  BY <1>1 DEF KeepInvariant
<1>6. color \in [Objects -> Colors]
  BY <1>3 DEF ObjectType
<1>7. \A o \in Objects : /\ Live(o)' <=> Live(o)
                         /\ KeepInvariant => (IsMarked(o) => IsMarked(o)')
                         /\ color'[o] = color[o]
                            \/ (o = c /\ color[o] = "black" /\ color'[o] = "gray")
                            \/ (o = c /\ color[o] = "black" /\ color'[o] = "white" /\ ~KeepInvariant)
                            \/ (o \in S /\ White(o) /\ IsMarked(o)' /\ KeepInvariant)
  <2>1. CASE UNCHANGED <<color, gray, grayagain>>
    BY <1>1, <2>1 DEF Live, IsMarked
  <2>2. CASE color[c] = "black" /\ color' = [color EXCEPT ![c] = "gray"]
    BY <1>1, <1>6, <2>2 DEF Live, IsMarked
  <2>3. CASE KeepInvariant /\ color' = Marked(color, S)
    <3>1. \A o \in Objects : \/ color'[o] = color[o]
                             \/ /\ o \in S /\ White(o)
                                /\ color'[o] = IF kind[o] = "string" THEN "black" ELSE "gray"
      BY <1>3, <1>6, <2>3, MarkedIs
    <3>2. \A o \in Objects : color[o] # "dead"
      BY <2>3 DEF IInv, AliveInv
    <3>3. QED
      BY <1>1, <2>3, <3>1, <3>2 DEF Live, IsMarked, White
  <2>4. CASE color[c] = "black" /\ ~KeepInvariant /\ color' = [color EXCEPT ![c] = "white"]
    BY <1>1, <1>6, <2>4 DEF Live, IsMarked
  <2>5. QED
    BY <1>2, <2>1, <2>2, <2>3, <2>4
<1>8. \A o \in Objects : Parts(o)' \subseteq Parts(o) \cup (IF o = c THEN S ELSE {})
  BY <1>1, <1>2 DEF Parts
<1>9. \A o \in Objects : Parts(o) \subseteq Objects
  BY <1>3, PartsType
<1>10. AliveInv'
  <2>1. \A o \in Objects : Live(o)' => \A x \in Parts(o)' : Live(x)'
    <3> SUFFICES ASSUME NEW o \in Objects, Live(o)', NEW x \in Parts(o)'
                 PROVE  Live(x)'
      OBVIOUS
    <3>1. x \in Objects /\ Live(x)
      BY <1>2, <1>7, <1>8, <1>9 DEF IInv, AliveInv
    <3>2. QED
      BY <3>1, <1>7
  <2>2. Live(main)'
    BY <1>3, <1>7 DEF IInv, AliveInv
  <2>3. \A x \in Range(list["finobj"]) \cup Range(list["tobefnz"]) : x \in Objects /\ Live(x)
    BY ListIs DEF IInv, TInv, AliveInv, Names
  <2>4. \A x \in Range(list'["finobj"]) \cup Range(list'["tobefnz"]) : Live(x)'
    BY <2>3, <1>1, <1>7
  <2>5. KeepInvariant' => \A x \in Objects : color'[x] # "dead"
    BY <1>5, <1>7 DEF IInv, AliveInv, IsMarked
  <2>6. QED
    BY <2>1, <2>2, <2>4, <2>5 DEF AliveInv
<1>11. SweptInv'
  <2>1. ~KeepInvariant => \A o \in Objects : color'[o] # "white" => color[o] # "white"
    BY <1>7
  <2>2. QED
    BY <2>1, <1>1, <1>5 DEF IInv, SweptInv, Unswept
<1>12. BlackInv'
  <2> SUFFICES ASSUME KeepInvariant', NEW o \in Objects, color'[o] = "black"
               PROVE  /\ \A x \in Parts(o)' : IsMarked(x)'
                      /\ kind'[o] \notin {"weak", "allweak"}
                      /\ stage' = None => kind'[o] \notin {"thread", "main", "ephemeron"}
    BY DEF BlackInv
  <2>1. CASE color[o] = "black"
    <3>1. /\ \A x \in Parts(o) : IsMarked(x)
          /\ kind[o] \notin {"weak", "allweak", "thread", "main", "ephemeron"}
      BY <2>1, <1>1, <1>5 DEF IInv, MarkInv, BlackInv
    <3>2. ASSUME o = c PROVE \A x \in S : IsMarked(x)'
      <4>1. CASE UNCHANGED color /\ \A x \in S : IsMarked(x)
        BY <4>1 DEF IsMarked
      <4>2. CASE color' = [color EXCEPT ![c] = "gray"]
        BY <3>2, <4>2, <1>6
      <4>3. CASE color' = Marked(color, S)
        <5>1. \A x \in S : ~White(x) => IsMarked(x)
          BY <1>3, MarkedNotWhite
        <5>2. \A x \in S : (color'[x] = color[x] /\ ~White(x)) \/ color'[x] \in {"black", "gray"}
          BY <1>3, <1>6, <4>3, MarkedIs
        <5>3. QED
          BY <5>1, <5>2 DEF IsMarked
      <4>4. QED
        BY <1>2, <1>5, <2>1, <3>2, <4>1, <4>2, <4>3
    <3>3. \A x \in Parts(o)' : IsMarked(x)'
      <4>1. \A x \in Parts(o) : IsMarked(x)'
        BY <3>1, <1>5, <1>7, <1>9
      <4>2. QED
        BY <4>1, <3>2, <1>8
    <3>4. QED
      BY <3>1, <3>3, <1>1
  <2>2. CASE color[o] # "black"
    <3>1. o \in S /\ White(o) /\ color' = Marked(color, S)
      BY <1>2, <1>6, <2>2, MarkedIs, <1>3, <1>7
    <3>2. kind[o] = "string"
      BY <2>2, <3>1, <1>3, <1>6, MarkedIs
    <3>3. o # c
      BY <3>2, <1>1
    <3>4. entries[o] = {} /\ entries'[o] = {}
      BY <3>2, <3>3, <1>1, <1>3 DEF ObjectType
    <3>5. Parts(o)' = {}
      BY <3>4 DEF Parts, Members
    <3>6. QED
      BY <3>2, <3>5, <1>1
  <2>3. QED
    BY <2>1, <2>2
<1>13. GrayInv'
  <2> SUFFICES ASSUME KeepInvariant PROVE GrayInv'
    BY <1>5 DEF GrayInv
  <2>1. InLists \subseteq Objects /\ Range(list["tobefnz"]) \subseteq Objects
    BY <1>3, ListIs DEF InLists, StateType, IInv, TInv, Names
  <2>2. \A o \in Objects : color[o] = "gray" => o \in InLists
    BY DEF IInv, MarkInv, GrayInv
  <2>3. \A o \in InLists : IsMarked(o) /\ kind[o] # "free"
    BY DEF IInv, MarkInv, GrayInv
  <2>4. \A o \in Range(list'["tobefnz"]) : IsMarked(o)'
    BY <1>1, <1>7, <2>1 DEF IInv, MarkInv, GrayInv
  <2>5. CASE UNCHANGED <<color, gray, grayagain>>
    <3>1. InLists' = InLists
      BY <1>1, <2>5 DEF InLists, atomicVars
    <3>2. \A o \in InLists : IsMarked(o)' /\ kind'[o] # "free"
      BY <1>1, <2>3, <2>5 DEF IsMarked
    <3>3. QED
      BY <3>1, <3>2, <2>2, <2>4, <2>5 DEF GrayInv
  <2>6. CASE color[c] = "black" /\ color' = [color EXCEPT ![c] = "gray"] /\ grayagain' = grayagain \cup {c} /\ UNCHANGED gray
    <3>1. InLists' = InLists \cup {c}
      BY <1>1, <2>6 DEF InLists, atomicVars
    <3>2. \A o \in InLists \cup {c} : IsMarked(o)' /\ kind'[o] # "free"
      BY <1>1, <1>3, <1>6, <2>1, <2>3, <2>6 DEF IsMarked, Live
    <3>3. \A o \in Objects : color'[o] = "gray" => o \in InLists \cup {c}
      BY <1>6, <2>2, <2>6
    <3>4. QED
      BY <3>1, <3>2, <3>3, <2>4 DEF GrayInv
  <2>7. CASE color' = Marked(color, S) /\ gray' = gray \cup NewGray(S) /\ UNCHANGED grayagain
    <3>1. InLists' = InLists \cup NewGray(S)
      BY <1>1, <2>7 DEF InLists, atomicVars
    <3>2. \A o \in Objects : \/ color'[o] = color[o] /\ (o \notin S \/ ~White(o))
                             \/ /\ o \in S /\ White(o)
                                /\ color'[o] = IF kind[o] = "string" THEN "black" ELSE "gray"
      BY <1>3, <1>6, <2>7, MarkedIs
    <3>3. \A o \in InLists \cup NewGray(S) : IsMarked(o)' /\ kind'[o] # "free"
      BY <1>1, <1>2, <1>7, <2>1, <2>3, <3>2 DEF NewGray, IsMarked, Live
    <3>4. \A o \in Objects : color'[o] = "gray" => o \in InLists \cup NewGray(S)
      BY <2>2, <3>2 DEF NewGray
    <3>5. QED
      BY <3>1, <3>3, <3>4, <2>4 DEF GrayInv
  <2>8. QED
    BY <1>2, <2>5, <2>6, <2>7
<1>14. EarlyInv'
  BY <1>1, <1>5 DEF IInv, MarkInv, EarlyInv, atomicVars
<1>15. AtomicInv'
  <2>1. stage' = None /\ stage' \notin {"converge", "reconverge"}
    BY <1>1, <1>3, Phases DEF atomicVars
  <2>2. QED
    BY <2>1 DEF AtomicInv, TableInv, RoundInv
<1>16. DoomInv'
  <2>1. CASE ~KeepInvariant
    <3>1. \A o \in doomed : color'[o] = "dead"
      BY <2>1, <1>7 DEF IInv, DoomInv
    <3>2. QED
      BY <2>1, <3>1, <1>1, <1>5 DEF IInv, DoomInv
  <2>2. CASE KeepInvariant
    <3>1. c \notin doomed
      BY <2>2, <1>1, StackIs
    <3>2. \A x \in Objects \ doomed : \A y \in Parts(x)' : y \notin doomed
      BY <2>2, <1>2, <1>8 DEF IInv, DoomInv
    <3>3. \A x \in doomed : color'[x] = "white" /\ kind'[x] # "free"
      BY <2>2, <1>1, <1>2, <1>7 DEF IInv, DoomInv
    <3>4. QED
      BY <2>2, <3>2, <3>3, <1>1, <1>5 DEF IInv, DoomInv
  <2>3. QED
    BY <2>1, <2>2
<1>17. QED
  BY <1>4, <1>10, <1>11, <1>12, <1>13, <1>14, <1>15, <1>16 DEF IInv, MarkInv

\* Colours and entries of which a sweep will leave what is live.
LiveIn(col, o) == kind[o] # "free" /\ col[o] # "dead"
SealedIn(col, ents) == \A o \in Objects : LiveIn(col, o) => \A x \in Members(ents[o]) : x \in Objects /\ LiveIn(col, x)

\* A step of the sweep; the objects of X, white ones, change their place.
LEMMA SweepI ==
  ASSUME TInv, TInv', ~KeepInvariant', NEW p \in Names \cup Allocated \cup {None},
         NEW col, NEW ents, Sweepable(col, ents),
         NEW r, SweepsBehind(list, p, col, r), Sweep(r, col, ents),
         SealedIn(col, ents),
         \A o \in Range(list'["finobj"]) \cup Range(list'["tobefnz"]) : o \in Objects /\ LiveIn(col, o),
         \A o \in Objects : col[o] # "white" => Unswept(gcstate', list, p, o),
         NEW X, \A x \in X : col[x] = "white", r.next \notin X,
         \A q, x : q \notin r.gone \cup X /\ x \notin r.gone \cup X /\ IsBehind(list, q, x) => IsBehind(list', q, x),
         \A n \in Names \ {"allgc"} : Range(list[n]) \ (r.gone \cup X) \subseteq Range(list'[n]),
         \A o \in doomed' : o \in Objects \ r.gone /\ col[o] = "dead"
  PROVE  IInv'
<1>1. /\ r.gone \in SUBSET Allocated /\ main \notin r.gone /\ main \in Objects
      /\ \A o \in Objects : /\ kind'[o] = IF o \in r.gone THEN "free" ELSE kind[o]
                            /\ entries'[o] = IF o \in r.gone THEN {} ELSE ents[o]
                            /\ color'[o] = IF o \in r.gone \cup r.kept THEN "white" ELSE col[o]
      /\ sweepgc' = r.next
  <2>1. main \in Objects
    BY MainIs
  <2>2. r.gone \in SUBSET Allocated /\ main \notin r.gone
    BY SweepObjects
  <2>3. /\ kind' = [o \in Objects |-> IF o \in r.gone THEN "free" ELSE kind[o]]
        /\ entries' = [o \in Objects |-> IF o \in r.gone THEN {} ELSE ents[o]]
        /\ color' = [o \in Objects |-> IF o \in r.gone \cup r.kept THEN "white" ELSE col[o]]
        /\ sweepgc' = r.next
    BY DEF Sweep
  <2>4. QED
    BY <2>1, <2>2, <2>3
<1>2. /\ \A o \in r.gone : IsBehind(list, p, o) /\ col[o] = "dead"
      /\ \A o \in r.kept : IsBehind(list, p, o) /\ col[o] # "dead"
      /\ r.next = None \/ r.next = p \/ r.next \in r.kept
      /\ \A o : IsBehind(list, p, o) /\ o \notin r.gone \cup r.kept => r.next # None /\ IsBehind(list, r.next, o)
  BY DEF SweepsBehind
<1>3. \A o \in Objects : Live(o)' <=> LiveIn(col, o)
  BY <1>1, <1>2 DEF Live, LiveIn
<1>4. stage' = None
  BY DEF TInv, StateType, KeepInvariant
<1>5. AliveInv'
  <2>1. \A o \in Objects : Live(o)' => \A x \in Parts(o)' : Live(x)'
    <3> SUFFICES ASSUME NEW o \in Objects, Live(o)', NEW x \in Parts(o)' PROVE Live(x)'
      OBVIOUS
    <3>1. LiveIn(col, o) /\ o \notin r.gone
      BY <1>1, <1>3 DEF Live
    <3>2. x \in Members(ents[o])
      BY <1>1, <3>1 DEF Parts
    <3>3. QED
      BY <3>1, <3>2, <1>3 DEF SealedIn
  <2>2. Live(main)'
    <3>1. LiveIn(col, main)
      BY MainIs DEF Sweepable, LiveIn
    <3>2. QED
      BY <1>1, <1>3, <3>1
  <2>3. \A o \in Range(list'["finobj"]) \cup Range(list'["tobefnz"]) : Live(o)'
    BY <1>3
  <2>4. QED
    BY <2>1, <2>2, <2>3 DEF AliveInv
<1>6. SweptInv'
  <2> SUFFICES ASSUME NEW o \in Objects, color'[o] # "white"
               PROVE  Unswept(gcstate', list', sweepgc', o)
    BY DEF SweptInv
  <2>1. o \notin r.gone \cup r.kept /\ col[o] = color'[o] /\ o \notin X
    BY <1>1
  <2>2. CASE IsBehind(list, p, o)
    <3>1. r.next # None /\ IsBehind(list, r.next, o)
      BY <1>2, <2>1, <2>2
    <3>2. r.next \notin r.gone
      <4>1. PICK s : s = Behind(list, p)
        OBVIOUS
      <4>2. Allocated \subseteq Objects /\ p \in Names \cup Allocated
        BY <2>2, NothingBehind DEF Allocated, TInv
      <4>3. p \notin Range(s) /\ \A x : x \in Range(s) <=> IsBehind(list, p, x)
        BY <4>1, <4>2, BehindIs DEF TInv
      <4>4. QED
        BY <4>3, <3>1, <1>2
    <3>3. IsBehind(list', r.next, o)
      BY <2>1, <3>1, <3>2
    <3>4. QED
      BY <3>3, <1>1 DEF Unswept
  <2>3. CASE ~IsBehind(list, p, o)
    <3>1. \/ gcstate' = "swpallgc" /\ o \in Range(list["finobj"])
          \/ gcstate' \in {"swpallgc", "swpfinobj"} /\ o \in Range(list["tobefnz"])
      BY <2>1, <2>3 DEF Unswept
    <3>2. \A n \in Names \ {"allgc"} : o \in Range(list[n]) => o \in Range(list'[n])
      BY <2>1
    <3>3. "finobj" \in Names \ {"allgc"} /\ "tobefnz" \in Names \ {"allgc"}
      BY DEF Names
    <3>4. QED
      BY <3>1, <3>2, <3>3 DEF Unswept
  <2>4. QED
    BY <2>2, <2>3
<1>7. DoomInv'
  <2>1. \A o \in doomed' : color'[o] = "dead"
    BY <1>1, <1>2
  <2>2. QED
    BY <2>1 DEF DoomInv
<1>8. MarkInv' /\ AtomicInv'
  <2>1. stage' \notin {"converge", "reconverge"}
    BY <1>4 DEF None
  <2>2. QED
    BY <1>4, <2>1 DEF MarkInv, BlackInv, GrayInv, EarlyInv, AtomicInv, TableInv, RoundInv
<1>9. QED
  BY <1>5, <1>6, <1>7, <1>8 DEF IInv

\* Taking objects out of the lists, as a sweep does
LEMMA SweptLists ==
  ASSUME TInv, NEW gone \in SUBSET Allocated, list' = Without(list, gone)
  PROVE  /\ \A q, x : q \notin gone \cup {} /\ x \notin gone \cup {} /\ IsBehind(list, q, x) => IsBehind(list', q, x)
         /\ \A n \in Names \ {"allgc"} : Range(list[n]) \ (gone \cup {}) \subseteq Range(list'[n])
         /\ Range(list'["finobj"]) = Range(list["finobj"]) \ gone
         /\ Range(list'["tobefnz"]) = Range(list["tobefnz"]) \ gone
<1>1. Lists(list, Allocated)
  BY DEF TInv
<1>2. /\ \A n \in Names : Range(Without(list, gone)[n]) = Range(list[n]) \ gone
      /\ \A q, x : q \notin gone /\ x \notin gone /\ IsBehind(list, q, x) => IsBehind(Without(list, gone), q, x)
  BY <1>1, WithoutIs
<1>3. QED
  BY <1>2 DEF Names

LEMMA SealedAlive ==
  ASSUME IInv
  PROVE  /\ SealedIn(color, entries) /\ Sweepable(color, entries) /\ color[main] # "dead"
         /\ \A o \in Range(list["finobj"]) \cup Range(list["tobefnz"]) : o \in Objects /\ LiveIn(color, o)
<1>1. ObjectType /\ color[main] # "dead"
  BY DEF IInv, TInv, AliveInv, Live
<1>2. SealedIn(color, entries)
  BY <1>1, PartsType DEF IInv, AliveInv, SealedIn, LiveIn, Live, Parts
<1>3. Sweepable(color, entries)
  BY <1>1 DEF ObjectType, Sweepable
<1>4. \A o \in Range(list["finobj"]) \cup Range(list["tobefnz"]) : o \in Objects /\ LiveIn(color, o)
  BY ListIs DEF IInv, TInv, AliveInv, Names, LiveIn, Live
<1>5. QED
  BY <1>1, <1>2, <1>3, <1>4

LEMMA SweepStepI ==
  ASSUME IInv, SweepStep
  PROVE  IInv'
<1>1. /\ gcstate \in {"swpallgc", "swpfinobj", "swptobefnz"} /\ sweepgc # None
      /\ UNCHANGED <<gcstate, grayLists, atomicVars>>
  BY DEF SweepStep
<1>2. /\ SealedIn(color, entries) /\ Sweepable(color, entries) /\ color[main] # "dead"
      /\ \A o \in Range(list["finobj"]) \cup Range(list["tobefnz"]) : o \in Objects /\ LiveIn(color, o)
  BY SealedAlive
<1>3. TInv' /\ TInv
  BY <1>2, SweepStepT DEF IInv
<1>4. PICK r : /\ SweepsBehind(list, sweepgc, color, r) /\ Sweep(r, color, entries)
               /\ list' = Without(list, r.gone) /\ doomed' = doomed \ r.gone
  BY <1>2, SweepStepT DEF IInv
<1>5. ~KeepInvariant /\ ~KeepInvariant'
  BY <1>1 DEF KeepInvariant
<1>6. sweepgc \in Names \cup Allocated
  <2>1. PICK n \in Names : sweepgc = n \/ sweepgc \in Range(list[n])
    BY <1>1, <1>3 DEF TInv, Address
  <2>2. Range(list[n]) \subseteq Objects
    BY <1>3, ListIs DEF TInv
  <2>3. QED
    BY <1>3, <2>1, <2>2 DEF TInv, Lists
<1>7. r.gone \in SUBSET Allocated
  BY <1>2, <1>3, <1>4, SweepObjects
<1>8. PICK X : X = {}
  OBVIOUS
<1>9. /\ \A q, x : q \notin r.gone \cup X /\ x \notin r.gone \cup X /\ IsBehind(list, q, x) => IsBehind(list', q, x)
      /\ \A n \in Names \ {"allgc"} : Range(list[n]) \ (r.gone \cup X) \subseteq Range(list'[n])
      /\ Range(list'["finobj"]) \subseteq Range(list["finobj"])
      /\ Range(list'["tobefnz"]) \subseteq Range(list["tobefnz"])
  BY <1>3, <1>4, <1>7, <1>8, SweptLists
<1>10. \A o \in Range(list'["finobj"]) \cup Range(list'["tobefnz"]) : o \in Objects /\ LiveIn(color, o)
  BY <1>2, <1>9
<1>11. \A o \in Objects : color[o] # "white" => Unswept(gcstate', list, sweepgc, o)
  BY <1>1, <1>5 DEF IInv, SweptInv
<1>12. \A o \in doomed' : o \in Objects \ r.gone /\ color[o] = "dead"
  BY <1>4, <1>5 DEF IInv, DoomInv
<1>13. (\A x \in X : color[x] = "white") /\ r.next \notin X
  BY <1>8
<1>14. QED
  BY <1>2, <1>3, <1>4, <1>5, <1>6, <1>9, <1>10, <1>11, <1>12, <1>13, SweepI

\* Steps that only change the state, the address and luaC_fullgc's place
LEMMA EndSweepI ==
  ASSUME IInv, EndSweep
  PROVE  IInv'
<1>1. /\ sweepgc = None
      /\ \/ gcstate = "swpallgc" /\ gcstate' = "swpfinobj" /\ sweepgc' = "finobj"
         \/ gcstate = "swpfinobj" /\ gcstate' = "swptobefnz" /\ sweepgc' = "tobefnz"
         \/ gcstate \in {"swptobefnz", "swpend"} /\ gcstate' \in {"swpend", "callfin"} /\ sweepgc' = None
      /\ UNCHANGED <<kind, entries, color, list, grayLists, atomicVars, doomed>>
  BY DEF EndSweep, NextSweep
<1>2. TInv'
  BY EndSweepT DEF IInv
<1>3. ~KeepInvariant /\ ~KeepInvariant'
  BY <1>1 DEF KeepInvariant
<1>4. SweptInv'
  <2> SUFFICES ASSUME NEW o \in Objects, color[o] # "white" PROVE Unswept(gcstate', list, sweepgc', o)
    BY <1>1 DEF SweptInv
  <2>1. Unswept(gcstate, list, None, o) /\ ~IsBehind(list, None, o)
    BY <1>1, <1>3, NothingBehind DEF IInv, TInv, SweptInv
  <2>2. \A n \in Names : o \in Range(list[n]) => IsBehind(list, n, o)
    BY DEF IsBehind
  <2>3. QED
    BY <1>1, <2>1, <2>2 DEF Unswept, Names
<1>5. AliveInv' /\ DoomInv'
  BY <1>1, <1>3 DEF IInv, AliveInv, DoomInv, Live, Parts
<1>6. MarkInv' /\ AtomicInv'
  <2>1. stage' = None /\ stage' \notin {"converge", "reconverge"}
    BY <1>2, <1>3 DEF TInv, StateType, KeepInvariant, None
  <2>2. QED
    BY <1>3, <2>1 DEF MarkInv, BlackInv, GrayInv, EarlyInv, AtomicInv, TableInv, RoundInv
<1>7. QED
  BY <1>2, <1>4, <1>5, <1>6 DEF IInv

LEMMA EndCycleI ==
  ASSUME IInv, EndCycle
  PROVE  IInv'
<1>1. /\ gcstate = "callfin" /\ gcstate' = "pause"
      /\ UNCHANGED <<kind, entries, color, list, grayLists, atomicVars, sweepgc, doomed>>
  BY DEF EndCycle
<1>2. TInv'
  BY EndCycleT DEF IInv
<1>3. ~KeepInvariant /\ ~KeepInvariant'
  BY <1>1 DEF KeepInvariant
<1>4. SweptInv'
  BY <1>1, AllWhite DEF SweptInv
<1>5. AliveInv' /\ DoomInv'
  BY <1>1, <1>3 DEF IInv, AliveInv, DoomInv, Live, Parts
<1>6. MarkInv' /\ AtomicInv'
  <2>1. stage' = None /\ stage' \notin {"converge", "reconverge"}
    BY <1>2, <1>3 DEF TInv, StateType, KeepInvariant, None
  <2>2. QED
    BY <1>3, <2>1 DEF MarkInv, BlackInv, GrayInv, EarlyInv, AtomicInv, TableInv, RoundInv
<1>7. QED
  BY <1>2, <1>4, <1>5, <1>6 DEF IInv

\* A sweep that begins at the head of allgc comes to everything.
LEMMA AllUnswept ==
  ASSUME TInv, NEW o \in Allocated
  PROVE  Unswept("swpallgc", list, "allgc", o)
<1>1. PICK n \in Names : o \in Range(list[n])
  BY DEF TInv, Lists, Allocated
<1>2. QED
  BY <1>1 DEF Unswept, IsBehind, Names

LEMMA FullStartI ==
  ASSUME IInv, FullStart
  PROVE  IInv'
<1>1. /\ SealedIn(color, entries) /\ Sweepable(color, entries) /\ color[main] # "dead"
      /\ \A o \in Range(list["finobj"]) \cup Range(list["tobefnz"]) : o \in Objects /\ LiveIn(color, o)
  BY SealedAlive
<1>2. TInv' /\ TInv
  BY <1>1, FullStartT DEF IInv
<1>3. CASE KeepInvariant
  <2>1. PICK r : r = SweepToLive("allgc", color)
    OBVIOUS
  <2>2. /\ Sweep(r, color, entries) /\ list' = Without(list, r.gone)
        /\ gcstate' = "swpallgc" /\ doomed' = {}
    BY <1>3, <2>1 DEF FullStart
  <2>3. "allgc" \in Names \cup Allocated \cup {None} /\ "allgc" \in Names \cup Allocated /\ Allocated \subseteq Objects
    BY DEF Names, Allocated
  <2>4. SweepsBehind(list, "allgc", color, r)
    BY <1>2, <2>1, <2>3, SweepToLiveIs DEF TInv
  <2>5. ~KeepInvariant'
    BY <2>2 DEF KeepInvariant
  <2>6. r.gone \in SUBSET Allocated
    BY <1>1, <1>2, <2>2, <2>4, SweepObjects
  <2>7. PICK X : X = {}
    OBVIOUS
  <2>8. /\ \A q, x : q \notin r.gone \cup X /\ x \notin r.gone \cup X /\ IsBehind(list, q, x) => IsBehind(list', q, x)
        /\ \A n \in Names \ {"allgc"} : Range(list[n]) \ (r.gone \cup X) \subseteq Range(list'[n])
        /\ Range(list'["finobj"]) \subseteq Range(list["finobj"])
        /\ Range(list'["tobefnz"]) \subseteq Range(list["tobefnz"])
    BY <1>2, <2>2, <2>6, <2>7, SweptLists
  <2>9. \A o \in Range(list'["finobj"]) \cup Range(list'["tobefnz"]) : o \in Objects /\ LiveIn(color, o)
    BY <1>1, <2>8
  <2>10. \A o \in Objects : color[o] # "white" => Unswept(gcstate', list, "allgc", o)
    <3>1. \A o \in Objects : color[o] # "white" => o \in Allocated
      BY <1>2 DEF TInv, ObjectType, Allocated
    <3>2. QED
      BY <1>2, <2>2, <3>1, AllUnswept
  <2>11. \A o \in doomed' : o \in Objects \ r.gone /\ color[o] = "dead"
    BY <2>2
  <2>12. (\A x \in X : color[x] = "white") /\ r.next \notin X
    BY <2>7
  <2>13. QED
    BY <1>1, <1>2, <2>2, <2>3, <2>4, <2>5, <2>8, <2>9, <2>10, <2>11, <2>12, SweepI
<1>4. CASE ~KeepInvariant
  <2>1. /\ UNCHANGED <<kind, entries, color, list, gcstate, sweepgc, doomed, grayLists, atomicVars>>
        /\ stage = None
    BY <1>4 DEF FullStart, Running
  <2>2. ~KeepInvariant'
    BY <1>4, <2>1 DEF KeepInvariant
  <2>3. AliveInv' /\ SweptInv' /\ DoomInv'
    BY <1>4, <2>1, <2>2 DEF IInv, AliveInv, SweptInv, DoomInv, Live, Parts
  <2>4. MarkInv' /\ AtomicInv'
    <3>1. stage' = None /\ stage' \notin {"converge", "reconverge"}
      BY <1>2, <2>2 DEF TInv, StateType, KeepInvariant, None
    <3>2. QED
      BY <2>2, <3>1 DEF MarkInv, BlackInv, GrayInv, EarlyInv, AtomicInv, TableInv, RoundInv
  <2>5. QED
    BY <1>2, <2>3, <2>4 DEF IInv
<1>5. QED
  BY <1>3, <1>4

LEMMA SetFinalizerI ==
  ASSUME IInv, NEW o \in Objects, SetFinalizer(o)
  PROVE  IInv'
<1>1. /\ SealedIn(color, entries) /\ Sweepable(color, entries) /\ color[main] # "dead"
      /\ \A x \in Range(list["finobj"]) \cup Range(list["tobefnz"]) : x \in Objects /\ LiveIn(color, x)
  BY SealedAlive
<1>2. TInv' /\ TInv
  BY <1>1, SetFinalizerT DEF IInv
<1>3. PICK r, col :
           /\ o \in Allocated /\ o \in Range(list["allgc"]) /\ Running
           /\ col = [color EXCEPT ![o] = IF SweepPhase THEN "white" ELSE color[o]]
           /\ Sweepable(col, entries) /\ Sweep(r, col, entries)
           /\ SweepPhase /\ sweepgc = o => SweepsBehind(list, o, col, r) /\ r.next \in {None} \cup r.kept
           /\ ~(SweepPhase /\ sweepgc = o) => r.gone = {} /\ r.kept = {} /\ r.next = sweepgc
           /\ o \notin r.gone /\ o \notin r.kept
           /\ ObjectType' /\ Allocated' = Allocated \ r.gone
           /\ r.gone \in SUBSET Allocated /\ sweepgc' = r.next
           /\ Lists(list', Allocated')
           /\ Range(list'["finobj"]) = {o} \cup (Range(list["finobj"]) \ r.gone)
           /\ \A n \in Names \ {"finobj"} : Range(list'[n]) = Range(list[n]) \ (r.gone \cup {o})
           /\ \A q, x : q \notin r.gone \cup {o} /\ x \notin r.gone \cup {o} /\ IsBehind(list, q, x)
                       => IsBehind(list', q, x)
           /\ UNCHANGED <<gcstate, grayLists, atomicVars>> /\ doomed' = doomed \ r.gone
  BY <1>1, <1>2, SetFinalizerStep
<1>4. o \in Stack /\ stage = None
  BY <1>3 DEF SetFinalizer, Running
<1>5. Live(o) /\ (KeepInvariant => o \notin doomed)
  BY <1>4, StackIs
<1>6. KeepInvariant' <=> KeepInvariant
  BY <1>3 DEF KeepInvariant
<1>7. "finobj" \in Names /\ "tobefnz" \in Names \ {"finobj"}
  BY DEF Names
<1>8. CASE KeepInvariant
  <2>1. ~SweepPhase
    BY <1>8 DEF KeepInvariant, SweepPhase
  <2>2. r.gone = {} /\ r.kept = {} /\ col = color
    BY <1>2, <1>3, <2>1 DEF TInv, ObjectType
  <2>3. kind' = kind /\ entries' = entries /\ color' = color /\ doomed' = doomed
    BY <1>2, <1>3, <2>2 DEF Sweep, TInv, ObjectType
  <2>4. Range(list'["finobj"]) \subseteq {o} \cup Range(list["finobj"]) /\ Range(list'["tobefnz"]) \subseteq Range(list["tobefnz"])
    BY <1>3, <1>7
  <2>5. AliveInv'
    <3>1. \A x \in Range(list'["finobj"]) \cup Range(list'["tobefnz"]) : Live(x)
      BY <1>5, <2>4 DEF IInv, AliveInv
    <3>2. QED
      BY <3>1, <1>6, <2>3 DEF IInv, AliveInv, Live, Parts
  <2>6. SweptInv'
    BY <1>6, <1>8 DEF SweptInv
  <2>7. BlackInv' /\ EarlyInv'
    BY <1>3, <1>6, <2>3 DEF IInv, MarkInv, BlackInv, EarlyInv, IsMarked, Parts, grayLists, atomicVars
  <2>8. GrayInv'
    BY <1>3, <1>6, <2>3, <2>4 DEF IInv, MarkInv, GrayInv, IsMarked, InLists, grayLists, atomicVars
  <2>9. AtomicInv'
    <3>1. stage' = None /\ stage' \notin {"converge", "reconverge"}
      BY <1>3, <1>4 DEF atomicVars, None
    <3>2. QED
      BY <3>1 DEF AtomicInv, TableInv, RoundInv
  <2>10. DoomInv'
    <3>1. \A x \in {main} \cup Range(list'["finobj"]) \cup Range(list'["tobefnz"]) : x \notin doomed
      BY <1>5, <1>8, <2>4 DEF IInv, DoomInv
    <3>2. QED
      BY <3>1, <1>6, <1>8, <2>3 DEF IInv, DoomInv, Parts
  <2>11. QED
    BY <1>2, <2>5, <2>6, <2>7, <2>8, <2>9, <2>10 DEF IInv, MarkInv
<1>9. CASE ~KeepInvariant
  <2>1. sweepgc # None => SweepPhase
    BY <1>2 DEF TInv, Address, SweepPhase
  <2>2. PICK p : p = sweepgc
    OBVIOUS
  <2>3. p \in Names \cup Allocated \cup {None}
    <3>1. CASE sweepgc # None
      <4>1. PICK n \in Names : sweepgc = n \/ sweepgc \in Range(list[n])
        BY <1>2, <3>1 DEF TInv, Address
      <4>2. Range(list[n]) \subseteq Objects
        BY <1>2, ListIs DEF TInv
      <4>3. QED
        BY <1>2, <2>2, <4>1, <4>2 DEF TInv, Lists
    <3>2. QED
      BY <2>2, <3>1
  <2>4. SweepsBehind(list, p, col, r)
    <3>1. CASE SweepPhase /\ sweepgc = o
      BY <1>3, <2>2, <3>1
    <3>2. CASE ~(SweepPhase /\ sweepgc = o)
      <4>1. r.gone = {} /\ r.kept = {} /\ r.next = p
        BY <1>3, <2>2, <3>2
      <4>2. \A x : IsBehind(list, p, x) => p # None
        BY <1>2, NothingBehind DEF TInv
      <4>3. QED
        BY <4>1, <4>2 DEF SweepsBehind
    <3>3. QED
      BY <3>1, <3>2
  <2>5. \A x \in Objects : /\ LiveIn(color, x) => LiveIn(col, x)
                           /\ LiveIn(col, x) => LiveIn(color, x)
                           /\ col[x] = color[x] \/ (x = o /\ col[x] = "white")
    BY <1>2, <1>3, <1>5 DEF LiveIn, Live, TInv, ObjectType
  <2>6. SealedIn(col, entries)
    BY <1>1, <2>5 DEF SealedIn
  <2>7. \A x \in Range(list'["finobj"]) \cup Range(list'["tobefnz"]) : x \in Objects /\ LiveIn(col, x)
    <3>1. \A x \in Range(list'["finobj"]) \cup Range(list'["tobefnz"]) : x \in Objects /\ LiveIn(color, x)
      BY <1>1, <1>3, <1>5, <1>7 DEF LiveIn, Live
    <3>2. QED
      BY <2>5, <3>1
  <2>8. \A x \in Objects : col[x] # "white" => Unswept(gcstate', list, p, x)
    BY <1>3, <1>9, <2>2, <2>5 DEF IInv, SweptInv
  <2>9. PICK X : X = {o}
    OBVIOUS
  <2>10. col[o] = "white"
    <3>1. CASE SweepPhase
      BY <1>2, <1>3, <3>1 DEF TInv, ObjectType
    <3>2. CASE ~SweepPhase
      <4>1. gcstate \in {"callfin", "pause"}
        BY <1>2, <1>9, <3>2 DEF TInv, StateType, KeepInvariant, SweepPhase
      <4>2. color[o] = "white"
        BY <4>1, AllWhite
      <4>3. QED
        BY <4>2, <2>5
    <3>3. QED
      BY <3>1, <3>2
  <2>11. r.next # o
    <3>1. CASE SweepPhase /\ sweepgc = o
      BY <1>3, <3>1, NoName DEF None
    <3>2. CASE ~SweepPhase /\ sweepgc = o
      BY <2>1, <3>2, NoName DEF None
    <3>3. CASE sweepgc # o
      BY <1>3, <3>3
    <3>4. QED
      BY <3>1, <3>2, <3>3
  <2>12. (\A x \in X : col[x] = "white") /\ r.next \notin X
    BY <2>9, <2>10, <2>11
  <2>13. /\ \A q, x : q \notin r.gone \cup X /\ x \notin r.gone \cup X /\ IsBehind(list, q, x) => IsBehind(list', q, x)
         /\ \A n \in Names \ {"allgc"} : Range(list[n]) \ (r.gone \cup X) \subseteq Range(list'[n])
    BY <1>3, <2>9 DEF Names
  <2>14. \A x \in doomed' : x \in Objects \ r.gone /\ col[x] = "dead"
    <3>1. \A x \in doomed : x \in Objects /\ color[x] = "dead"
      BY <1>9 DEF IInv, DoomInv
    <3>2. color[o] # "dead"
      BY <1>5 DEF Live
    <3>3. QED
      BY <1>3, <2>5, <3>1, <3>2
  <2>15. ~KeepInvariant'
    BY <1>6, <1>9
  <2>16. Sweepable(col, entries) /\ Sweep(r, col, entries)
    BY <1>3
  <2>17. QED
    BY <1>2, <2>3, <2>4, <2>6, <2>7, <2>8, <2>12, <2>13, <2>14, <2>15, <2>16, SweepI
<1>10. QED
  BY <1>8, <1>9

-----------------------------------------------------------------------------
(* Marking.                                                                *)

\* Objects that are not doomed are marked, and nothing else changes its colour.
LEMMA MarkingI ==
  ASSUME IInv, TInv', KeepInvariant, KeepInvariant', UNCHANGED <<kind, doomed>>,
         \A o \in Objects : Members(entries'[o]) \subseteq Members(entries[o]),
         \A o \in Objects : color'[o] = color[o] \/ (IsMarked(o)' /\ o \notin doomed),
         Range(list'["finobj"]) \cup Range(list'["tobefnz"]) \subseteq Range(list["finobj"]) \cup Range(list["tobefnz"])
  PROVE  AliveInv' /\ SweptInv' /\ DoomInv'
<1>1. main \in Objects /\ ObjectType /\ \A o \in Objects : color[o] # "dead"
  BY MainIs DEF IInv, TInv, AliveInv
<1>2. \A o \in Objects : color'[o] # "dead"
  BY <1>1 DEF IsMarked
<1>3. \A o \in Objects : Live(o)' <=> Live(o)
  BY <1>1, <1>2 DEF Live
<1>4. \A o \in Objects : Parts(o)' \subseteq Parts(o) /\ Parts(o) \subseteq Objects
  BY <1>1, PartsType DEF Parts
<1>5. AliveInv'
  <2>1. \A o \in Objects : Live(o)' => \A x \in Parts(o)' : Live(x)'
    <3> SUFFICES ASSUME NEW o \in Objects, Live(o)', NEW x \in Parts(o)' PROVE Live(x)'
      OBVIOUS
    <3>1. x \in Parts(o) /\ x \in Objects /\ Live(o)
      BY <1>3, <1>4
    <3>2. Live(x)
      BY <3>1 DEF IInv, AliveInv
    <3>3. QED
      BY <3>1, <3>2, <1>3
  <2>2. Live(main)'
    BY <1>1, <1>3 DEF IInv, AliveInv
  <2>3. \A x \in Range(list["finobj"]) \cup Range(list["tobefnz"]) : x \in Objects /\ Live(x)
    BY ListIs DEF IInv, TInv, AliveInv, Names
  <2>4. \A x \in Range(list'["finobj"]) \cup Range(list'["tobefnz"]) : Live(x)'
    BY <2>3, <1>3
  <2>5. QED
    BY <2>1, <2>2, <2>4, <1>2 DEF AliveInv
<1>6. SweptInv'
  BY DEF SweptInv
<1>7. DoomInv'
  <2>1. \A o \in doomed : color'[o] = "white" /\ kind'[o] # "free"
    BY DEF IInv, DoomInv
  <2>2. \A o \in {main} \cup Range(list'["finobj"]) \cup Range(list'["tobefnz"]) : o \notin doomed
    BY DEF IInv, DoomInv
  <2>3. \A o \in Objects \ doomed : \A x \in Parts(o)' : x \notin doomed
    BY <1>4 DEF IInv, DoomInv
  <2>4. QED
    BY <2>1, <2>2, <2>3 DEF IInv, DoomInv
<1>8. QED
  BY <1>5, <1>6, <1>7

\* Steps between the others, which only change the state and the gray lists
LEMMA LinkI ==
  ASSUME IInv, TInv', KeepInvariant, KeepInvariant', UNCHANGED <<kind, entries, color, list, doomed>>,
         stage = None \/ stage' # None, InLists' = InLists,
         stage' = None => UNCHANGED <<weak, ephemeron, allweak>>
  PROVE  AliveInv' /\ SweptInv' /\ DoomInv' /\ MarkInv'
<1>1. AliveInv' /\ SweptInv' /\ DoomInv'
  <2>1. \A o \in Objects : Members(entries'[o]) \subseteq Members(entries[o])
    OBVIOUS
  <2>2. \A o \in Objects : color'[o] = color[o] \/ (IsMarked(o)' /\ o \notin doomed)
    OBVIOUS
  <2>3. Range(list'["finobj"]) \cup Range(list'["tobefnz"]) \subseteq Range(list["finobj"]) \cup Range(list["tobefnz"])
    OBVIOUS
  <2>4. QED
    BY <2>1, <2>2, <2>3, MarkingI
<1>2. BlackInv'
  BY DEF IInv, MarkInv, BlackInv, IsMarked, Parts
<1>3. GrayInv'
  BY DEF IInv, MarkInv, GrayInv, IsMarked
<1>4. EarlyInv'
  BY DEF IInv, MarkInv, EarlyInv
<1>5. QED
  BY <1>1, <1>2, <1>3, <1>4 DEF MarkInv

LEMMA EndPropagateI ==
  ASSUME IInv, EndPropagate
  PROVE  IInv'
<1>1. /\ gcstate = "propagate" /\ gcstate' = "enteratomic"
      /\ UNCHANGED <<kind, entries, color, list, gray, grayagain, weak, allweak, ephemeron, stage, todo, doomed>>
  BY DEF EndPropagate, grayLists, atomicVars
<1>2. TInv' /\ stage = None
  BY <1>1, EndPropagateT DEF IInv, TInv, StateType
<1>3. KeepInvariant /\ KeepInvariant' /\ InLists' = InLists
  BY <1>1 DEF KeepInvariant, InLists
<1>4. AliveInv' /\ SweptInv' /\ DoomInv' /\ MarkInv'
  BY <1>1, <1>2, <1>3, LinkI
<1>5. AtomicInv'
  <2>1. stage' = None /\ stage' \notin {"converge", "reconverge"}
    BY <1>1, <1>2 DEF None
  <2>2. QED
    BY <2>1 DEF AtomicInv, TableInv, RoundInv
<1>6. QED
  BY <1>2, <1>4, <1>5 DEF IInv

LEMMA EnterAtomicI ==
  ASSUME IInv, EnterAtomic
  PROVE  IInv'
<1>1. /\ gcstate = "enteratomic" /\ gcstate' = "atomic" /\ stage' = "roots"
      /\ todo' = grayagain /\ grayagain' = {}
      /\ color' = Marked(color, {main}) /\ gray' = gray \cup NewGray({main})
      /\ UNCHANGED <<kind, entries, list, weak, allweak, ephemeron, doomed>>
  BY DEF EnterAtomic, outsideAtomic
<1>2. /\ TInv' /\ stage = None /\ stage' # None /\ ObjectType /\ main \in Objects /\ kind[main] = "main"
      /\ stage' \notin {"converge", "reconverge", "finalize"} /\ todo = {}
  BY <1>1, EnterAtomicT, MainIs DEF IInv, TInv, StateType, None
<1>3. KeepInvariant /\ KeepInvariant'
  BY <1>1 DEF KeepInvariant
<1>4. main \notin doomed
  BY <1>3 DEF IInv, DoomInv
<1>5. \A o \in Objects : \/ color'[o] = color[o] /\ (o # main \/ ~White(o))
                         \/ o = main /\ White(o) /\ color'[o] = "gray"
  <2>1. \A o \in Objects : \/ color'[o] = color[o] /\ (o \notin {main} \/ ~White(o))
                           \/ /\ o \in {main} /\ White(o)
                              /\ color'[o] = IF kind[o] = "string" THEN "black" ELSE "gray"
    BY <1>1, <1>2, MarkedIs DEF ObjectType
  <2>2. QED
    BY <2>1, <1>2
<1>6. \A o \in Objects : IsMarked(o) => IsMarked(o)'
  BY <1>5 DEF IsMarked
<1>7. IsMarked(main)'
  BY <1>2, <1>5, MarkedNotWhite DEF IsMarked
<1>8. AliveInv' /\ SweptInv' /\ DoomInv'
  <2>1. \A o \in Objects : Members(entries'[o]) \subseteq Members(entries[o])
    BY <1>1
  <2>2. \A o \in Objects : color'[o] = color[o] \/ (IsMarked(o)' /\ o \notin doomed)
    BY <1>4, <1>5 DEF IsMarked
  <2>3. Range(list'["finobj"]) \cup Range(list'["tobefnz"]) \subseteq Range(list["finobj"]) \cup Range(list["tobefnz"])
    BY <1>1
  <2>4. QED
    BY <1>1, <1>2, <1>3, <2>1, <2>2, <2>3, MarkingI
<1>9. BlackInv'
  <2>1. \A o \in Objects : color'[o] = "black" => color[o] = "black"
    BY <1>5
  <2>2. \A o \in Objects : Parts(o) \subseteq Objects
    BY <1>2, PartsType
  <2>3. \A o \in Objects : color'[o] = "black" =>
          (\A x \in Parts(o) : IsMarked(x)') /\ kind[o] \notin {"weak", "allweak"}
    BY <1>3, <1>6, <2>1, <2>2 DEF IInv, MarkInv, BlackInv
  <2>4. \A o \in Objects : Parts(o)' = Parts(o)
    BY <1>1 DEF Parts
  <2>5. QED
    BY <1>1, <1>2, <2>3, <2>4 DEF BlackInv
<1>10. GrayInv'
  <2>1. InLists \subseteq Objects /\ Range(list["tobefnz"]) \subseteq Objects
    BY ListIs DEF InLists, StateType, IInv, TInv, Names
  <2>2. InLists' = InLists \cup NewGray({main})
    BY <1>1, <1>2 DEF InLists
  <2>3. /\ \A o \in Objects : color[o] = "gray" => o \in InLists
        /\ \A o \in InLists : IsMarked(o) /\ kind[o] # "free"
        /\ \A o \in Range(list["tobefnz"]) : IsMarked(o)
    BY <1>3 DEF IInv, MarkInv, GrayInv
  <2>4. \A o \in Objects : color'[o] = "gray" => o \in InLists \cup NewGray({main})
    BY <1>2, <1>5, <2>3 DEF NewGray
  <2>5. \A o \in InLists \cup NewGray({main}) : IsMarked(o)' /\ kind'[o] # "free"
    BY <1>1, <1>2, <1>6, <1>7, <2>1, <2>3 DEF NewGray
  <2>6. QED
    BY <1>1, <1>6, <2>1, <2>2, <2>3, <2>4, <2>5 DEF GrayInv
<1>11. EarlyInv'
  BY <1>2 DEF EarlyInv
<1>12. AtomicInv'
  <2>1. weak' = {} /\ ephemeron' = {} /\ \A o \in allweak' : kind'[o] = "allweak"
    BY <1>1, <1>2, <1>3 DEF IInv, MarkInv, EarlyInv
  <2>2. TableInv'
    BY <1>1, <1>2, <1>7, <2>1 DEF TableInv
  <2>3. RoundInv'
    BY <1>2 DEF RoundInv
  <2>4. QED
    BY <2>2, <2>3 DEF AtomicInv
<1>13. QED
  BY <1>2, <1>8, <1>9, <1>10, <1>11, <1>12 DEF IInv, MarkInv

LEMMA TraverseAgainI ==
  ASSUME IInv, TraverseAgain
  PROVE  IInv'
<1>1. /\ stage = "roots" /\ stage' = "again" /\ gray = {} /\ gray' = todo /\ todo' = {}
      /\ UNCHANGED <<kind, entries, color, list, gcstate, grayagain, weak, allweak, ephemeron, orig, doomed>>
  BY DEF TraverseAgain, At, outsideAtomic
<1>2. TInv' /\ stage # None /\ stage' # None
  BY <1>1, TraverseAgainT DEF IInv, None
<1>3. KeepInvariant /\ KeepInvariant' /\ InLists' = InLists
  <2>1. KeepInvariant /\ gcstate = "atomic"
    BY <1>2, Phases DEF IInv, TInv
  <2>2. QED
    BY <1>1, <2>1 DEF KeepInvariant, InLists
<1>4. AliveInv' /\ SweptInv' /\ DoomInv' /\ MarkInv'
  BY <1>1, <1>2, <1>3, LinkI
<1>5. TableInv'
  BY <1>1, <1>2 DEF IInv, AtomicInv, TableInv, IsMarked, Parts, Keys, Values
<1>6. RoundInv'
  BY <1>1 DEF RoundInv
<1>7. QED
  BY <1>2, <1>4, <1>5, <1>6 DEF IInv, AtomicInv

\* A round over the ephemeron tables begins.
LEMMA ConvergeI ==
  ASSUME IInv, NEW from, NEW to, Converge(from, to), todo = {},
         <<from, to>> \in {<<"again", "converge">>, <<"converge", "converge">>,
                           <<"finalize", "reconverge">>, <<"reconverge", "reconverge">>}
  PROVE  IInv'
<1>1. /\ stage = from /\ gray = {} /\ stage' = to /\ todo' = ephemeron /\ ephemeron' = {}
      /\ UNCHANGED <<kind, entries, color, list, gcstate, gray, grayagain, weak, allweak, orig, doomed>>
  BY DEF Converge, At, outsideAtomic
<1>2. /\ from \in {"again", "converge", "finalize", "reconverge"} /\ to \in {"converge", "reconverge"}
      /\ to = "reconverge" => from \in {"finalize", "reconverge"}
      /\ from # None /\ to # None
  BY DEF None
<1>3. TInv'
  BY <1>2, ConvergeT DEF IInv
<1>4. KeepInvariant /\ KeepInvariant' /\ InLists' = InLists
  <2>1. KeepInvariant /\ gcstate = "atomic"
    BY <1>1, <1>2, Phases DEF IInv, TInv
  <2>2. QED
    BY <1>1, <2>1 DEF KeepInvariant, InLists
<1>5. AliveInv' /\ SweptInv' /\ DoomInv' /\ MarkInv'
  <2>1. stage' # None
    BY <1>1, <1>2
  <2>2. QED
    BY <1>1, <1>3, <1>4, <2>1, LinkI
<1>6. TableInv'
  BY <1>1, <1>2 DEF IInv, AtomicInv, TableInv, IsMarked, Parts, Keys, Values
<1>7. RoundInv'
  BY <1>1, <1>2 DEF IInv, AtomicInv, TableInv, RoundInv
<1>8. QED
  BY <1>3, <1>5, <1>6, <1>7 DEF IInv, AtomicInv

\* What is marked after a visit to o, by the list that o is put in.
LEMMA VisitMarks ==
  ASSUME IInv, NEW o \in Objects,
         \A x \in Visits(o) : IsMarked(x)', \A x \in Objects : IsMarked(x) => IsMarked(x)'
  PROVE  /\ Relinked(o) = None =>
              /\ \A x \in Parts(o) : IsMarked(x)'
              /\ kind[o] \notin {"weak", "allweak"}
              /\ stage = None => kind[o] \notin {"thread", "main", "ephemeron"}
         /\ Relinked(o) = "grayagain" /\ stage # None => kind[o] = "weak" /\ \A x \in Parts(o) : IsMarked(x)'
         /\ Relinked(o) = "weak" => stage # None /\ kind[o] = "weak" /\ \A x \in Keys(o) : IsMarked(x)'
         /\ Relinked(o) = "allweak" =>
              /\ kind[o] \in {"allweak", "ephemeron"} /\ (stage = None => kind[o] = "allweak")
              /\ kind[o] = "ephemeron" => \A x \in Values(o) : IsMarked(x)'
         /\ Relinked(o) = "ephemeron" => stage # None /\ kind[o] = "ephemeron"
         /\ Relinked(o) \in {None, "grayagain", "weak", "allweak", "ephemeron"}
<1>1. ObjectType /\ None \notin {"grayagain", "weak", "allweak", "ephemeron"}
  BY DEF IInv, TInv, None
<1>2. Parts(o) = Keys(o) \cup Values(o) /\ Parts(o) \subseteq Objects
  BY <1>1, PartsAre, PartsType
<1>3. \A x \in Objects : Cleared(x) \/ IsMarked(x)' \/ kind[x] = "string"
  BY <1>1, MarkedNotWhite
<1>4. CASE kind[o] \in {"thread", "main"}
  <2>1. Visits(o) = Parts(o)
    BY <1>2, <1>4 DEF Visits, Refs
  <2>2. Relinked(o) = IF stage = None THEN "grayagain" ELSE None
    BY <1>4 DEF Relinked
  <2>3. QED
    BY <1>1, <1>4, <2>1, <2>2
<1>5. CASE kind[o] = "weak"
  <2>1. Relinked(o) = IF stage # None /\ \E v \in Values(o) : Cleared(v) THEN "weak" ELSE "grayagain"
    BY <1>5 DEF Relinked
  <2>2. Keys(o) \subseteq Visits(o) /\ \A v \in Values(o) : kind[v] = "string" => v \in Visits(o)
    BY <1>5 DEF Visits, Refs, StringsIn
  <2>3. QED
    BY <1>1, <1>2, <1>3, <1>5, <2>1, <2>2
<1>6. CASE kind[o] = "ephemeron"
  <2>1. Relinked(o) = IF stage = None THEN "grayagain"
                      ELSE IF \E e \in entries[o] : e[1] # None /\ Cleared(e[1]) /\ White(e[2]) THEN "ephemeron"
                      ELSE IF \E k \in Keys(o) : Cleared(k) THEN "allweak" ELSE None
    BY <1>6 DEF Relinked
  <2>2. /\ \A e \in entries[o] : e[1] = None \/ ~Cleared(e[1]) => e[2] \in Visits(o)
        /\ \A k \in Keys(o) : kind[k] = "string" => k \in Visits(o)
    BY <1>6 DEF Visits, StringsIn
  <2>3. \A e \in entries[o] : e[2] \in Objects
    BY <1>1, PartsType
  <2>4. ASSUME ~\E e \in entries[o] : e[1] # None /\ Cleared(e[1]) /\ White(e[2])
        PROVE  \A x \in Values(o) : IsMarked(x)'
    <3> SUFFICES ASSUME NEW e \in entries[o] PROVE IsMarked(e[2])'
      BY DEF Values
    <3>1. CASE e[1] = None \/ ~Cleared(e[1])
      BY <3>1, <2>2
    <3>2. CASE ~(e[1] = None \/ ~Cleared(e[1]))
      BY <3>2, <2>3, <2>4, <1>1, MarkedNotWhite
    <3>3. QED
      BY <3>1, <3>2
  <2>5. ASSUME ~\E k \in Keys(o) : Cleared(k)
        PROVE  \A x \in Keys(o) : IsMarked(x)'
    BY <2>2, <2>5, <1>2, <1>3
  <2>6. QED
    BY <1>1, <1>2, <1>6, <2>1, <2>4, <2>5
<1>7. CASE kind[o] = "allweak"
  <2>1. Relinked(o) = "allweak"
    BY <1>7 DEF Relinked
  <2>2. QED
    BY <1>1, <1>7, <2>1
<1>8. CASE kind[o] \notin {"thread", "main", "weak", "ephemeron", "allweak"}
  <2>1. Visits(o) = Parts(o) /\ Relinked(o) = None
    BY <1>2, <1>8 DEF Visits, Refs, Relinked
  <2>2. QED
    BY <1>1, <1>8, <2>1
<1>9. QED
  BY <1>4, <1>5, <1>6, <1>7, <1>8

\* A marked object has been visited.
LEMMA TraverseI ==
  ASSUME IInv, TInv', KeepInvariant, NEW o \in gray \cup todo, NEW gl, gl \subseteq gray, gray \subseteq gl \cup {o},
         Traverse(o, gl, ephemeron), todo' \subseteq todo, todo \subseteq todo' \cup {o},
         UNCHANGED <<kind, entries, list, gcstate, stage, orig, doomed>>
  PROVE  /\ AliveInv' /\ SweptInv' /\ DoomInv' /\ MarkInv' /\ TableInv'
         /\ \A x \in Objects : IsMarked(x) => IsMarked(x)'
         /\ \A x \in Objects : color'[x] = color[x] \/ x = o \/ (x \in Visits(o) \ {o} /\ White(x))
         /\ \A x \in Visits(o) : IsMarked(x)'
<1>1. ObjectType /\ StateType /\ o \in Objects
  BY DEF IInv, TInv, StateType
<1>2. InLists \subseteq Objects /\ Range(list["tobefnz"]) \subseteq Objects /\ Range(list["finobj"]) \subseteq Objects
  BY <1>1, ListIs DEF InLists, StateType, IInv, TInv, Names
<1>3. /\ \A x \in Objects : color[x] = "gray" => x \in InLists
      /\ \A x \in InLists : IsMarked(x) /\ kind[x] # "free"
      /\ \A x \in Range(list["tobefnz"]) : IsMarked(x)
      /\ \A x \in Objects : color[x] # "dead"
  BY DEF IInv, MarkInv, GrayInv, AliveInv
<1>4. IsMarked(o) /\ kind[o] # "free" /\ Live(o) /\ o \notin doomed
  BY <1>3 DEF InLists, IsMarked, Live, IInv, DoomInv
<1>5. Visits(o) \subseteq Parts(o) /\ Parts(o) \subseteq Objects
  BY <1>1, VisitsAre DEF IInv
<1>6. \A x \in Parts(o) : Live(x) /\ x \notin doomed
  BY <1>1, <1>4 DEF IInv, AliveInv, DoomInv
<1>7. /\ color'[o] = IF Relinked(o) = None THEN "black" ELSE "gray"
      /\ \A x \in Objects \ {o} :
              \/ color'[x] = color[x] /\ (x \notin Visits(o) \/ ~White(x))
              \/ /\ x \in Visits(o) /\ White(x)
                 /\ color'[x] = IF kind[x] = "string" THEN "black" ELSE "gray"
  BY <1>1, TraverseIs DEF IInv
<1>8. /\ gray' = gl \cup NewGray(Visits(o) \ {o})
      /\ grayagain' = IF Relinked(o) = "grayagain" THEN grayagain \cup {o} ELSE grayagain
      /\ weak' = IF Relinked(o) = "weak" THEN weak \cup {o} ELSE weak
      /\ allweak' = IF Relinked(o) = "allweak" THEN allweak \cup {o} ELSE allweak
      /\ ephemeron' = IF Relinked(o) = "ephemeron" THEN ephemeron \cup {o} ELSE ephemeron
  BY DEF Traverse
<1>9. \A x \in Objects : IsMarked(x) => IsMarked(x)'
  BY <1>7 DEF IsMarked
<1>10. \A x \in Visits(o) : IsMarked(x)'
  <2> SUFFICES ASSUME NEW x \in Visits(o) PROVE IsMarked(x)'
    OBVIOUS
  <2>1. x \in Objects
    BY <1>5
  <2>2. CASE x = o
    BY <2>2, <1>7 DEF IsMarked
  <2>3. CASE x # o /\ White(x)
    BY <2>1, <2>3, <1>7 DEF IsMarked
  <2>4. CASE ~White(x)
    BY <2>1, <2>4, <1>1, <1>9, MarkedNotWhite
  <2>5. QED
    BY <2>2, <2>3, <2>4
<1>11. /\ Relinked(o) = None =>
              /\ \A x \in Parts(o) : IsMarked(x)'
              /\ kind[o] \notin {"weak", "allweak"}
              /\ stage = None => kind[o] \notin {"thread", "main", "ephemeron"}
       /\ Relinked(o) = "grayagain" /\ stage # None => kind[o] = "weak" /\ \A x \in Parts(o) : IsMarked(x)'
       /\ Relinked(o) = "weak" => stage # None /\ kind[o] = "weak" /\ \A x \in Keys(o) : IsMarked(x)'
       /\ Relinked(o) = "allweak" =>
              /\ kind[o] \in {"allweak", "ephemeron"} /\ (stage = None => kind[o] = "allweak")
              /\ kind[o] = "ephemeron" => \A x \in Values(o) : IsMarked(x)'
       /\ Relinked(o) = "ephemeron" => stage # None /\ kind[o] = "ephemeron"
       /\ Relinked(o) \in {None, "grayagain", "weak", "allweak", "ephemeron"}
  BY <1>1, <1>9, <1>10, VisitMarks
<1>12. \A x \in Objects : Parts(x) \subseteq Objects /\ Keys(x) \subseteq Objects /\ Values(x) \subseteq Objects
  BY <1>1, PartsType, PartsAre
<1>13. \A x : Parts(x)' = Parts(x) /\ Keys(x)' = Keys(x) /\ Values(x)' = Values(x)
  BY DEF Parts, Keys, Values
<1>14. AliveInv' /\ SweptInv' /\ DoomInv'
  <2>1. \A x \in Objects : Members(entries'[x]) \subseteq Members(entries[x])
    OBVIOUS
  <2>2. \A x \in Objects : color'[x] = color[x] \/ (IsMarked(x)' /\ x \notin doomed)
    BY <1>4, <1>5, <1>6, <1>7, <1>9 DEF IsMarked
  <2>3. Range(list'["finobj"]) \cup Range(list'["tobefnz"]) \subseteq Range(list["finobj"]) \cup Range(list["tobefnz"])
    OBVIOUS
  <2>4. KeepInvariant'
    BY DEF KeepInvariant
  <2>5. QED
    BY <2>1, <2>2, <2>3, <2>4, MarkingI
<1>15. BlackInv'
  <2> SUFFICES ASSUME NEW x \in Objects, color'[x] = "black"
               PROVE  /\ \A y \in Parts(x) : IsMarked(y)'
                      /\ kind[x] \notin {"weak", "allweak"}
                      /\ stage = None => kind[x] \notin {"thread", "main", "ephemeron"}
    BY <1>13 DEF BlackInv
  <2>1. CASE x = o
    BY <2>1, <1>7, <1>11
  <2>2. CASE x # o /\ color[x] = "black"
    BY <2>2, <1>9, <1>12 DEF IInv, MarkInv, BlackInv
  <2>3. CASE x # o /\ color[x] # "black"
    <3>1. kind[x] = "string"
      BY <2>3, <1>7
    <3>2. Parts(x) = {}
      BY <3>1, <1>1 DEF ObjectType, Parts, Members
    <3>3. QED
      BY <3>1, <3>2
  <2>4. QED
    BY <2>1, <2>2, <2>3
<1>16. GrayInv'
  <2>1. InLists' \subseteq InLists \cup {o} \cup NewGray(Visits(o))
    BY <1>8 DEF InLists, NewGray
  <2>2. (InLists \ {o}) \cup NewGray(Visits(o) \ {o}) \subseteq InLists'
    BY <1>8 DEF InLists
  <2>3. \A x \in InLists' : IsMarked(x)' /\ kind'[x] # "free"
    <3>1. \A x \in NewGray(Visits(o)) : IsMarked(x)' /\ kind[x] # "free"
      BY <1>5, <1>6, <1>10 DEF NewGray, Live
    <3>2. \A x \in InLists \cup {o} : IsMarked(x)' /\ kind[x] # "free"
      BY <1>1, <1>2, <1>3, <1>4, <1>9
    <3>3. QED
      BY <2>1, <3>1, <3>2
  <2>4. \A x \in Objects : color'[x] = "gray" => x \in InLists'
    <3> SUFFICES ASSUME NEW x \in Objects, color'[x] = "gray" PROVE x \in InLists'
      OBVIOUS
    <3>1. CASE x = o
      BY <3>1, <1>7, <1>8, <1>11 DEF InLists
    <3>2. CASE x # o /\ color[x] = "gray"
      BY <3>2, <1>3, <2>2
    <3>3. CASE x # o /\ color[x] # "gray"
      BY <3>3, <1>7, <2>2 DEF NewGray
    <3>4. QED
      BY <3>1, <3>2, <3>3
  <2>5. \A x \in Range(list'["tobefnz"]) : IsMarked(x)'
    BY <1>2, <1>3, <1>9
  <2>6. QED
    BY <2>3, <2>4, <2>5 DEF GrayInv
<1>17. EarlyInv'
  BY <1>8, <1>11 DEF IInv, MarkInv, EarlyInv
<1>18. TableInv'
  <2> SUFFICES ASSUME stage # None PROVE TableInv'
    BY DEF TableInv
  <2>1. IsMarked(main)'
    BY <1>9, MainIs DEF IInv, AtomicInv, TableInv
  <2>2. stage \in {"finalize", "reconverge"} => \A x \in Range(list["finobj"]) : IsMarked(x)'
    BY <1>2, <1>9 DEF IInv, AtomicInv, TableInv
  <2>3. stage \in {"finalize", "reconverge"} =>
          \A x \in orig.weak \cup orig.allweak : x \in Objects /\ \A y \in Values(x) : IsMarked(y)'
    BY <1>9, <1>12 DEF IInv, AtomicInv, TableInv
  <2>4. /\ grayagain \subseteq Objects /\ weak \subseteq Objects /\ allweak \subseteq Objects
    BY <1>2 DEF InLists
  <2>5. \A x \in grayagain' : kind[x] = "weak" /\ \A y \in Parts(x) : IsMarked(y)'
    BY <1>1, <1>8, <1>9, <1>11, <1>12, <2>4 DEF IInv, AtomicInv, TableInv
  <2>6. \A x \in weak' : kind[x] = "weak" /\ \A y \in Keys(x) : IsMarked(y)'
    BY <1>1, <1>8, <1>9, <1>11, <1>12, <2>4 DEF IInv, AtomicInv, TableInv
  <2>7. \A x \in allweak' : /\ kind[x] \in {"allweak", "ephemeron"}
                            /\ kind[x] = "ephemeron" => \A y \in Values(x) : IsMarked(y)'
    BY <1>1, <1>8, <1>9, <1>11, <1>12, <2>4 DEF IInv, AtomicInv, TableInv
  <2>8. \A x \in ephemeron' : kind[x] = "ephemeron"
    BY <1>8, <1>11 DEF IInv, AtomicInv, TableInv
  <2>9. QED
    BY <1>13, <2>1, <2>2, <2>3, <2>5, <2>6, <2>7, <2>8 DEF TableInv
<1>19. \A x \in Objects : color'[x] = color[x] \/ x = o \/ (x \in Visits(o) \ {o} /\ White(x))
  BY <1>7
<1>20. QED
  BY <1>9, <1>10, <1>14, <1>15, <1>16, <1>17, <1>18, <1>19 DEF MarkInv

LEMMA PropagateI ==
  ASSUME IInv, NEW o \in Objects, Propagate(o)
  PROVE  IInv'
<1>1. /\ gcstate \in {"propagate", "atomic"} /\ o \in gray /\ Traverse(o, gray \ {o}, ephemeron)
      /\ UNCHANGED <<kind, entries, list, gcstate, stage, todo, changed, orig, sweepgc, doomed>>
  BY DEF Propagate, atomicVars
<1>2. KeepInvariant
  BY <1>1 DEF KeepInvariant
<1>3. IsMarked(o) /\ kind[o] # "free" /\ Live(o)
  BY <1>1, <1>2 DEF IInv, MarkInv, GrayInv, InLists, IsMarked, Live
<1>4. \A x \in Parts(o) : kind[x] # "free"
  BY <1>3 DEF IInv, AliveInv, Live
<1>5. TInv'
  BY <1>3, <1>4, PropagateT DEF IInv
<1>6. AliveInv' /\ SweptInv' /\ DoomInv' /\ MarkInv' /\ TableInv'
  <2>1. PICK gl : gl = gray \ {o}
    OBVIOUS
  <2>2. /\ gl \subseteq gray /\ gray \subseteq gl \cup {o} /\ Traverse(o, gl, ephemeron)
        /\ o \in gray \cup todo /\ todo' \subseteq todo /\ todo \subseteq todo' \cup {o}
    BY <1>1, <2>1
  <2>3. QED
    BY <1>1, <1>2, <1>5, <2>2, TraverseI
<1>7. RoundInv'
  <2>1. stage \in {"converge", "reconverge"} => changed
    BY <1>1 DEF IInv, AtomicInv, RoundInv
  <2>2. QED
    BY <1>1, <2>1 DEF IInv, AtomicInv, RoundInv
<1>8. QED
  BY <1>5, <1>6, <1>7 DEF IInv, AtomicInv

LEMMA ConvergeTableI ==
  ASSUME IInv, NEW o \in Objects, ConvergeTable(o)
  PROVE  IInv'
<1>1. /\ gray = {} /\ o \in todo /\ stage \in {"converge", "reconverge"} /\ todo' = todo \ {o}
      /\ changed' = (changed \/ \E v \in Visits(o) \cap Values(o) : White(v))
      /\ Traverse(o, gray, ephemeron)
      /\ UNCHANGED <<kind, entries, list, gcstate, stage, orig, sweepgc, doomed>>
  BY DEF ConvergeTable, outsideAtomic
<1>2. stage # None /\ KeepInvariant /\ ObjectType
  <2>1. stage # None
    BY <1>1 DEF None
  <2>2. QED
    BY <2>1, Phases DEF IInv, TInv
<1>3. IsMarked(o) /\ kind[o] # "free" /\ Live(o)
  BY <1>1, <1>2 DEF IInv, MarkInv, GrayInv, InLists, IsMarked, Live
<1>4. \A x \in Parts(o) : kind[x] # "free"
  BY <1>3 DEF IInv, AliveInv, Live
<1>5. TInv'
  BY <1>3, <1>4, ConvergeTableT DEF IInv
<1>6. /\ AliveInv' /\ SweptInv' /\ DoomInv' /\ MarkInv' /\ TableInv'
      /\ \A x \in Objects : IsMarked(x) => IsMarked(x)'
      /\ \A x \in Objects : color'[x] = color[x] \/ x = o \/ (x \in Visits(o) \ {o} /\ White(x))
      /\ \A x \in Visits(o) : IsMarked(x)'
  <2>1. PICK gl : gl = gray
    OBVIOUS
  <2>2. /\ gl \subseteq gray /\ gray \subseteq gl \cup {o} /\ Traverse(o, gl, ephemeron)
        /\ o \in gray \cup todo /\ todo' \subseteq todo /\ todo \subseteq todo' \cup {o}
    BY <1>1, <2>1
  <2>3. UNCHANGED <<kind, entries, list, gcstate, stage, orig, doomed>>
    BY <1>1
  <2>4. QED
    BY <1>2, <1>5, <2>2, <2>3, TraverseI
<1>7. kind[o] = "ephemeron"
  BY <1>1 DEF IInv, AtomicInv, RoundInv
<1>8. /\ gray' = NewGray(Visits(o) \ {o})
      /\ ephemeron' \subseteq ephemeron \cup {o}
  BY <1>1 DEF Traverse
<1>9. /\ \A e \in entries[o] : e[1] = None \/ ~Cleared(e[1]) => e[2] \in Visits(o) \cap Values(o)
      /\ \A x \in Visits(o) : kind[x] = "string" \/ x \in Values(o)
  BY <1>7 DEF Visits, StringsIn, Values
<1>10. ASSUME ~changed'
       PROVE  /\ gray' = {}
              /\ \A x \in ephemeron' : \A e \in entries'[x] :
                   (e[1] = None \/ ~Cleared(e[1])') => IsMarked(e[2])'
  <2>1. ~changed /\ \A v \in Visits(o) \cap Values(o) : ~White(v)
    BY <1>1, <1>10
  <2>2. gray' = {}
    BY <1>8, <1>9, <2>1 DEF NewGray
  <2>3. \A x \in Objects : Cleared(x)' <=> Cleared(x)
    <3> SUFFICES ASSUME NEW x \in Objects PROVE Cleared(x)' <=> Cleared(x)
      OBVIOUS
    <3>1. Cleared(x) <=> ~IsMarked(x) /\ kind[x] # "string"
      BY <1>2, MarkedNotWhite
    <3>2. Cleared(x)' <=> ~IsMarked(x)' /\ kind[x] # "string"
      <4>1. ObjectType'
        BY <1>5 DEF TInv
      <4>2. IsMarked(x)' <=> ~White(x)'
        BY <4>1 DEF ObjectType, Colors, IsMarked, White
      <4>3. QED
        BY <1>1, <4>2 DEF Cleared
    <3>3. IsMarked(x)' => IsMarked(x) \/ kind[x] = "string"
      <4>1. CASE color'[x] = color[x]
        BY <4>1 DEF IsMarked
      <4>2. CASE x = o
        BY <4>2, <1>3
      <4>3. CASE x \in Visits(o) \ {o} /\ White(x)
        BY <4>3, <1>9, <2>1
      <4>4. QED
        BY <1>6, <4>1, <4>2, <4>3
    <3>4. QED
      BY <3>1, <3>2, <3>3, <1>6
  <2>4. \A x \in ephemeron' : \A e \in entries'[x] : (e[1] = None \/ ~Cleared(e[1])') => IsMarked(e[2])'
    <3> SUFFICES ASSUME NEW x \in ephemeron', NEW e \in entries[x], e[1] = None \/ ~Cleared(e[1])'
                 PROVE  IsMarked(e[2])'
      BY <1>1
    <3>1. x \in Objects
      BY <1>8 DEF IInv, TInv, StateType
    <3>2. e[2] \in Objects /\ e[1] \in Objects \cup {None}
      BY <1>2, <3>1, PartsType
    <3>3. e[1] = None \/ ~Cleared(e[1])
      BY <2>3, <3>2
    <3>4. CASE x = o
      BY <3>3, <3>4, <1>6, <1>9
    <3>5. CASE x # o
      <4>1. x \in ephemeron
        BY <3>5, <1>8
      <4>2. IsMarked(e[2])
        BY <1>1, <2>1, <3>3, <4>1 DEF IInv, AtomicInv, RoundInv
      <4>3. QED
        BY <4>2, <3>2, <1>6
    <3>6. QED
      BY <3>4, <3>5
  <2>5. QED
    BY <2>2, <2>4
<1>11. RoundInv'
  <2>1. \A x \in todo' : kind'[x] = "ephemeron"
    BY <1>1 DEF IInv, AtomicInv, RoundInv
  <2>2. QED
    BY <1>10, <2>1 DEF RoundInv
<1>12. QED
  BY <1>5, <1>6, <1>11 DEF IInv, AtomicInv

LEMMA SeparateI ==
  ASSUME IInv, Separate
  PROVE  IInv'
<1>1. PICK whites, due :
        /\ whites = {o \in Objects : White(o)}
        /\ due = Range(list["tobefnz"]) \cup (Range(list["finobj"]) \cap whites)
        /\ Range(list'["finobj"]) = Range(list["finobj"]) \ whites
        /\ Range(list'["tobefnz"]) = due
        /\ due \subseteq Allocated
        /\ entries' = ByValues(entries, weak \cup allweak)
        /\ color' = Marked(WithStrings(weak \cup allweak), due)
        /\ gray' = NewGray(due)
  BY SeparateStep DEF IInv
<1>2. /\ stage = "converge" /\ stage' = "finalize" /\ gray = {} /\ todo = {}
      /\ orig' = [weak |-> weak, allweak |-> allweak]
      /\ UNCHANGED <<kind, doomed, gcstate, grayagain, weak, allweak, ephemeron, todo>>
  BY SeparateStep DEF IInv
<1>3. TInv' /\ ObjectType /\ StateType
  BY SeparateT DEF IInv, TInv
<1>4. stage # None /\ stage' # None /\ KeepInvariant /\ KeepInvariant'
  <2>1. stage # None /\ stage' # None
    BY <1>2 DEF None
  <2>2. QED
    BY <1>2, <1>3, <2>1, Phases DEF KeepInvariant
<1>5. PICK tables : tables = weak \cup allweak
  OBVIOUS
<1>6. tables \in SUBSET Objects /\ InLists \subseteq Objects /\ due \subseteq Objects
      /\ Range(list["finobj"]) \subseteq Objects
  BY <1>1, <1>3, <1>5, ListIs DEF StateType, InLists, Allocated, IInv, TInv, Names
<1>7. PICK w : w = WithStrings(tables)
  OBVIOUS
<1>8. /\ w \in [Objects -> Colors]
      /\ \A o \in Objects : \/ w[o] = color[o]
                            \/ kind[o] = "string" /\ White(o) /\ w[o] = "black"
                               /\ \E x \in tables : o \in Parts(x)
      /\ \A o \in tables : \A x \in Parts(o) : kind[x] = "string" => w[x] # "white" /\ w[x] # "dead"
  BY <1>6, <1>7, WithStringsIs DEF IInv
<1>9. \A o \in Objects : \/ color'[o] = w[o] /\ (o \notin due \/ ~White(o))
                         \/ /\ o \in due /\ White(o)
                            /\ color'[o] = IF kind[o] = "string" THEN "black" ELSE "gray"
  <2>1. color' = Marked(w, due)
    BY <1>1, <1>5, <1>7
  <2>2. QED
    BY <1>3, <1>8, <2>1, MarkedIs
<1>10. /\ \A o \in Objects : color[o] = "gray" => o \in InLists
       /\ \A o \in InLists : IsMarked(o) /\ kind[o] # "free"
       /\ \A o \in Range(list["tobefnz"]) : IsMarked(o)
  BY <1>4 DEF IInv, MarkInv, GrayInv
<1>11. \A o \in Objects : IsMarked(o) => IsMarked(o)' /\ color'[o] = color[o]
  BY <1>3, <1>8, <1>9, MarkedNotWhite DEF IsMarked
<1>12. \A o \in due : IsMarked(o)'
  <2> SUFFICES ASSUME NEW o \in due PROVE IsMarked(o)'
    OBVIOUS
  <2>1. CASE White(o)
    BY <1>6, <1>9, <2>1 DEF IsMarked
  <2>2. CASE ~White(o)
    BY <1>3, <1>6, <1>11, <2>2, MarkedNotWhite
  <2>3. QED
    BY <2>1, <2>2
<1>13. \A o \in Objects : Members(entries'[o]) \subseteq Members(entries[o])
  <2>1. \A o \in Objects : entries'[o] \subseteq entries[o]
    BY <1>1, ClearedIs
  <2>2. QED
    BY <2>1, MembersIs
<1>14. \A o \in Objects : /\ Parts(o)' \subseteq Parts(o) /\ Keys(o)' \subseteq Keys(o) /\ Values(o)' \subseteq Values(o)
                          /\ Parts(o) \subseteq Objects /\ Parts(o) = Keys(o) \cup Values(o)
  <2>1. \A o \in Objects : entries'[o] \subseteq entries[o]
    BY <1>1, ClearedIs
  <2>2. \A o \in Objects : Keys(o)' \subseteq Keys(o) /\ Values(o)' \subseteq Values(o)
    BY <2>1 DEF Keys, Values
  <2>3. \A o \in Objects : Parts(o)' \subseteq Parts(o)
    BY <1>13 DEF Parts
  <2>4. QED
    BY <1>3, <2>2, <2>3, PartsType, PartsAre
<1>15. \A o \in Objects : color'[o] = color[o] \/ (IsMarked(o)' /\ o \notin doomed)
  <2> SUFFICES ASSUME NEW o \in Objects, color'[o] # color[o]
               PROVE  IsMarked(o)' /\ o \notin doomed
    OBVIOUS
  <2>1. CASE o \in due
    BY <1>1, <1>4, <1>12, <2>1 DEF IInv, DoomInv
  <2>2. CASE o \notin due
    <3>1. color'[o] = "black"
      BY <1>8, <1>9, <2>2
    <3>2. PICK x \in tables : o \in Parts(x)
      BY <1>8, <1>9, <2>2
    <3>3. x \in Objects /\ IsMarked(x)
      BY <1>5, <1>6, <1>10 DEF InLists
    <3>4. x \notin doomed
      BY <1>4, <3>3 DEF IInv, DoomInv, IsMarked
    <3>5. QED
      BY <1>4, <3>1, <3>2, <3>3, <3>4 DEF IInv, DoomInv, IsMarked
  <2>3. QED
    BY <2>1, <2>2
<1>16. AliveInv' /\ SweptInv' /\ DoomInv'
  <2>1. Range(list'["finobj"]) \cup Range(list'["tobefnz"]) \subseteq Range(list["finobj"]) \cup Range(list["tobefnz"])
    BY <1>1
  <2>2. QED
    BY <1>2, <1>3, <1>4, <1>13, <1>15, <2>1, MarkingI
<1>17. BlackInv'
  <2> SUFFICES ASSUME NEW o \in Objects, color'[o] = "black"
               PROVE  (\A x \in Parts(o)' : IsMarked(x)') /\ kind[o] \notin {"weak", "allweak"}
    BY <1>2, <1>4 DEF BlackInv
  <2>1. CASE color[o] = "black"
    BY <1>4, <1>11, <1>14, <2>1 DEF IInv, MarkInv, BlackInv
  <2>2. CASE color[o] # "black"
    <3>1. kind[o] = "string"
      BY <1>8, <1>9, <2>2
    <3>2. Parts(o) = {}
      BY <1>3, <3>1 DEF ObjectType, Parts, Members
    <3>3. QED
      BY <1>14, <3>1, <3>2
  <2>3. QED
    BY <2>1, <2>2
<1>18. GrayInv'
  <2>1. InLists' = InLists \cup NewGray(due)
    BY <1>1, <1>2 DEF InLists
  <2>2. \A o \in Objects : color'[o] = "gray" => o \in InLists \cup NewGray(due)
    <3> SUFFICES ASSUME NEW o \in Objects, color'[o] = "gray", color[o] # "gray" PROVE o \in NewGray(due)
      BY <1>10
    <3>1. o \in due /\ White(o) /\ kind[o] # "string"
      BY <1>8, <1>9
    <3>2. QED
      BY <3>1 DEF NewGray
  <2>3. \A o \in InLists \cup NewGray(due) : IsMarked(o)' /\ kind'[o] # "free"
    BY <1>1, <1>2, <1>6, <1>10, <1>11, <1>12 DEF NewGray, Allocated
  <2>4. QED
    BY <1>1, <1>12, <2>1, <2>2, <2>3 DEF GrayInv
<1>19. EarlyInv'
  BY <1>4 DEF EarlyInv
<1>20. TableInv'
  <2>1. IsMarked(main)'
    BY <1>4, <1>11, MainIs DEF IInv, AtomicInv, TableInv
  <2>2. \A o \in Range(list'["finobj"]) : IsMarked(o)'
    BY <1>1, <1>3, <1>6, <1>11, MarkedNotWhite
  <2>3. \A o \in tables : \A x \in Values(o)' : IsMarked(x)'
    <3> SUFFICES ASSUME NEW o \in tables, NEW x \in Values(o)' PROVE IsMarked(x)'
      OBVIOUS
    <3>1. o \in Objects /\ entries'[o] = {e \in entries[o] : ~Cleared(e[2])}
      <4>1. entries' = ByValues(entries, tables) /\ o \in Objects
        BY <1>1, <1>5, <1>6
      <4>2. QED
        BY <4>1, ClearedIs
    <3>2. x \in Objects /\ x \in Parts(o) /\ ~Cleared(x)
      BY <1>14, <3>1 DEF Values
    <3>3. CASE IsMarked(x)
      BY <1>11, <3>1, <3>2, <3>3
    <3>4. CASE ~IsMarked(x)
      <4>1. kind[x] = "string" /\ White(x)
        BY <1>3, <3>2, <3>4, MarkedNotWhite
      <4>2. w[x] \in {"gray", "black"}
        BY <1>8, <3>2, <4>1 DEF Colors
      <4>3. QED
        BY <1>9, <3>1, <3>2, <4>1, <4>2 DEF IsMarked
    <3>5. QED
      BY <3>3, <3>4
  <2>4. orig'.weak \cup orig'.allweak = tables
    BY <1>2, <1>5
  <2>5. /\ \A o \in grayagain : kind[o] = "weak" /\ \A x \in Parts(o) : IsMarked(x)
        /\ \A o \in weak : kind[o] = "weak" /\ \A x \in Keys(o) : IsMarked(x)
        /\ \A o \in allweak : /\ kind[o] \in {"allweak", "ephemeron"}
                              /\ kind[o] = "ephemeron" => \A x \in Values(o) : IsMarked(x)
        /\ \A o \in ephemeron : kind[o] = "ephemeron"
    BY <1>4 DEF IInv, AtomicInv, TableInv
  <2>6. grayagain \subseteq Objects /\ weak \subseteq Objects /\ allweak \subseteq Objects
    BY <1>6 DEF InLists
  <2>7. /\ \A o \in grayagain : \A x \in Parts(o)' : IsMarked(x)'
        /\ \A o \in weak : \A x \in Keys(o)' : IsMarked(x)'
        /\ \A o \in allweak : kind[o] = "ephemeron" => \A x \in Values(o)' : IsMarked(x)'
    BY <1>11, <1>14, <2>5, <2>6
  <2>8. QED
    BY <1>2, <1>6, <2>1, <2>2, <2>3, <2>4, <2>5, <2>7 DEF TableInv
<1>21. RoundInv'
  BY <1>2 DEF RoundInv
<1>22. QED
  BY <1>3, <1>16, <1>17, <1>18, <1>19, <1>20, <1>21 DEF IInv, MarkInv, AtomicInv

\* When atomic ends, a marked object is either black or in a list of tables,
\* and clearing leaves it with marked objects and strings only.
LEMMA ClearedMarked ==
  ASSUME IInv, stage = "reconverge", gray = {}, todo = {}, ~changed,
         NEW late, late = (weak \ orig.weak) \cup (allweak \ orig.allweak),
         NEW byKeys, byKeys = ephemeron \cup allweak,
         NEW o \in Objects, IsMarked(o),
         NEW e \in ByValues(ByKeys(entries, byKeys), late)[o]
  PROVE  /\ IsMarked(e[2]) \/ (kind[e[2]] = "string" /\ o \in late)
         /\ e[1] = None \/ IsMarked(e[1]) \/ (kind[e[1]] = "string" /\ o \in byKeys)
         /\ e \in entries[o]
<1>1. stage # None /\ KeepInvariant /\ ObjectType
  <2>1. stage # None
    BY DEF None
  <2>2. QED
    BY <2>1, Phases DEF IInv, TInv
<1>2. PICK mid : mid = ByKeys(entries, byKeys)
  OBVIOUS
<1>3. /\ e \in mid[o] /\ (o \in late => ~Cleared(e[2]))
      /\ e \in entries[o] /\ (o \in byKeys => e[1] = None \/ ~Cleared(e[1]))
  <2>1. ByValues(mid, late)[o] = IF o \in late THEN {f \in mid[o] : ~Cleared(f[2])} ELSE mid[o]
    BY DEF ByValues
  <2>2. mid[o] = IF o \in byKeys THEN {f \in entries[o] : f[1] = None \/ ~Cleared(f[1])} ELSE entries[o]
    BY <1>2 DEF ByKeys
  <2>3. e \in ByValues(mid, late)[o]
    BY <1>2
  <2>4. QED
    BY <2>1, <2>2, <2>3
<1>4. /\ e[2] \in Objects /\ e[1] \in Objects \cup {None} /\ None \notin Objects
      /\ e[2] \in Values(o) /\ e[2] \in Parts(o)
      /\ e[1] # None => e[1] \in Keys(o) /\ e[1] \in Parts(o)
  <2>1. e[2] \in Values(o) /\ (e[1] # None => e[1] \in Keys(o))
    BY <1>3 DEF Values, Keys
  <2>2. QED
    BY <1>1, <1>3, <2>1, PartsType, PartsAre, NoName DEF None
<1>5. /\ ~Cleared(e[2]) => IsMarked(e[2]) \/ kind[e[2]] = "string"
      /\ e[1] # None /\ ~Cleared(e[1]) => IsMarked(e[1]) \/ kind[e[1]] = "string"
  BY <1>1, <1>4, MarkedNotWhite
<1>6. CASE color[o] = "black"
  BY <1>1, <1>3, <1>4, <1>6 DEF IInv, MarkInv, BlackInv
<1>7. CASE color[o] # "black"
  <2>1. o \in grayagain \cup weak \cup allweak \cup ephemeron
    BY <1>1, <1>7 DEF IInv, MarkInv, GrayInv, InLists, IsMarked
  <2>2. ASSUME o \in weak \cup allweak PROVE IsMarked(e[2]) \/ (kind[e[2]] = "string" /\ o \in late)
    <3>1. CASE o \in late
      BY <1>3, <1>5, <3>1
    <3>2. CASE o \notin late
      <4>1. o \in orig.weak \cup orig.allweak
        BY <2>2, <3>2
      <4>2. QED
        BY <1>1, <1>4, <4>1 DEF IInv, AtomicInv, TableInv
    <3>3. QED
      BY <3>1, <3>2
  <2>3. ASSUME o \in byKeys PROVE e[1] = None \/ IsMarked(e[1]) \/ (kind[e[1]] = "string" /\ o \in byKeys)
    BY <1>3, <1>5, <2>3
  <2>4. CASE o \in grayagain
    BY <1>1, <1>3, <1>4, <2>4 DEF IInv, AtomicInv, TableInv
  <2>5. CASE o \in weak
    BY <1>1, <1>3, <1>4, <2>2, <2>5 DEF IInv, AtomicInv, TableInv
  <2>6. CASE o \in allweak
    BY <1>3, <2>2, <2>3, <2>6
  <2>7. CASE o \in ephemeron
    <3>1. IsMarked(e[2])
      BY <1>3, <2>7 DEF IInv, AtomicInv, RoundInv
    <3>2. QED
      BY <1>3, <2>3, <2>7, <3>1
  <2>8. QED
    BY <2>1, <2>4, <2>5, <2>6, <2>7
<1>8. QED
  BY <1>6, <1>7

LEMMA FinishAtomicI ==
  ASSUME IInv, FinishAtomic
  PROVE  IInv'
<1>1. /\ stage = "reconverge" /\ gray = {} /\ todo = {} /\ ~changed /\ stage # None
      /\ gcstate' = "swpallgc"
  BY DEF FinishAtomic, Converged, At, None
<1>2. KeepInvariant /\ ObjectType /\ TInv
  BY <1>1, Phases DEF IInv, TInv
<1>3. IsMarked(main) /\ main \in Objects /\ ~White(main)
  BY <1>1, <1>2, MainIs, MarkedNotWhite DEF IInv, AtomicInv, TableInv
<1>4. PICK late, byKeys, col, ents, r :
           /\ late \in SUBSET Objects /\ byKeys \in SUBSET Objects
           /\ late = (weak \ orig.weak) \cup (allweak \ orig.allweak) /\ byKeys = ephemeron \cup allweak
           /\ col = Flipped(WithStrings(late \cup byKeys))
           /\ ents = ByValues(ByKeys(entries, byKeys), late)
           /\ Sweepable(col, ents) /\ SweepsBehind(list, "allgc", col, r) /\ Sweep(r, col, ents)
           /\ list' = Without(list, r.gone) /\ doomed' = doomed \ r.gone
  BY <1>2, <1>3, FinishStep
<1>5. TInv' /\ ~KeepInvariant'
  BY <1>1, <1>2, <1>3, FinishAtomicT DEF KeepInvariant
<1>6. PICK w : w = WithStrings(late \cup byKeys)
  OBVIOUS
<1>7. /\ w \in [Objects -> Colors]
      /\ \A o \in Objects : \/ w[o] = color[o]
                            \/ kind[o] = "string" /\ White(o) /\ w[o] = "black"
                               /\ \E x \in late \cup byKeys : o \in Parts(x)
      /\ \A o \in late \cup byKeys : \A x \in Parts(o) : kind[x] = "string" => w[x] # "white" /\ w[x] # "dead"
  <2>1. late \cup byKeys \in SUBSET Objects
    BY <1>4
  <2>2. QED
    BY <1>2, <1>6, <2>1, WithStringsIs
<1>8. \A o \in Objects : /\ color[o] # "dead" /\ w[o] # "dead"
                         /\ col[o] = IF w[o] = "white" /\ kind[o] # "free" THEN "dead" ELSE w[o]
  <2>1. \A o \in Objects : color[o] # "dead"
    BY <1>2 DEF IInv, AliveInv
  <2>2. QED
    BY <1>4, <1>6, <1>7, <2>1 DEF Flipped
<1>9. \A o \in Objects : kind[o] # "free" => (LiveIn(col, o) <=> w[o] \in {"gray", "black"})
  BY <1>7, <1>8 DEF LiveIn, Colors
<1>10. \A o \in Objects : IsMarked(o) => w[o] \in {"gray", "black"}
  BY <1>7 DEF IsMarked
<1>11. SealedIn(col, ents)
  <2> SUFFICES ASSUME NEW o \in Objects, LiveIn(col, o), NEW x \in Members(ents[o])
               PROVE  x \in Objects /\ LiveIn(col, x)
    BY DEF SealedIn
  <2>2. PICK e \in ents[o] : x = e[2] \/ (x = e[1] /\ x # None)
    BY MembersIs
  <2>3. IsMarked(o)
    <3>1. kind[o] # "free" /\ w[o] \in {"gray", "black"}
      BY <1>9 DEF LiveIn
    <3>2. CASE kind[o] = "string"
      BY <1>4, <2>2, <3>2 DEF Sweepable
    <3>3. CASE kind[o] # "string"
      BY <1>7, <3>1, <3>3 DEF IsMarked
    <3>4. QED
      BY <3>2, <3>3
  <2>4. /\ IsMarked(e[2]) \/ (kind[e[2]] = "string" /\ o \in late)
        /\ e[1] = None \/ IsMarked(e[1]) \/ (kind[e[1]] = "string" /\ o \in byKeys)
        /\ e \in entries[o]
    BY <1>1, <1>4, <2>2, <2>3, ClearedMarked
  <2>5. x \in Parts(o) /\ x \in Objects
    BY <1>2, <2>2, <2>4, MembersIs, PartsType DEF Parts
  <2>6. Live(o)
    BY <1>2, <1>8, <2>3 DEF LiveIn, Live
  <2>7. kind[x] # "free"
    BY <2>5, <2>6 DEF IInv, AliveInv, Live
  <2>8. IsMarked(x) \/ (kind[x] = "string" /\ o \in late \cup byKeys)
    BY <2>2, <2>4
  <2>9. w[x] \in {"gray", "black"}
    <3>1. CASE IsMarked(x)
      BY <1>10, <2>5, <3>1
    <3>2. CASE kind[x] = "string" /\ o \in late \cup byKeys
      BY <1>7, <2>5, <3>2 DEF Colors
    <3>3. QED
      BY <2>8, <3>1, <3>2
  <2>10. QED
    BY <1>9, <2>5, <2>7, <2>9
<1>12. r.gone \in SUBSET Allocated
  BY <1>2, <1>4, SweepObjects
<1>13. PICK X : X = {}
  OBVIOUS
<1>14. /\ \A q, x : q \notin r.gone \cup X /\ x \notin r.gone \cup X /\ IsBehind(list, q, x) => IsBehind(list', q, x)
       /\ \A n \in Names \ {"allgc"} : Range(list[n]) \ (r.gone \cup X) \subseteq Range(list'[n])
       /\ Range(list'["finobj"]) \subseteq Range(list["finobj"])
       /\ Range(list'["tobefnz"]) \subseteq Range(list["tobefnz"])
  BY <1>2, <1>4, <1>12, <1>13, SweptLists
<1>15. \A o \in Range(list'["finobj"]) \cup Range(list'["tobefnz"]) : o \in Objects /\ LiveIn(col, o)
  <2>1. \A o \in Range(list["finobj"]) \cup Range(list["tobefnz"]) : o \in Objects /\ kind[o] # "free"
    BY <1>2, ListIs DEF TInv, Names, IInv, AliveInv, Live
  <2>2. \A o \in Range(list["finobj"]) \cup Range(list["tobefnz"]) : IsMarked(o)
    BY <1>1, <1>2 DEF IInv, MarkInv, GrayInv, AtomicInv, TableInv
  <2>3. QED
    BY <1>9, <1>10, <1>14, <2>1, <2>2
<1>16. \A o \in Objects : col[o] # "white" => Unswept(gcstate', list, "allgc", o)
  <2>1. \A o \in Objects : col[o] # "white" => o \in Allocated
    BY <1>4 DEF Sweepable, Allocated
  <2>2. QED
    BY <1>1, <1>2, <2>1, AllUnswept
<1>17. \A o \in doomed' : o \in Objects \ r.gone /\ col[o] = "dead"
  <2> SUFFICES ASSUME NEW o \in doomed, o \notin r.gone PROVE o \in Objects /\ col[o] = "dead"
    BY <1>4
  <2>1. o \in Objects /\ color[o] = "white" /\ kind[o] # "free"
    BY <1>2 DEF IInv, DoomInv
  <2>2. \A x \in late \cup byKeys : x \in Objects /\ o \notin Parts(x)
    <3> SUFFICES ASSUME NEW x \in late \cup byKeys PROVE x \in Objects /\ o \notin Parts(x)
      OBVIOUS
    <3>1. x \in InLists /\ x \in Objects
      BY <1>4 DEF InLists
    <3>2. IsMarked(x)
      BY <1>2, <3>1 DEF IInv, MarkInv, GrayInv
    <3>3. x \notin doomed
      BY <1>2, <3>2 DEF IInv, DoomInv, IsMarked
    <3>4. QED
      BY <1>2, <3>1, <3>3 DEF IInv, DoomInv
  <2>3. w[o] = "white"
    BY <1>7, <2>1, <2>2
  <2>4. QED
    BY <1>8, <2>1, <2>3
<1>18. (\A x \in X : col[x] = "white") /\ r.next \notin X
  BY <1>13
<1>19. "allgc" \in Names \cup Allocated \cup {None}
  BY DEF Names
<1>20. /\ Sweepable(col, ents) /\ SweepsBehind(list, "allgc", col, r) /\ Sweep(r, col, ents)
       /\ doomed' = doomed \ r.gone
  BY <1>4
<1>21. QED
  BY <1>2, <1>5, <1>11, <1>14, <1>15, <1>16, <1>17, <1>18, <1>19, <1>20, SweepI

-----------------------------------------------------------------------------
(* What can be reached: a function applied as often as there are objects.  *)

Round(f, G, S, n) == IF n = 0 THEN S ELSE G[f[n - 1]]

\* G adds objects to a set of them, beginning with S.
Widens(G, S, O) ==
  /\ G \in [SUBSET O -> SUBSET O] /\ \A T \in SUBSET O : T \subseteq G[T]
  /\ S \in SUBSET O

Rounds(f, G, S, O, N) == f \in [0 .. N -> SUBSET O] /\ \A n \in 0 .. N : f[n] = Round(f, G, S, n)

LEMMA RoundsExist ==
  ASSUME NEW O, NEW G, NEW S, Widens(G, S, O), NEW N \in Nat
  PROVE  \E f : Rounds(f, G, S, O, N)
<1> DEFINE T == {m \in Nat : \E f \in [0 .. m -> SUBSET O] : \A n \in 0 .. m : f[n] = Round(f, G, S, n)}
<1>1. 0 \in T
  <2>1. PICK f : f = [n \in 0 .. 0 |-> S]
    OBVIOUS
  <2>2. \A n \in 0 .. 0 : Round(f, G, S, n) = S
    BY DEF Round
  <2>3. (\A n \in 0 .. 0 : f[n] = Round(f, G, S, n)) /\ f \in [0 .. 0 -> SUBSET O]
    BY <2>1, <2>2 DEF Widens
  <2>4. QED
    BY <2>3
<1>2. ASSUME NEW m \in Nat, m \in T PROVE m + 1 \in T
  <2>1. PICK f \in [0 .. m -> SUBSET O] : \A n \in 0 .. m : f[n] = Round(f, G, S, n)
    BY <1>2
  <2>2. PICK g : g = [n \in 0 .. m + 1 |-> IF n = m + 1 THEN G[f[m]] ELSE f[n]]
    OBVIOUS
  <2>3. g \in [0 .. m + 1 -> SUBSET O]
    <3>1. \A n \in 0 .. m + 1 : n # m + 1 => n \in 0 .. m
      OBVIOUS
    <3>2. G[f[m]] \in SUBSET O
      BY DEF Widens
    <3>3. QED
      BY <2>2, <3>1, <3>2
  <2>4. \A n \in 0 .. m + 1 : g[n] = Round(g, G, S, n)
    <3> TAKE n \in 0 .. m + 1
    <3>1. CASE n = m + 1
      <4>1. n # 0 /\ n - 1 = m /\ m \in 0 .. m + 1 /\ m # m + 1
        BY <3>1
      <4>2. g[n - 1] = f[m] /\ g[n] = G[f[m]]
        BY <2>2, <3>1, <4>1
      <4>3. QED
        BY <4>1, <4>2 DEF Round
    <3>2. CASE n # m + 1
      <4>1. n \in 0 .. m /\ g[n] = f[n]
        BY <2>2, <3>2
      <4>2. f[n] = Round(f, G, S, n)
        BY <2>1, <4>1
      <4>3. n # 0 => g[n - 1] = f[n - 1]
        BY <2>2, <4>1
      <4>4. QED
        BY <4>1, <4>2, <4>3 DEF Round
    <3>3. QED
      BY <3>1, <3>2
  <2>5. QED
    BY <2>3, <2>4
<1> HIDE DEF T
<1>3. \A n \in Nat : n \in T
  BY <1>1, <1>2, SetInduction
<1>4. QED
  BY <1>3 DEF T, Rounds

\* After that many rounds nothing new is found.
LEMMA RoundsEnd ==
  ASSUME NEW O, IsFiniteSet(O), NEW G, NEW S, Widens(G, S, O),
         NEW N, N = Cardinality(O), NEW f, Rounds(f, G, S, O, N)
  PROVE  S \subseteq f[N] /\ G[f[N]] = f[N] /\ f[N] \in SUBSET O
<1>1. /\ N \in Nat
      /\ f \in [0 .. N -> SUBSET O] /\ \A n \in 0 .. N : f[n] = Round(f, G, S, n)
      /\ G \in [SUBSET O -> SUBSET O] /\ \A T \in SUBSET O : T \subseteq G[T]
      /\ S \in SUBSET O
  BY FS_CardinalityType DEF Rounds, Widens
<1>2. f[0] = S
  BY <1>1 DEF Round
<1>3. \A n \in 0 .. N : n + 1 <= N => f[n + 1] = G[f[n]] /\ f[n] \subseteq f[n + 1]
  <2> TAKE n \in 0 .. N
  <2> SUFFICES ASSUME n + 1 <= N PROVE f[n + 1] = G[f[n]] /\ f[n] \subseteq f[n + 1]
    OBVIOUS
  <2>1. n + 1 \in 0 .. N /\ n + 1 # 0 /\ (n + 1) - 1 = n
    BY <1>1
  <2>2. f[n + 1] = Round(f, G, S, n + 1)
    BY <1>1, <2>1
  <2>3. QED
    BY <1>1, <2>1, <2>2 DEF Round
<1> DEFINE T == {n \in Nat : n <= N => /\ S \subseteq f[n]
                                       /\ G[f[n]] = f[n] \/ Cardinality(f[n]) >= n}
<1>4. 0 \in T
  <2>1. IsFiniteSet(S)
    BY <1>1, FS_Subset
  <2>2. Cardinality(S) \in Nat
    BY <2>1, FS_CardinalityType
  <2>3. QED
    BY <1>2, <2>2
<1>5. ASSUME NEW n \in Nat, n \in T PROVE n + 1 \in T
  <2> SUFFICES ASSUME n + 1 <= N
               PROVE  /\ S \subseteq f[n + 1]
                      /\ G[f[n + 1]] = f[n + 1] \/ Cardinality(f[n + 1]) >= n + 1
    OBVIOUS
  <2>1. n \in 0 .. N /\ n + 1 \in 0 .. N
    BY <1>1
  <2>2. f[n + 1] = G[f[n]] /\ f[n] \subseteq f[n + 1] /\ f[n] \in SUBSET O /\ f[n + 1] \in SUBSET O
    BY <1>1, <1>3, <2>1
  <2>3. S \subseteq f[n] /\ (G[f[n]] = f[n] \/ Cardinality(f[n]) >= n)
    BY <1>5, <2>1
  <2>4. CASE G[f[n]] = f[n]
    BY <2>2, <2>3, <2>4
  <2>5. CASE G[f[n]] # f[n]
    <3>1. IsFiniteSet(f[n]) /\ IsFiniteSet(f[n + 1])
      BY <2>2, FS_Subset
    <3>2. PICK a, b : a = Cardinality(f[n]) /\ b = Cardinality(f[n + 1])
      OBVIOUS
    <3>3. a \in Nat /\ b \in Nat
      BY <3>1, <3>2, FS_CardinalityType
    <3>4. a <= b /\ a # b
      BY <2>2, <2>5, <3>1, <3>2, FS_Subset
    <3>5. a >= n
      BY <2>3, <2>5, <3>2
    <3>6. b >= n + 1
      BY ONLY <3>3, <3>4, <3>5, n \in Nat
    <3>7. QED
      BY <2>2, <2>3, <3>2, <3>6
  <2>6. QED
    BY <2>4, <2>5
<1>6. N \in T
  <2> HIDE DEF T
  <2>1. \A n \in Nat : n \in T
    BY <1>4, <1>5, SetInduction
  <2>2. QED
    BY <1>1, <2>1
<1>7. S \subseteq f[N] /\ (G[f[N]] = f[N] \/ Cardinality(f[N]) >= N) /\ f[N] \in SUBSET O
  BY <1>1, <1>6
<1>8. CASE Cardinality(f[N]) >= N
  <2>1. Cardinality(f[N]) <= N /\ Cardinality(f[N]) \in Nat
    BY <1>7, FS_Subset, FS_CardinalityType
  <2>2. Cardinality(f[N]) = Cardinality(O)
    BY <1>1, <1>8, <2>1
  <2>3. f[N] = O
    BY <1>7, <2>2, FS_Subset
  <2>4. G[O] \in SUBSET O /\ O \subseteq G[O]
    BY <1>1
  <2>5. QED
    BY <1>7, <2>3, <2>4
<1>9. QED
  BY <1>7, <1>8

\* Closure contains S and is closed.
LEMMA ClosureIs ==
  ASSUME NEW S \in SUBSET Objects, NEW next \in [Objects -> SUBSET Objects]
  PROVE  S \subseteq Closure(S, next) /\ Closure(S, next) \subseteq Objects
         /\ \A x \in Closure(S, next) : next[x] \subseteq Closure(S, next)
<1>1. PICK N : N = Cardinality(Objects)
  OBVIOUS
<1>2. N \in Nat /\ IsFiniteSet(Objects)
  BY <1>1, CollectorAssumption, FS_CardinalityType
<1> DEFINE Nearer(T) == T \cup UNION {next[x] : x \in T}
<1>0. PICK G : G = [T \in SUBSET Objects |-> Nearer(T)]
  OBVIOUS
<1>3. /\ Widens(G, S, Objects)
      /\ \A T \in SUBSET Objects : G[T] = Nearer(T) /\ G[T] \in SUBSET Objects
  BY <1>0 DEF Widens
<1>4. PICK f : /\ f = CHOOSE h : h = [n \in 0 .. N |-> IF n = 0 THEN S ELSE Nearer(h[n - 1])]
               /\ Closure(S, next) = f[N]
  BY <1>1 DEF Closure
<1>5. f = [n \in 0 .. N |-> IF n = 0 THEN S ELSE Nearer(f[n - 1])]
  <2>0. PICK h : Rounds(h, G, S, Objects, N)
    BY <1>2, <1>3, RoundsExist
  <2>1. h \in [0 .. N -> SUBSET Objects] /\ \A n \in 0 .. N : h[n] = Round(h, G, S, n)
    BY <2>0 DEF Rounds
  <2>2. ASSUME NEW n \in 0 .. N PROVE h[n] = IF n = 0 THEN S ELSE Nearer(h[n - 1])
    <3>1. h[n] = IF n = 0 THEN S ELSE G[h[n - 1]]
      BY <2>1 DEF Round
    <3>2. n # 0 => n - 1 \in 0 .. N
      BY <1>2
    <3>3. n # 0 => h[n - 1] \in SUBSET Objects
      BY <2>1, <3>2
    <3>4. n # 0 => G[h[n - 1]] = Nearer(h[n - 1])
      BY <1>3, <3>3
    <3>5. QED
      BY <3>1, <3>4
  <2>3. PICK k : k = [n \in 0 .. N |-> IF n = 0 THEN S ELSE Nearer(h[n - 1])]
    OBVIOUS
  <2>4. \A n \in 0 .. N : h[n] = k[n]
    BY <2>2, <2>3
  <2>5. h = k
    BY <2>1, <2>3, <2>4
  <2>6. h = [n \in 0 .. N |-> IF n = 0 THEN S ELSE Nearer(h[n - 1])]
    BY <2>3, <2>5
  <2>7. QED
    BY <1>4, <2>6
<1>6. Rounds(f, G, S, Objects, N)
  <2> DEFINE T == {n \in Nat : n <= N => f[n] \in SUBSET Objects /\ f[n] = Round(f, G, S, n)}
  <2>1. 0 \in T
    BY <1>2, <1>5 DEF Round
  <2>2. ASSUME NEW n \in Nat, n \in T PROVE n + 1 \in T
    <3> SUFFICES ASSUME n + 1 <= N PROVE f[n + 1] \in SUBSET Objects /\ f[n + 1] = Round(f, G, S, n + 1)
      OBVIOUS
    <3>1. n <= N /\ n + 1 \in 0 .. N /\ n + 1 # 0 /\ (n + 1) - 1 = n
      BY <1>2
    <3>2. f[n] \in SUBSET Objects
      BY <2>2, <3>1
    <3>3. f[n + 1] = Nearer(f[n])
      BY <1>5, <3>1
    <3>4. G[f[n]] = Nearer(f[n]) /\ G[f[n]] \in SUBSET Objects
      BY <1>3, <3>2
    <3>5. QED
      BY <3>1, <3>3, <3>4 DEF Round
  <2>3. \A n \in Nat : n \in T
    <3> HIDE DEF T
    <3>1. QED
      BY <2>1, <2>2, SetInduction
  <2>4. \A n \in 0 .. N : f[n] \in SUBSET Objects /\ f[n] = Round(f, G, S, n)
    BY <1>2, <2>3
  <2>5. QED
    BY <1>5, <2>4 DEF Rounds
<1>7. S \subseteq f[N] /\ G[f[N]] = f[N] /\ f[N] \in SUBSET Objects
  BY <1>1, <1>2, <1>3, <1>6, RoundsEnd
<1>8. Nearer(f[N]) = f[N]
  BY <1>3, <1>7
<1>9. \A x \in f[N] : next[x] \subseteq Nearer(f[N])
  OBVIOUS
<1> HIDE DEF Nearer
<1>10. QED
  BY <1>4, <1>7, <1>8, <1>9

\* What is kept is useful, and so is what useful objects hold.
LEMMA UsefulIs ==
  ASSUME TInv
  PROVE  /\ Useful \subseteq Objects
         /\ {main} \cup Range(list["finobj"]) \cup Range(list["tobefnz"]) \subseteq Useful
         /\ \A o \in Useful : Parts(o) \subseteq Useful
<1>1. PICK S, next : S = Kept /\ next = [o \in Objects |-> Keys(o) \cup Values(o)]
  OBVIOUS
<1>2. Useful = Closure(S, next)
  BY <1>1 DEF Useful
<1>3. \A o \in Objects : next[o] = Parts(o) /\ Parts(o) \subseteq Objects
  BY <1>1, PartsAre, PartsType DEF TInv
<1>4. next \in [Objects -> SUBSET Objects]
  <2>1. \A o \in Objects : Keys(o) \cup Values(o) \in SUBSET Objects
    BY PartsAre, PartsType DEF TInv
  <2>2. QED
    BY <1>1, <2>1
<1>5. S \in SUBSET Objects
  BY <1>1, MainIs, ListIs DEF TInv, Kept, Listed, Names
<1>6. /\ S \subseteq Useful /\ Useful \subseteq Objects
      /\ \A x \in Useful : next[x] \subseteq Useful
  BY <1>2, <1>4, <1>5, ClosureIs
<1>7. {main} \cup Range(list["finobj"]) \cup Range(list["tobefnz"]) \subseteq S
  BY <1>1 DEF Kept, Listed
<1>8. QED
  BY <1>3, <1>6, <1>7

\* A cycle begins when everything is white.
LEMMA RestartI ==
  ASSUME IInv, Restart
  PROVE  IInv'
<1>1. PICK roots : roots = {main} \cup Listed("tobefnz")
  OBVIOUS
<1>2. /\ gcstate = "pause" /\ gcstate' \in {"propagate", "enteratomic"}
      /\ color' = Marked(color, roots) /\ gray' = NewGray(roots)
      /\ grayagain' = {} /\ weak' = {} /\ allweak' = {} /\ ephemeron' = {}
      /\ doomed' = Allocated \ Useful
      /\ UNCHANGED <<kind, entries, list, stage, todo, orig>>
  BY <1>1 DEF Restart, atomicVars
<1>3. /\ TInv /\ TInv' /\ ObjectType /\ stage = None /\ stage' = None /\ todo' = {}
      /\ stage \notin {"converge", "reconverge", "finalize", "roots"} /\ KeepInvariant'
  BY <1>2, RestartT DEF IInv, TInv, StateType, None, KeepInvariant
<1>4. roots \subseteq Useful /\ roots \subseteq Objects /\ (\A o \in roots : kind[o] # "free") /\ main \in roots
  <2>1. roots \subseteq Useful /\ Useful \subseteq Objects /\ main \in roots
    BY <1>1, <1>3, UsefulIs DEF Listed
  <2>2. roots \subseteq Allocated
    BY <1>1, <1>3, MainIs, ListIs DEF TInv, Lists, Listed, Names
  <2>3. QED
    BY <2>1, <2>2 DEF Allocated
<1>5. \A o \in Objects : color[o] = "white" /\ White(o)
  BY <1>2, AllWhite DEF White
<1>6. \A o \in Objects : color'[o] = IF o \in roots THEN IF kind[o] = "string" THEN "black" ELSE "gray" ELSE "white"
  <2>1. color \in [Objects -> Colors]
    BY <1>3 DEF ObjectType
  <2>2. \A o \in Objects : \/ Marked(color, roots)[o] = color[o] /\ (o \notin roots \/ ~White(o))
                           \/ /\ o \in roots /\ White(o)
                              /\ Marked(color, roots)[o] = IF kind[o] = "string" THEN "black" ELSE "gray"
    BY <1>3, <2>1, MarkedIs
  <2>3. QED
    BY <1>2, <1>5, <2>2
<1>7. InLists' = {o \in roots : kind[o] # "string"}
  BY <1>2, <1>3, <1>4, <1>5 DEF InLists, NewGray
<1>8. \A o \in Objects : Parts(o)' = Parts(o) /\ Parts(o) \subseteq Objects
  BY <1>2, <1>3, PartsType DEF Parts
<1>9. AliveInv'
  <2>1. \A o \in Objects : color'[o] # "dead" /\ (Live(o)' <=> Live(o))
    BY <1>2, <1>5, <1>6 DEF Live
  <2>2. \A o \in Objects : Live(o)' => \A x \in Parts(o)' : Live(x)'
    BY <1>8, <2>1 DEF IInv, AliveInv
  <2>3. \A o \in Range(list'["finobj"]) \cup Range(list'["tobefnz"]) : o \in Objects /\ Live(o)
    BY <1>2, <1>3, ListIs DEF IInv, TInv, AliveInv, Names
  <2>4. main \in Objects /\ Live(main)
    BY <1>3, MainIs DEF IInv, AliveInv
  <2>5. QED
    BY <2>1, <2>2, <2>3, <2>4 DEF AliveInv
<1>10. SweptInv'
  BY <1>3 DEF SweptInv
<1>11. BlackInv'
  <2>1. \A o \in Objects : color'[o] = "black" => kind[o] = "string"
    BY <1>6
  <2>2. \A o \in Objects : kind[o] = "string" => Parts(o) = {}
    BY <1>3 DEF ObjectType, Parts, Members
  <2>3. QED
    BY <1>2, <1>8, <2>1, <2>2 DEF BlackInv
<1>12. GrayInv'
  <2>1. \A o \in Objects : color'[o] = "gray" => o \in InLists'
    BY <1>6, <1>7
  <2>2. \A o \in roots : o \in Objects /\ IsMarked(o)' /\ kind'[o] # "free"
    BY <1>2, <1>4, <1>6 DEF IsMarked
  <2>3. Range(list'["tobefnz"]) \subseteq roots
    BY <1>1, <1>2 DEF Listed
  <2>4. QED
    BY <1>7, <2>1, <2>2, <2>3 DEF GrayInv
<1>13. EarlyInv'
  BY <1>2 DEF EarlyInv
<1>14. TableInv' /\ RoundInv'
  BY <1>2, <1>3 DEF TableInv, RoundInv
<1>15. DoomInv'
  <2>1. \A o \in doomed' : o \in Objects /\ kind'[o] # "free" /\ o \notin Useful
    BY <1>2 DEF Allocated
  <2>2. \A o \in doomed' : color'[o] = "white"
    BY <1>4, <1>6, <2>1
  <2>3. \A o \in {main} \cup Range(list'["finobj"]) \cup Range(list'["tobefnz"]) : o \notin doomed'
    BY <1>2, <1>3, <2>1, UsefulIs
  <2>4. \A o \in Objects \ doomed' : \A x \in Parts(o)' : x \notin doomed'
    <3> SUFFICES ASSUME NEW o \in Objects \ doomed', NEW x \in Parts(o) PROVE x \notin doomed'
      BY <1>8
    <3>1. CASE o \in Useful
      BY <1>3, <2>1, <3>1, UsefulIs
    <3>2. CASE o \notin Useful
      <4>1. kind[o] = "free"
        BY <1>2, <3>2 DEF Allocated
      <4>2. Parts(o) = {}
        BY <1>3, <4>1 DEF ObjectType, Parts, Members
      <4>3. QED
        BY <4>2
    <3>3. QED
      BY <3>1, <3>2
  <2>5. QED
    BY <1>3, <2>1, <2>2, <2>3, <2>4 DEF DoomInv
<1>16. QED
  BY <1>3, <1>9, <1>10, <1>11, <1>12, <1>13, <1>14, <1>15 DEF IInv, MarkInv, AtomicInv

-----------------------------------------------------------------------------
(* The theorems.                                                           *)

LEMMA InitI == Init => IInv
<1> SUFFICES ASSUME Init PROVE IInv
  OBVIOUS
<1>1. TInv
  BY InitT
<1>2. /\ gcstate = "pause" /\ stage = None /\ doomed = {} /\ ~KeepInvariant
      /\ list["finobj"] = <<>> /\ list["tobefnz"] = <<>>
      /\ \A o \in Objects : /\ color[o] = "white" /\ entries[o] = {}
                            /\ kind[o] = IF o = main THEN "main" ELSE "free"
  BY DEF Init, KeepInvariant
<1>3. Range(list["finobj"]) = {} /\ Range(list["tobefnz"]) = {} /\ main \in Objects
  BY <1>1, <1>2, MainIs DEF Range
<1>4. AliveInv
  BY <1>2, <1>3 DEF AliveInv, Live, Parts, Members
<1>5. SweptInv /\ MarkInv /\ DoomInv
  BY <1>2 DEF SweptInv, MarkInv, BlackInv, GrayInv, EarlyInv, DoomInv
<1>6. AtomicInv
  BY <1>2 DEF AtomicInv, TableInv, RoundInv, None
<1>7. QED
  BY <1>1, <1>4, <1>5, <1>6 DEF IInv

LEMMA NextI ==
  ASSUME "map" \notin Kinds
  PROVE  IInv /\ [Next]_vars => IInv'
<1> SUFFICES ASSUME IInv, [Next]_vars PROVE IInv'
  OBVIOUS
<1>1. ASSUME NEW o \in Objects, NEW k \in Kinds, New(o, k) PROVE IInv'
  BY <1>1, NewI
<1>2. ASSUME NEW x \in Objects, Drop(x) PROVE IInv'
  BY <1>2, DropI
<1>3. ASSUME NEW o \in Objects, SetFinalizer(o) PROVE IInv'
  BY <1>3, SetFinalizerI
<1>4. ASSUME NEW c \in Objects, NEW x \in Objects, Load(c, x) PROVE IInv'
  BY <1>4, LoadI
<1>5. ASSUME NEW c \in Objects, NEW v \in Objects, NEW k \in Objects \cup {None}, Store(c, k, v) PROVE IInv'
  BY <1>5, StoreI
<1>6. ASSUME NEW c \in Objects, NEW e \in entries[c], Erase(c, e) PROVE IInv'
  BY <1>6, EraseI
<1>7. CASE FullStart
  BY <1>7, FullStartI
<1>8. CASE Restart
  BY <1>8, RestartI
<1>9. CASE EndPropagate
  BY <1>9, EndPropagateI
<1>10. CASE EnterAtomic
  BY <1>10, EnterAtomicI
<1>11. CASE TraverseAgain
  BY <1>11, TraverseAgainI
<1>12. ASSUME NEW o \in Objects, Propagate(o) PROVE IInv'
  BY <1>12, PropagateI
<1>13. ASSUME NEW o \in Objects, ConvergeTable(o) PROVE IInv'
  BY <1>13, ConvergeTableI
<1>14. CASE Converge("again", "converge")
  <2>1. stage = "again"
    BY <1>14 DEF Converge, At
  <2>2. todo = {}
    BY <2>1 DEF IInv, TInv, StateType
  <2>3. QED
    BY <1>14, <2>2, ConvergeI
<1>15. CASE Converge("finalize", "reconverge")
  <2>1. stage = "finalize"
    BY <1>15 DEF Converge, At
  <2>2. todo = {}
    BY <2>1 DEF IInv, TInv, StateType
  <2>3. QED
    BY <1>15, <2>2, ConvergeI
<1>16. CASE ConvergeAgain
  <2>1. todo = {} /\ (Converge("converge", "converge") \/ Converge("reconverge", "reconverge"))
    BY <1>16 DEF ConvergeAgain
  <2>2. QED
    BY <2>1, ConvergeI
<1>17. CASE Separate
  BY <1>17, SeparateI
<1>18. CASE FinishAtomic
  BY <1>18, FinishAtomicI
<1>19. CASE SweepStep
  BY <1>19, SweepStepI
<1>20. CASE EndSweep
  BY <1>20, EndSweepI
<1>21. CASE CallFinalizer
  BY <1>21, CallFinalizerI
<1>22. CASE EndCycle
  BY <1>22, EndCycleI
<1>23. CASE UNCHANGED vars
  <2>1. UNCHANGED <<kind, entries, color, list, gcstate, gray, grayagain, weak, allweak, ephemeron,
                    stage, todo, changed, orig, sweepgc, full, doomed>>
    BY <1>23 DEF vars, grayLists, atomicVars
  <2>2. TInv'
    BY <2>1 DEF IInv, TInv, ObjectType, StateType, Address, Allocated
  <2>3. AliveInv' /\ SweptInv' /\ DoomInv'
    BY <2>1 DEF IInv, AliveInv, SweptInv, DoomInv, Live, Parts, KeepInvariant
  <2>4. BlackInv' /\ EarlyInv'
    BY <2>1 DEF IInv, MarkInv, BlackInv, EarlyInv, Parts, KeepInvariant, IsMarked
  <2>5. GrayInv'
    BY <2>1 DEF IInv, MarkInv, GrayInv, InLists, KeepInvariant, IsMarked
  <2>6. TableInv'
    BY <2>1 DEF IInv, AtomicInv, TableInv, Parts, Keys, Values, IsMarked
  <2>7. RoundInv'
    BY <2>1 DEF IInv, AtomicInv, RoundInv, IsMarked, Cleared, White
  <2>8. QED
    BY <2>2, <2>3, <2>4, <2>5, <2>6, <2>7 DEF IInv, MarkInv, AtomicInv
<1>24. QED
  BY <1>1, <1>2, <1>3, <1>4, <1>5, <1>6, <1>7, <1>8, <1>9, <1>10, <1>11, <1>12, <1>13, <1>14,
     <1>15, <1>16, <1>17, <1>18, <1>19, <1>20, <1>21, <1>22, <1>23 DEF Next, Program, SingleStep

\* The inductive invariant holds, as long as the program makes no maps.
THEOREM Inductive == "map" \notin Kinds => (Spec => []IInv)
<1> SUFFICES ASSUME "map" \notin Kinds PROVE Spec => []IInv
  OBVIOUS
<1>1. Init => IInv
  BY InitI
<1>2. IInv /\ [Next]_vars => IInv'
  BY NextI
<1>3. QED
  BY <1>1, <1>2, PTL DEF Spec

\* While objects are being marked, a black object refers to no white one
\* (lgc.h:22).
THEOREM BlackObjectsSafe == "map" \notin Kinds => (Spec => []BlackNeverWhite)
<1> SUFFICES ASSUME "map" \notin Kinds PROVE Spec => []BlackNeverWhite
  OBVIOUS
<1>1. IInv => BlackNeverWhite
  <2> SUFFICES ASSUME IInv, KeepInvariant, NEW o \in Allocated, color[o] = "black", NEW x \in Refs(o)
               PROVE  ~White(x)
    BY DEF BlackNeverWhite
  <2>1. o \in Objects /\ x \in Parts(o) /\ x \in Objects
    BY VisitsAre DEF IInv, Allocated
  <2>2. IsMarked(x)
    BY <2>1 DEF IInv, MarkInv, BlackInv
  <2>3. QED
    BY <2>2 DEF IsMarked, White
<1>2. Spec => []IInv
  BY Inductive
<1>3. QED
  BY <1>1, <1>2, PTL

\* A gray object is in a gray list (lgc.h:23).
THEOREM GrayObjectsListed == "map" \notin Kinds => (Spec => []GrayListed)
<1> SUFFICES ASSUME "map" \notin Kinds PROVE Spec => []GrayListed
  OBVIOUS
<1>1. IInv => GrayListed
  BY DEF IInv, MarkInv, GrayInv, InLists, GrayListed, Allocated
<1>2. Spec => []IInv
  BY Inductive
<1>3. QED
  BY <1>1, <1>2, PTL

\* A cycle frees everything that could not be reached when it began.
THEOREM CyclesCollect == "map" \notin Kinds => (Spec => []CycleCollects)
<1> SUFFICES ASSUME "map" \notin Kinds PROVE Spec => []CycleCollects
  OBVIOUS
<1>1. IInv => CycleCollects
  <2> SUFFICES ASSUME IInv, gcstate \in {"swpend", "callfin"} PROVE doomed = {}
    BY DEF CycleCollects
  <2>1. \A o \in Objects : color[o] = "white"
    BY AllWhite
  <2>2. \A o \in doomed : o \in Objects /\ color[o] = "dead"
    BY DEF IInv, DoomInv, KeepInvariant
  <2>3. QED
    BY <2>1, <2>2
<1>2. Spec => []IInv
  BY Inductive
<1>3. QED
  BY <1>1, <1>2, PTL

\* Reachable finds nothing outside a set that what it follows stays in.
LEMMA ReachableIn ==
  ASSUME TInv, NEW S, NEW M \in SUBSET Objects, S \subseteq M,
         \A x \in M : kind[x] # "ephemeron" => Refs(x) \subseteq M,
         \A x \in M : \A e \in entries[x] :
           kind[x] = "ephemeron" /\ (e[1] \in M \cup {None} \/ kind[e[1]] = "string") => e[2] \in M
  PROVE  Reachable(S) \subseteq M
<1>1. PICK N : N = Cardinality(Objects)
  OBVIOUS
<1>2. N \in Nat
  BY <1>1, CollectorAssumption, FS_CardinalityType
<1> DEFINE Next1(T, x) ==
             IF kind[x] # "ephemeron" THEN Refs(x)
             ELSE {e[2] : e \in {f \in entries[x] : f[1] \in T \cup {None} \/ kind[f[1]] = "string"}}
           Nearer(T) == T \cup UNION {Next1(T, x) : x \in T}
<1>3. PICK G : G = [T \in SUBSET Objects |-> Objects \cap Nearer(T)]
  OBVIOUS
<1>4. \A T \in SUBSET Objects : Nearer(T) \subseteq Objects /\ T \subseteq Nearer(T)
  <2> SUFFICES ASSUME NEW T \in SUBSET Objects PROVE Nearer(T) \subseteq Objects
    OBVIOUS
  <2>1. ASSUME NEW x \in T PROVE Next1(T, x) \subseteq Objects
    <3>1. x \in Objects /\ Refs(x) \subseteq Objects /\ \A e \in entries[x] : e[2] \in Objects
      BY VisitsAre, PartsType DEF TInv
    <3>2. QED
      BY <3>1
  <2> HIDE DEF Next1
  <2>2. QED
    BY <2>1
<1>5. /\ Widens(G, S, Objects)
      /\ \A T \in SUBSET Objects : G[T] = Nearer(T) /\ G[T] \in SUBSET Objects
  <2> HIDE DEF Nearer
  <2>1. QED
    BY <1>3, <1>4 DEF Widens
<1>6. PICK f : /\ f = CHOOSE h : h = [n \in 0 .. N |-> IF n = 0 THEN S ELSE Nearer(h[n - 1])]
               /\ Reachable(S) = f[N]
  BY <1>1 DEF Reachable
<1>7. \A T \in SUBSET Objects : T \subseteq M => Nearer(T) \subseteq M
  <2> SUFFICES ASSUME NEW T \in SUBSET Objects, T \subseteq M PROVE Nearer(T) \subseteq M
    OBVIOUS
  <2>1. ASSUME NEW x \in T PROVE Next1(T, x) \subseteq M
    OBVIOUS
  <2> HIDE DEF Next1
  <2>2. QED
    BY <2>1
<1> HIDE DEF Nearer
<1>8. f = [n \in 0 .. N |-> IF n = 0 THEN S ELSE Nearer(f[n - 1])]
  <2>1. PICK h : Rounds(h, G, S, Objects, N)
    BY <1>2, <1>5, RoundsExist
  <2>2. h \in [0 .. N -> SUBSET Objects] /\ \A n \in 0 .. N : h[n] = Round(h, G, S, n)
    BY <2>1 DEF Rounds
  <2>3. ASSUME NEW n \in 0 .. N PROVE h[n] = IF n = 0 THEN S ELSE Nearer(h[n - 1])
    <3>1. h[n] = IF n = 0 THEN S ELSE G[h[n - 1]]
      BY <2>2 DEF Round
    <3>2. n # 0 => n - 1 \in 0 .. N
      BY <1>2
    <3>3. n # 0 => h[n - 1] \in SUBSET Objects
      BY <2>2, <3>2
    <3>4. n # 0 => G[h[n - 1]] = Nearer(h[n - 1])
      BY <1>5, <3>3
    <3>5. QED
      BY <3>1, <3>4
  <2>4. PICK k : k = [n \in 0 .. N |-> IF n = 0 THEN S ELSE Nearer(h[n - 1])]
    OBVIOUS
  <2>5. \A n \in 0 .. N : h[n] = k[n]
    BY <2>3, <2>4
  <2>6. h = k
    BY <2>2, <2>4, <2>5
  <2>7. h = [n \in 0 .. N |-> IF n = 0 THEN S ELSE Nearer(h[n - 1])]
    BY <2>4, <2>6
  <2>8. QED
    BY <1>6, <2>7
<1> DEFINE T == {n \in Nat : n <= N => f[n] \subseteq M}
<1>9. 0 \in T
  BY <1>2, <1>8
<1>10. ASSUME NEW n \in Nat, n \in T PROVE n + 1 \in T
  <2> SUFFICES ASSUME n + 1 <= N PROVE f[n + 1] \subseteq M
    OBVIOUS
  <2>1. n <= N /\ n + 1 \in 0 .. N /\ n + 1 # 0 /\ (n + 1) - 1 = n
    BY <1>2
  <2>2. f[n + 1] = Nearer(f[n])
    BY <1>8, <2>1
  <2>3. f[n] \subseteq M
    BY <1>10, <2>1
  <2>4. QED
    BY <1>7, <2>2, <2>3
<1>11. \A n \in Nat : n \in T
  <2> HIDE DEF T
  <2>1. QED
    BY <1>9, <1>10, SetInduction
<1>12. QED
  BY <1>2, <1>6, <1>11

\* No object that the program or a finalizer can still reach is freed or about
\* to be, nor is what a weak table holds that can be reached.
THEOREM NothingDangles == "map" \notin Kinds => (Spec => []NoDangling)
<1> SUFFICES ASSUME "map" \notin Kinds PROVE Spec => []NoDangling
  OBVIOUS
<1>1. IInv => NoDangling
  <2> SUFFICES ASSUME IInv PROVE \A o \in Reachable(Kept) : \A x \in {o} \cup Keys(o) \cup Values(o) : Live(x)
    BY DEF NoDangling, Live
  <2>1. PICK M : M = {o \in Objects : Live(o)}
    OBVIOUS
  <2>2. Kept \subseteq M
    <3>1. \A o \in Range(list["finobj"]) \cup Range(list["tobefnz"]) : o \in Objects
      BY ListIs DEF IInv, TInv, Names
    <3>2. main \in Objects
      BY MainIs DEF IInv
    <3>3. QED
      BY <2>1, <3>1, <3>2 DEF Kept, Listed, IInv, AliveInv
  <2>3. \A o \in M : /\ Refs(o) \subseteq Parts(o) /\ Parts(o) \subseteq M /\ Parts(o) = Keys(o) \cup Values(o)
                     /\ \A e \in entries[o] : e[2] \in Parts(o)
    <3> SUFFICES ASSUME NEW o \in M
                 PROVE  /\ Refs(o) \subseteq Parts(o) /\ Parts(o) \subseteq M /\ Parts(o) = Keys(o) \cup Values(o)
                        /\ \A e \in entries[o] : e[2] \in Parts(o)
      OBVIOUS
    <3>1. o \in Objects /\ Live(o)
      BY <2>1
    <3>2. Refs(o) \subseteq Parts(o) /\ Parts(o) \subseteq Objects
      BY <3>1, VisitsAre DEF IInv
    <3>3. \A x \in Parts(o) : Live(x)
      BY <3>1 DEF IInv, AliveInv
    <3>4. Parts(o) = Keys(o) \cup Values(o) /\ \A e \in entries[o] : e[2] \in Values(o)
      BY PartsAre DEF Values
    <3>5. QED
      BY <2>1, <3>2, <3>3, <3>4
  <2>4. Reachable(Kept) \subseteq M
    <3>1. PICK S : S = Kept
      OBVIOUS
    <3>2. /\ S \subseteq M /\ M \in SUBSET Objects
          /\ \A x \in M : kind[x] # "ephemeron" => Refs(x) \subseteq M
          /\ \A x \in M : \A e \in entries[x] : e[2] \in M
      BY <2>1, <2>2, <2>3, <3>1
    <3>3. Reachable(S) \subseteq M
      BY <3>2, ReachableIn DEF IInv
    <3>4. QED
      BY <3>1, <3>3
  <2>5. QED
    BY <2>1, <2>3, <2>4
<1>2. Spec => []IInv
  BY Inductive
<1>3. QED
  BY <1>1, <1>2, PTL

\* When a round over the ephemeron tables has changed nothing, all that can be
\* reached from what is marked first is marked.
LEMMA ConvergedMarks ==
  ASSUME IInv, stage \in {"converge", "reconverge"}, gray = {}, todo = {}, ~changed,
         NEW S, S \subseteq {main} \cup Range(list["tobefnz"])
  PROVE  \A x \in Reachable(S) : x \in Objects /\ IsMarked(x)
<1>1. PICK M : M = {o \in Objects : IsMarked(o)}
  OBVIOUS
<1>2. stage # None /\ KeepInvariant /\ ObjectType /\ TInv
  <2>1. stage # None
    BY DEF None
  <2>2. QED
    BY <2>1, Phases DEF IInv, TInv
<1>3. S \subseteq M
  <2>1. main \in Objects /\ Range(list["tobefnz"]) \subseteq Objects
    BY <1>2, MainIs, ListIs DEF TInv, Names
  <2>2. IsMarked(main) /\ \A o \in Range(list["tobefnz"]) : IsMarked(o)
    BY <1>2 DEF IInv, AtomicInv, TableInv, MarkInv, GrayInv
  <2>3. QED
    BY <1>1, <2>1, <2>2
<1>4. ASSUME NEW o \in M
      PROVE  \/ \A x \in Parts(o) : IsMarked(x)
             \/ o \in weak \cup allweak \cup ephemeron
  <2>1. CASE color[o] = "black"
    BY <1>1, <1>2, <2>1 DEF IInv, MarkInv, BlackInv
  <2>2. CASE color[o] # "black"
    <3>1. o \in grayagain \cup weak \cup allweak \cup ephemeron
      BY <1>1, <1>2, <2>2 DEF IInv, MarkInv, GrayInv, InLists, IsMarked
    <3>2. CASE o \in grayagain
      BY <1>2, <3>2 DEF IInv, AtomicInv, TableInv
    <3>3. QED
      BY <3>1, <3>2
  <2>3. QED
    BY <2>1, <2>2
<1>5. \A o \in M : /\ o \in Objects /\ Parts(o) \subseteq Objects /\ Parts(o) = Keys(o) \cup Values(o)
                   /\ \A e \in entries[o] : e[2] \in Values(o) /\ e[2] \in Parts(o) /\ e[2] \in Objects
  BY <1>1, <1>2, PartsAre, PartsType DEF Values
<1>6. \A o \in M : kind[o] # "ephemeron" => Refs(o) \subseteq M
  <2> SUFFICES ASSUME NEW o \in M, kind[o] # "ephemeron", NEW x \in Refs(o) PROVE x \in M
    OBVIOUS
  <2>1. x \in Parts(o) /\ x \in Objects
    BY <1>2, <1>5, VisitsAre
  <2>2. CASE \A y \in Parts(o) : IsMarked(y)
    BY <1>1, <2>1, <2>2
  <2>3. CASE o \in weak
    <3>1. kind[o] = "weak" /\ \A y \in Keys(o) : IsMarked(y)
      BY <1>2, <2>3 DEF IInv, AtomicInv, TableInv
    <3>2. x \in Keys(o)
      BY <3>1 DEF Refs
    <3>3. QED
      BY <1>1, <2>1, <3>1, <3>2
  <2>4. CASE o \in allweak
    <3>1. kind[o] = "allweak"
      BY <1>2, <2>4 DEF IInv, AtomicInv, TableInv
    <3>2. QED
      BY <3>1 DEF Refs
  <2>5. CASE o \in ephemeron
    BY <1>2, <2>5 DEF IInv, AtomicInv, TableInv
  <2>6. QED
    BY <1>4, <2>2, <2>3, <2>4, <2>5
<1>7. \A o \in M : \A e \in entries[o] :
        kind[o] = "ephemeron" /\ (e[1] \in M \cup {None} \/ kind[e[1]] = "string") => e[2] \in M
  <2> SUFFICES ASSUME NEW o \in M, NEW e \in entries[o], kind[o] = "ephemeron",
                      e[1] \in M \cup {None} \/ kind[e[1]] = "string"
               PROVE  e[2] \in M
    OBVIOUS
  <2>1. e[2] \in Values(o) /\ e[2] \in Parts(o) /\ e[2] \in Objects
    BY <1>5
  <2>2. CASE \A y \in Parts(o) : IsMarked(y)
    BY <1>1, <2>1, <2>2
  <2>3. CASE o \in weak
    BY <1>2, <2>3 DEF IInv, AtomicInv, TableInv
  <2>4. CASE o \in allweak
    <3>1. \A y \in Values(o) : IsMarked(y)
      BY <1>2, <2>4 DEF IInv, AtomicInv, TableInv
    <3>2. QED
      BY <1>1, <2>1, <3>1
  <2>5. CASE o \in ephemeron
    <3>1. e[1] = None \/ ~Cleared(e[1])
      BY <1>1 DEF Cleared, White, IsMarked
    <3>2. IsMarked(e[2])
      BY <2>5, <3>1 DEF IInv, AtomicInv, RoundInv
    <3>3. QED
      BY <1>1, <2>1, <3>2
  <2>6. QED
    BY <1>4, <2>2, <2>3, <2>4, <2>5
<1>8. Reachable(S) \subseteq M
  <2>1. M \in SUBSET Objects
    BY <1>1
  <2>2. QED
    BY <1>2, <1>3, <1>6, <1>7, <2>1, ReachableIn
<1>9. QED
  BY <1>1, <1>8

LEMMA WithoutIn ==
  ASSUME NEW ls, NEW A, Lists(ls, A), NEW gone, NEW n \in Names
  PROVE  Range(Without(ls, gone)[n]) \subseteq Range(ls[n])
<1>1. ls[n] \in Seq(Objects) /\ DOMAIN ls = Names
  BY ListIs
<1>2. Without(ls, gone)[n] = Only(ls[n], Objects \ gone)
  BY <1>1 DEF Without
<1>3. Range(Only(ls[n], Objects \ gone)) = Range(ls[n]) \cap (Objects \ gone)
  BY <1>1, OnlyIs
<1>4. QED
  BY <1>2, <1>3

\* Only the separation puts objects into tobefnz.
LEMMA FinalizersOnce ==
  ASSUME IInv, [Next]_vars, ~Separate
  PROVE  Range(list'["tobefnz"]) \subseteq Range(list["tobefnz"])
<1>1. CASE \E gone : list' = Without(list, gone)
  BY <1>1, WithoutIn DEF IInv, TInv, Names
<1>2. CASE list' = list
  BY <1>2
<1>3. ASSUME NEW o \in Objects, NEW k \in Kinds, New(o, k)
      PROVE  Range(list'["tobefnz"]) \subseteq Range(list["tobefnz"])
  <2>1. list'["tobefnz"] = list["tobefnz"]
    BY <1>3 DEF New, IInv, TInv, Lists, Names
  <2>2. QED
    BY <2>1
<1>4. ASSUME NEW o \in Objects, SetFinalizer(o)
      PROVE  Range(list'["tobefnz"]) \subseteq Range(list["tobefnz"])
  <2>1. PICK gone : list' = [Without(list, gone) EXCEPT !["finobj"] = <<o>> \o Without(list, gone)["finobj"]]
    BY <1>4 DEF SetFinalizer
  <2>2. list'["tobefnz"] = Without(list, gone)["tobefnz"]
    BY <2>1 DEF IInv, TInv, Lists, Names, Without
  <2>3. Range(Without(list, gone)["tobefnz"]) \subseteq Range(list["tobefnz"])
    BY WithoutIn DEF IInv, TInv, Names
  <2>4. QED
    BY <2>2, <2>3
<1>5. ASSUME CallFinalizer PROVE Range(list'["tobefnz"]) \subseteq Range(list["tobefnz"])
  <2>1. PICK s \in Seq(Objects) : s = list["tobefnz"]
    BY DEF IInv, TInv, Lists, Names
  <2>2. s # <<>> /\ list'["tobefnz"] = Tail(s)
    BY <1>5, <2>1 DEF CallFinalizer, IInv, TInv, Lists, Names
  <2>3. PICK t : t = Tail(s)
    OBVIOUS
  <2>4. t \in Seq(Objects) /\ Len(t) = Len(s) - 1 /\ \A i \in 1 .. Len(t) : t[i] = s[i + 1]
    BY <2>2, <2>3, HeadTailProperties
  <2>5. Range(t) = {t[i] : i \in 1 .. Len(t)} /\ Range(s) = {s[i] : i \in 1 .. Len(s)} /\ Len(s) \in Nat
    BY <2>1, <2>4, RangeIs
  <2>6. \A i \in 1 .. Len(t) : i + 1 \in 1 .. Len(s)
    BY <2>4, <2>5
  <2>7. Range(t) \subseteq Range(s)
    BY <2>4, <2>5, <2>6
  <2>8. QED
    BY <2>1, <2>2, <2>3, <2>7
<1>6. ASSUME FullStart \/ SweepStep \/ FinishAtomic
      PROVE  list' = list \/ \E gone : list' = Without(list, gone)
  BY <1>6 DEF FullStart, SweepStep, FinishAtomic
<1>7. ASSUME NEW x \in Objects, NEW y \in Objects, NEW k \in Objects \cup {None},
             Drop(x) \/ Load(x, y) \/ Store(x, k, y) \/ Propagate(x) \/ ConvergeTable(x)
      PROVE  list' = list
  BY <1>7 DEF Drop, Load, Store, Propagate, ConvergeTable
<1>8. ASSUME NEW x \in Objects, NEW e \in entries[x], Erase(x, e) PROVE list' = list
  BY <1>8 DEF Erase
<1>9. ASSUME NEW from, NEW to, Converge(from, to) PROVE list' = list
  BY <1>9 DEF Converge
<1>10. ASSUME \/ Restart \/ EndPropagate \/ EnterAtomic \/ TraverseAgain \/ EndSweep \/ EndCycle
              \/ UNCHANGED vars
       PROVE  list' = list
  BY <1>10 DEF Restart, EndPropagate, EnterAtomic, TraverseAgain, EndSweep, NextSweep, EndCycle, vars
<1>11. CASE Program
  <2>1. \/ \E o \in Objects, k \in Kinds : New(o, k)
        \/ \E x \in Objects : SetFinalizer(x)
        \/ FullStart
        \/ list' = list
    <3>1. None \in Objects \cup {None}
      OBVIOUS
    <3>2. QED
      BY <1>7, <1>8, <1>11, <3>1 DEF Program
  <2>2. QED
    BY <1>1, <1>2, <1>3, <1>4, <1>6, <2>1
<1>12. CASE SingleStep
  <2>1. \/ list' = list
        \/ CallFinalizer \/ SweepStep \/ FinishAtomic
    <3>1. None \in Objects \cup {None}
      OBVIOUS
    <3>2. QED
      BY <1>7, <1>9, <1>10, <1>12, <3>1 DEF SingleStep, ConvergeAgain
  <2>2. QED
    BY <1>1, <1>2, <1>5, <1>6, <2>1
<1>13. CASE UNCHANGED vars
  BY <1>2, <1>10, <1>13
<1>14. QED
  BY <1>11, <1>12, <1>13 DEF Next

\* An object is handed to its finalizer only if neither the program nor the
\* finalizers that are still to be called can reach it.
THEOREM FinalizedUnreachable == "map" \notin Kinds => (Spec => FinalizesUnreachable)
<1> SUFFICES ASSUME "map" \notin Kinds PROVE Spec => FinalizesUnreachable
  OBVIOUS
<1>1. IInv /\ [Next]_vars =>
        [\A o \in Listed("finobj") : o \in (Listed("tobefnz"))' =>
           o \notin Reachable({main} \cup Listed("tobefnz"))]_vars
  <2> SUFFICES ASSUME IInv, [Next]_vars, NEW o \in Listed("finobj"), o \in (Listed("tobefnz"))'
               PROVE  o \notin Reachable({main} \cup Listed("tobefnz"))
    OBVIOUS
  <2>1. o \in Range(list["finobj"]) /\ o \in Range(list'["tobefnz"]) /\ o \in Objects
    BY ListIs DEF Listed, IInv, TInv, Names
  <2>2. o \notin Range(list["tobefnz"])
    BY <2>1 DEF IInv, TInv, Lists, Names
  <2>3. Separate
    BY <2>1, <2>2, FinalizersOnce
  <2>4. /\ stage = "converge" /\ gray = {} /\ todo = {} /\ ~changed
        /\ Range(list'["tobefnz"]) =
             Range(list["tobefnz"]) \cup (Range(list["finobj"]) \cap {x \in Objects : White(x)})
    BY <2>3, SeparateStep DEF IInv
  <2>5. White(o)
    BY <2>1, <2>2, <2>4
  <2>6. PICK S : S = {main} \cup Listed("tobefnz")
    OBVIOUS
  <2>7. S \subseteq {main} \cup Range(list["tobefnz"])
    BY <2>6 DEF Listed
  <2>8. \A x \in Reachable(S) : IsMarked(x)
    BY <2>4, <2>7, ConvergedMarks
  <2>9. QED
    BY <2>5, <2>6, <2>8 DEF White, IsMarked
<1>2. Spec => []IInv
  BY Inductive
<1>3. QED
  BY <1>1, <1>2, PTL DEF Spec, FinalizesUnreachable

\* In atomic, entries are only taken out by the separation and at the end.
LEMMA ClearsAt ==
  ASSUME IInv, [Next]_vars, stage # None, ~Separate, ~FinishAtomic
  PROVE  entries' = entries
<1>1. gcstate = "atomic"
  BY Phases DEF IInv, TInv
<1>2. ~Running
  BY DEF Running
<1>3. ASSUME NEW o \in Objects, Propagate(o) \/ ConvergeTable(o) PROVE entries' = entries
  BY <1>3 DEF Propagate, ConvergeTable
<1>4. ASSUME NEW from, NEW to, Converge(from, to) PROVE entries' = entries
  BY <1>4 DEF Converge
<1>5. ASSUME TraverseAgain \/ UNCHANGED vars PROVE entries' = entries
  BY <1>5 DEF TraverseAgain, vars
<1>6. ~Restart /\ ~EndPropagate /\ ~EnterAtomic /\ ~SweepStep /\ ~EndSweep /\ ~CallFinalizer /\ ~EndCycle
  BY <1>1 DEF Restart, EndPropagate, EnterAtomic, SweepStep, EndSweep, NextSweep, CallFinalizer, EndCycle
<1>7. ~Program
  BY <1>2 DEF Program, New, Drop, SetFinalizer, Load, Store, Erase, FullStart
<1>8. QED
  BY <1>3, <1>4, <1>5, <1>6, <1>7 DEF Next, SingleStep, ConvergeAgain

LEMMA SeparateKeeps ==
  ASSUME IInv, Separate, NEW S, S \subseteq {main} \cup Range(list["tobefnz"]),
         NEW o \in Reachable(S), NEW e \in entries[o], e \notin entries'[o]
  PROVE  e[2] \notin Reachable(S)
<1>1. /\ stage = "converge" /\ gray = {} /\ todo = {} /\ ~changed
      /\ entries' = ByValues(entries, weak \cup allweak)
  BY SeparateStep DEF IInv
<1>2. \A x \in Reachable(S) : x \in Objects /\ IsMarked(x)
  BY <1>1, ConvergedMarks
<1>3. entries'[o] = IF o \in weak \cup allweak THEN {f \in entries[o] : ~Cleared(f[2])} ELSE entries[o]
  BY <1>1, <1>2 DEF ByValues
<1>4. Cleared(e[2])
  BY <1>3
<1>5. QED
  BY <1>2, <1>4 DEF Cleared, White, IsMarked

LEMMA FinishKeeps ==
  ASSUME IInv, FinishAtomic,
         NEW S, S \subseteq {main} \cup Range(list["tobefnz"]),
         NEW D, D \subseteq {main} \cup Range(list["tobefnz"]),
         NEW o \in Reachable(S), NEW e \in entries[o], e \notin entries'[o]
  PROVE  (e[1] \notin Reachable(D) /\ e[1] # None) \/ e[2] \notin Reachable(S)
<1>1. stage = "reconverge" /\ gray = {} /\ todo = {} /\ ~changed /\ stage # None
  BY DEF FinishAtomic, Converged, At, None
<1>2. KeepInvariant /\ ObjectType /\ TInv
  BY <1>1, Phases DEF IInv, TInv
<1>3. IsMarked(main) /\ main \in Objects /\ ~White(main)
  BY <1>1, <1>2, MainIs, MarkedNotWhite DEF IInv, AtomicInv, TableInv
<1>4. PICK late, byKeys, col, ents, r :
           /\ late \in SUBSET Objects /\ byKeys \in SUBSET Objects
           /\ col = Flipped(WithStrings(late \cup byKeys))
           /\ ents = ByValues(ByKeys(entries, byKeys), late)
           /\ Sweepable(col, ents) /\ SweepsBehind(list, "allgc", col, r) /\ Sweep(r, col, ents)
  BY <1>2, <1>3, FinishStep
<1>5. PICK w : w = WithStrings(late \cup byKeys)
  OBVIOUS
<1>6. (\A x \in Reachable(S) : x \in Objects /\ IsMarked(x)) /\ (\A x \in Reachable(D) : x \in Objects /\ IsMarked(x))
  BY <1>1, ConvergedMarks
<1>7. o \notin r.gone
  <2>1. o \in Objects /\ IsMarked(o)
    BY <1>6
  <2>2. \A x \in Objects : \/ w[x] = color[x]
                           \/ kind[x] = "string" /\ White(x) /\ w[x] = "black"
    <3>1. late \cup byKeys \in SUBSET Objects
      BY <1>4
    <3>2. QED
      BY <1>2, <1>5, <3>1, WithStringsIs
  <2>3. w[o] \in {"gray", "black"}
    BY <2>1, <2>2 DEF IsMarked
  <2>4. col[o] # "dead"
    BY <1>4, <1>5, <2>1, <2>3 DEF Flipped
  <2>5. \A x \in r.gone : col[x] = "dead"
    BY <1>4 DEF SweepsBehind
  <2>6. QED
    BY <2>4, <2>5
<1>8. PICK mid : mid = ByKeys(entries, byKeys)
  OBVIOUS
<1>9. e \notin ents[o]
  <2>1. o \in Objects
    BY <1>6
  <2>2. entries' = [x \in Objects |-> IF x \in r.gone THEN {} ELSE ents[x]]
    BY <1>4 DEF Sweep
  <2>3. QED
    BY <1>7, <2>1, <2>2
<1>10. ents[o] = IF o \in late THEN {f \in mid[o] : ~Cleared(f[2])} ELSE mid[o]
  BY <1>4, <1>6, <1>8 DEF ByValues
<1>11. mid[o] = IF o \in byKeys THEN {f \in entries[o] : f[1] = None \/ ~Cleared(f[1])} ELSE entries[o]
  BY <1>6, <1>8 DEF ByKeys
<1>12. Cleared(e[2]) \/ (e[1] # None /\ Cleared(e[1]))
  BY <1>9, <1>10, <1>11
<1>13. QED
  BY <1>6, <1>12 DEF Cleared, White, IsMarked

\* The collector takes an entry out of a table that can be reached only if
\* nobody can reach its key, or its value was out of reach before the
\* separation of the objects to be finalized.
THEOREM WeakEntriesKept == "map" \notin Kinds => (Spec => WeakKept)
<1> SUFFICES ASSUME "map" \notin Kinds PROVE Spec => WeakKept
  OBVIOUS
<1>1. IInv /\ [Next]_vars =>
        [stage # None =>
           LET live == Reachable({main} \cup Listed("tobefnz"))
               due == Reachable({main} \cup Range(list'.tobefnz))
           IN  \A o \in live : \A e \in entries[o] \ entries'[o] :
                 ~(e[1] \in due \cup {None} /\ e[2] \in live)]_vars
  <2> SUFFICES ASSUME IInv, [Next]_vars, stage # None,
                      NEW S, S = {main} \cup Listed("tobefnz"),
                      NEW D, D = {main} \cup Range(list'["tobefnz"]),
                      NEW o \in Reachable(S), NEW e \in entries[o] \ entries'[o]
               PROVE  ~(e[1] \in Reachable(D) \cup {None} /\ e[2] \in Reachable(S))
    OBVIOUS
  <2>1. S \subseteq {main} \cup Range(list["tobefnz"])
    BY DEF Listed
  <2>2. CASE Separate
    BY <2>1, <2>2, SeparateKeeps
  <2>3. CASE FinishAtomic
    <3>1. ~Separate
      BY <2>3 DEF Separate, FinishAtomic, Converged, At
    <3>2. D \subseteq {main} \cup Range(list["tobefnz"])
      BY <3>1, FinalizersOnce
    <3>3. QED
      BY <2>1, <2>3, <3>2, FinishKeeps
  <2>4. CASE ~Separate /\ ~FinishAtomic
    BY <2>4, ClearsAt
  <2>5. QED
    BY <2>2, <2>3, <2>4
<1>2. Spec => []IInv
  BY Inductive
<1>3. QED
  BY <1>1, <1>2, PTL DEF Spec, WeakKept

-----------------------------------------------------------------------------
(* Types.  What TInv leaves open: the bound of the entries, the length of   *)
(* the lists, and that what is in gray is never freed, though a full        *)
(* collection leaves the list as it is when it gives up marking.            *)

LEMMA JoinIs ==
  ASSUME NEW s \in Seq(Objects), NEW t \in Seq(Objects), Distinct(s), Distinct(t),
         Range(s) \cap Range(t) = {}
  PROVE  /\ s \o t \in Seq(Objects) /\ Distinct(s \o t) /\ Range(s \o t) = Range(s) \cup Range(t)
<1>1. PICK u, m, n : u = s \o t /\ m = Len(s) /\ n = Len(t)
  OBVIOUS
<1>2. /\ u \in Seq(Objects) /\ m \in Nat /\ n \in Nat /\ Len(u) = m + n
      /\ \A i \in 1 .. m + n : u[i] = IF i <= m THEN s[i] ELSE t[i - m]
  BY <1>1
<1>3. /\ Range(s) = {s[i] : i \in 1 .. m} /\ Range(t) = {t[i] : i \in 1 .. n}
      /\ Range(u) = {u[i] : i \in 1 .. m + n}
  <2>1. \A w \in Seq(Objects) : Range(w) = {w[i] : i \in 1 .. Len(w)}
    BY RangeIs
  <2>2. Range(s) = {s[i] : i \in 1 .. m}
    BY <1>1, <2>1
  <2>3. Range(t) = {t[i] : i \in 1 .. n}
    BY <1>1, <2>1
  <2>4. Range(u) = {u[i] : i \in 1 .. m + n}
    BY <1>2, <2>1
  <2>5. QED
    BY <2>2, <2>3, <2>4
<1>4. Range(u) = Range(s) \cup Range(t)
  <2>1. ASSUME NEW i \in 1 .. m + n PROVE u[i] \in Range(s) \cup Range(t)
    <3>1. CASE i <= m
      <4>1. i \in 1 .. m /\ u[i] = s[i]
        BY <1>2, <3>1
      <4>2. QED
        BY <1>3, <4>1
    <3>2. CASE ~(i <= m)
      <4>1. i - m \in 1 .. n /\ u[i] = t[i - m]
        BY <1>2, <3>2
      <4>2. QED
        BY <1>3, <4>1
    <3>3. QED
      BY <3>1, <3>2
  <2>2. \A i \in 1 .. m : i \in 1 .. m + n /\ u[i] = s[i]
    BY <1>2
  <2>3. \A i \in 1 .. n : i + m \in 1 .. m + n /\ u[i + m] = t[i]
    BY <1>2
  <2>4. \A x \in Range(s) : x \in Range(u)
    BY <1>3, <2>2
  <2>5. \A x \in Range(t) : x \in Range(u)
    BY <1>3, <2>3
  <2>6. QED
    BY <1>3, <2>1, <2>4, <2>5
<1>5. Distinct(u)
  <2> SUFFICES ASSUME NEW i \in 1 .. m + n, NEW j \in 1 .. m + n, u[i] = u[j] PROVE i = j
    BY <1>2 DEF Distinct
  <2>1. CASE i <= m /\ j <= m
    BY <1>1, <1>2, <2>1 DEF Distinct
  <2>2. CASE i > m /\ j > m
    <3>1. i - m \in 1 .. n /\ j - m \in 1 .. n /\ t[i - m] = t[j - m]
      BY <1>2, <2>2
    <3>2. i - m = j - m
      BY <1>1, <3>1 DEF Distinct
    <3>3. QED
      BY <1>2, <3>2
  <2>3. ASSUME NEW k \in 1 .. m + n, NEW l \in 1 .. m + n, k <= m, l > m PROVE u[k] # u[l]
    <3>1. k \in 1 .. m /\ l - m \in 1 .. n
      BY <1>2, <2>3
    <3>2. u[k] = s[k] /\ u[l] = t[l - m]
      BY <1>2, <2>3
    <3>3. s[k] \in Range(s) /\ t[l - m] \in Range(t)
      BY <1>3, <3>1
    <3>4. QED
      BY <3>2, <3>3
  <2>4. ~(i <= m /\ j > m) /\ ~(i > m /\ j <= m)
    BY <2>3
  <2>5. QED
    BY <1>2, <2>1, <2>2, <2>3, <2>4
<1>6. QED
  BY <1>1, <1>2, <1>4, <1>5

LEMMA ListsType ==
  ASSUME Lists(list, Allocated)
  PROVE  /\ list \in [Names -> Seq(Allocated)]
         /\ LET all == list.allgc \o list.finobj \o list.tobefnz
            IN  Range(all) = Allocated /\ Len(all) = Cardinality(Allocated)
<1>1. list \in [Names -> Seq(Allocated)]
  <2>1. \A n \in Names : list[n] \in Seq(Allocated)
    <3> SUFFICES ASSUME NEW n \in Names PROVE list[n] \in Seq(Allocated)
      OBVIOUS
    <3>1. \A i \in 1 .. Len(list[n]) : list[n][i] \in Allocated
      BY ListIs DEF Lists
    <3>2. list[n] \in Seq(Objects)
      BY ListIs
    <3>3. QED
      BY <3>1, <3>2
  <2>2. QED
    BY <2>1 DEF Lists
<1>2. PICK a, f, t : a = list["allgc"] /\ f = list["finobj"] /\ t = list["tobefnz"]
  OBVIOUS
<1>3. /\ a \in Seq(Objects) /\ f \in Seq(Objects) /\ t \in Seq(Objects)
      /\ Distinct(a) /\ Distinct(f) /\ Distinct(t)
  BY <1>2 DEF Lists, Names
<1>4. Range(a) \subseteq Objects /\ Range(f) \subseteq Objects /\ Range(t) \subseteq Objects
  BY <1>3, RangeIs
<1>5. Range(a) \cap Range(f) = {} /\ Range(a) \cap Range(t) = {} /\ Range(f) \cap Range(t) = {}
  BY <1>2, <1>4 DEF Lists, Names
<1>6. Allocated = Range(a) \cup Range(f) \cup Range(t)
  <2>1. \A o \in Objects : o \in Allocated <=> o \in Range(a) \cup Range(f) \cup Range(t)
    BY <1>2 DEF Lists, Names
  <2>2. Allocated \subseteq Objects
    BY DEF Allocated
  <2>3. QED
    BY <1>4, <2>1, <2>2
<1>7. PICK b : b = a \o f
  OBVIOUS
<1>8. b \in Seq(Objects) /\ Distinct(b) /\ Range(b) = Range(a) \cup Range(f)
  BY <1>3, <1>5, <1>7, JoinIs
<1>9. PICK c : c = b \o t
  OBVIOUS
<1>10. c \in Seq(Objects) /\ Distinct(c) /\ Range(c) = Allocated
  <2>1. Range(b) \cap Range(t) = {}
    BY <1>5, <1>8
  <2>2. c \in Seq(Objects) /\ Distinct(c) /\ Range(c) = Range(b) \cup Range(t)
    BY <1>3, <1>8, <1>9, <2>1, JoinIs
  <2>3. QED
    BY <1>6, <1>8, <2>2
<1>11. Len(c) = Cardinality(Allocated)
  <2>1. PICK n \in Nat : n = Len(c)
    BY <1>10
  <2>2. c \in [1 .. n -> Allocated] /\ \A x \in Allocated : \E i \in 1 .. n : c[i] = x
    <3>1. Range(c) = {c[i] : i \in 1 .. n} /\ DOMAIN c = 1 .. n
      BY <1>10, <2>1, RangeIs
    <3>2. c = [i \in 1 .. n |-> c[i]]
      BY <1>10, <2>1
    <3>3. QED
      BY <1>10, <3>1, <3>2
  <2>3. c \in Bijection(1 .. n, Allocated)
    BY <1>10, <2>1, <2>2 DEF Distinct, Bijection, Injection, Surjection, IsInjective
  <2>4. ExistsBijection(1 .. n, Allocated)
    BY <2>3 DEF ExistsBijection
  <2>5. IsFiniteSet(1 .. n) /\ Cardinality(1 .. n) = n
    <3>1. IsFiniteSet(1 .. n) /\ Cardinality(1 .. n) = IF 1 > n THEN 0 ELSE n - 1 + 1
      <4>1. 1 \in Int /\ n \in Int
        BY <2>1
      <4>2. QED
        BY <4>1, FS_Interval, Zenon
    <3>2. QED
      BY <2>1, <3>1
  <2>6. QED
    BY <2>1, <2>4, <2>5, FS_Bijection
<1>12. c = list.allgc \o list.finobj \o list.tobefnz
  BY <1>2, <1>7, <1>9
<1>13. QED
  BY <1>1, <1>10, <1>11, <1>12

LEMMA OneMore ==
  ASSUME NEW S, NEW x, IsFiniteSet(S)
  PROVE  /\ IsFiniteSet(S \cup {x}) /\ Cardinality(S) \in Nat /\ Cardinality(S \cup {x}) \in Nat
         /\ Cardinality(S \cup {x}) <= Cardinality(S) + 1
<1>1. IsFiniteSet(S \cup {x})
  BY FS_AddElement
<1>2. Cardinality(S) \in Nat /\ Cardinality(S \cup {x}) \in Nat
  BY <1>1, FS_CardinalityType
<1>3. Cardinality(S \cup {x}) = IF x \in S THEN Cardinality(S) ELSE Cardinality(S) + 1
  BY FS_AddElement
<1>4. QED
  BY <1>1, <1>2, <1>3

LEMMA HeldIs ==
  ASSUME TInv
  PROVE  IsFiniteSet(Held) /\ Cardinality(Held) \in Nat
<1>1. IsFiniteSet(Objects)
  BY CollectorAssumption
<1>2. IsFiniteSet((Objects \cup {None}) \X Objects)
  BY <1>1, FS_AddElement, FS_Product
<1>3. IsFiniteSet(Objects \X ((Objects \cup {None}) \X Objects))
  BY <1>1, <1>2, FS_Product
<1>4. Held \in SUBSET (Objects \X ((Objects \cup {None}) \X Objects))
  <2>1. \A o \in Objects : entries[o] \subseteq (Objects \cup {None}) \X Objects
    BY DEF TInv, ObjectType
  <2>2. QED
    BY <2>1 DEF Held
<1>5. IsFiniteSet(Held)
  BY <1>3, <1>4, FS_Subset
<1>6. QED
  BY <1>5, FS_CardinalityType

LEMMA HeldShrinks ==
  ASSUME TInv, \A o \in Objects \ {main} : entries'[o] \subseteq entries[o]
  PROVE  Cardinality(Held') <= Cardinality(Held) /\ Cardinality(Held') \in Nat
<1>1. Held' \in SUBSET Held
  <2>1. \A h \in Held' : \E o \in Objects \ {main} : \E e \in entries'[o] : h = <<o, e>>
    BY DEF Held
  <2>2. \A o \in Objects \ {main} : \A e \in entries[o] : <<o, e>> \in Held
    BY DEF Held
  <2>3. QED
    BY <2>1, <2>2
<1>2. QED
  BY <1>1, HeldIs, FS_Subset, FS_CardinalityType

\* A store adds an entry only below the bound, or replaces one.
LEMMA StoreHolds ==
  ASSUME TInv, NEW c \in Objects, NEW v \in Objects, NEW k \in Objects \cup {None}, Store(c, k, v),
         Cardinality(Held) <= MaxEntries
  PROVE  Cardinality(Held') <= MaxEntries
<1>1. PICK old : old = {e \in entries[c] : e[1] = k}
  OBVIOUS
<1>2. /\ entries' = [entries EXCEPT ![c] = (entries[c] \ old) \cup {<<k, v>>}]
      /\ old = {} => Cardinality(Held) < MaxEntries
      /\ kind[c] # "main"
  BY <1>1 DEF Store
<1>3. c # main /\ entries'[c] = (entries[c] \ old) \cup {<<k, v>>}
      /\ \A o \in Objects \ {c} : entries'[o] = entries[o]
  BY <1>2 DEF TInv, ObjectType
<1>4. MaxEntries \in Nat /\ IsFiniteSet(Held) /\ Cardinality(Held) \in Nat
  BY HeldIs, CollectorAssumption
<1>5. /\ \A h : h \in Held <=> \E o \in Objects \ {main} : \E e \in entries[o] : h = <<o, e>>
      /\ \A h : h \in Held' <=> \E o \in Objects \ {main} : \E e \in entries'[o] : h = <<o, e>>
  BY DEF Held
<1>6. CASE old = {}
  <2>1. Held' \in SUBSET (Held \cup {<<c, <<k, v>>>>})
    BY <1>3, <1>5, <1>6
  <2>2. /\ IsFiniteSet(Held \cup {<<c, <<k, v>>>>})
        /\ Cardinality(Held \cup {<<c, <<k, v>>>>}) <= Cardinality(Held) + 1
        /\ Cardinality(Held \cup {<<c, <<k, v>>>>}) \in Nat
    BY <1>4, OneMore
  <2>3. Cardinality(Held') <= Cardinality(Held \cup {<<c, <<k, v>>>>}) /\ Cardinality(Held') \in Nat
    BY <2>1, <2>2, FS_Subset, FS_CardinalityType
  <2>4. QED
    BY <1>2, <1>4, <1>6, <2>2, <2>3
<1>7. CASE old # {}
  <2>1. PICK e \in entries[c] : e \in old
    BY <1>1, <1>7
  <2>2. PICK gone : gone = <<c, e>> /\ gone \in Held
    BY <1>3, <1>5, <2>1
  <2>3. Held' \in SUBSET ((Held \ {gone}) \cup {<<c, <<k, v>>>>})
    <3> SUFFICES ASSUME NEW h \in Held' PROVE h \in (Held \ {gone}) \cup {<<c, <<k, v>>>>}
      OBVIOUS
    <3>1. PICK o \in Objects \ {main} : \E f \in entries'[o] : h = <<o, f>>
      BY <1>5
    <3>2. PICK f \in entries'[o] : h = <<o, f>>
      BY <3>1
    <3>3. CASE o = c
      <4>1. f = <<k, v>> \/ (f \in entries[c] /\ f \notin old)
        BY <1>3, <3>2, <3>3
      <4>2. f \in entries[c] /\ f # e => h \in Held /\ h # gone
        BY <1>3, <1>5, <2>2, <3>2, <3>3
      <4>3. QED
        BY <2>1, <3>2, <3>3, <4>1, <4>2
    <3>4. CASE o # c
      <4>1. f \in entries[o] /\ h # gone
        BY <1>3, <2>2, <3>1, <3>2, <3>4
      <4>2. h \in Held
        BY <1>5, <3>2, <4>1
      <4>3. QED
        BY <4>1, <4>2
    <3>5. QED
      BY <3>3, <3>4
  <2>4. PICK less : less = Held \ {gone}
    OBVIOUS
  <2>5. IsFiniteSet(less) /\ Cardinality(less) = Cardinality(Held) - 1
    BY <1>4, <2>2, <2>4, FS_RemoveElement
  <2>6. PICK more : more = less \cup {<<c, <<k, v>>>>}
    OBVIOUS
  <2>7. IsFiniteSet(more) /\ Cardinality(more) <= Cardinality(less) + 1 /\ Cardinality(more) \in Nat
        /\ Cardinality(less) \in Nat
    BY <2>5, <2>6, OneMore
  <2>8. Cardinality(Held') <= Cardinality(more) /\ Cardinality(Held') \in Nat
    BY <2>3, <2>4, <2>6, <2>7, FS_Subset, FS_CardinalityType
  <2>9. QED
    BY <1>4, <2>5, <2>7, <2>8
<1>8. QED
  BY <1>6, <1>7

\* What every step does with what TInv leaves open
Gentle ==
  /\ orig' \in {orig, NoOrig, [weak |-> weak, allweak |-> allweak]}
  /\ full' \in {full, None, "flush", "finish"}
  /\ \/ KeepInvariant' \/ gray' = {}
     \/ gray' = gray /\ \A o \in Objects : Live(o) => Live(o)'
Sparing == \A o \in Objects \ {main} : entries'[o] \subseteq entries[o]

LEMMA SweepSpares ==
  ASSUME NEW p, NEW ents, \A o \in Objects : ents[o] \subseteq entries[o],
         NEW r, SweepsBehind(list, p, color, r), Sweep(r, color, ents)
  PROVE  Sparing /\ \A o \in Objects : Live(o) => Live(o)'
<1>1. \A o \in Objects : /\ kind'[o] = IF o \in r.gone THEN "free" ELSE kind[o]
                         /\ entries'[o] = IF o \in r.gone THEN {} ELSE ents[o]
                         /\ color'[o] = IF o \in r.gone \cup r.kept THEN "white" ELSE color[o]
  BY DEF Sweep
<1>2. \A o \in r.gone : color[o] = "dead"
  BY DEF SweepsBehind
<1>3. QED
  BY <1>1, <1>2 DEF Sparing, Live

LEMMA ProgramGentle ==
  ASSUME IInv, Program
  PROVE  Gentle /\ (Sparing \/ \E c, v \in Objects, k \in Objects \cup {None} : Store(c, k, v))
<1> USE DEF Gentle
<1>0. TInv /\ ObjectType /\ main \in Objects /\ color[main] # "dead"
  BY CollectorAssumption DEF IInv, TInv, AliveInv, Live
<1>1. ASSUME NEW o \in Objects, NEW k \in Kinds, New(o, k) PROVE Gentle /\ Sparing
  <2>1. /\ kind[o] = "free" /\ kind' = [kind EXCEPT ![o] = k] /\ color' = [color EXCEPT ![o] = "white"]
        /\ entries' = Pushed(o) /\ UNCHANGED <<gray, orig, full>>
    BY <1>1 DEF New, grayLists, atomicVars
  <2>2. k # "free"
    BY CollectorAssumption
  <2>3. \A x \in Objects : Live(x) => Live(x)'
    BY <1>0, <2>1, <2>2 DEF Live, ObjectType
  <2>4. Sparing
    BY <1>0, <2>1, PushedIs DEF Sparing
  <2>5. QED
    BY <2>1, <2>3, <2>4
<1>2. ASSUME NEW x \in Objects, Drop(x) PROVE Gentle /\ Sparing
  <2>1. /\ entries' = [entries EXCEPT ![main] = entries[main] \ {<<None, x>>}]
        /\ UNCHANGED <<kind, color, gray, orig, full>>
    BY <1>2 DEF Drop, grayLists, atomicVars
  <2>2. Sparing
    BY <1>0, <2>1 DEF Sparing, ObjectType
  <2>3. QED
    BY <2>1, <2>2 DEF Live
<1>3. ASSUME NEW o \in Objects, SetFinalizer(o) PROVE Gentle /\ Sparing
  <2>1. PICK r, col :
          /\ col = [color EXCEPT ![o] = IF SweepPhase THEN "white" ELSE color[o]]
          /\ Sweep(r, col, entries)
          /\ SweepPhase /\ sweepgc = o => SweepsBehind(list, o, col, r)
          /\ ~(SweepPhase /\ sweepgc = o) => r.gone = {} /\ r.kept = {}
          /\ UNCHANGED <<gcstate, grayLists, atomicVars>>
    BY <1>0, <1>3, SetFinalizerStep, Zenon
  <2>2. \A x \in r.gone : col[x] = "dead"
    BY <2>1 DEF SweepsBehind
  <2>3. \A x \in Objects : /\ kind'[x] = IF x \in r.gone THEN "free" ELSE kind[x]
                           /\ entries'[x] = IF x \in r.gone THEN {} ELSE entries[x]
                           /\ color'[x] = IF x \in r.gone \cup r.kept THEN "white" ELSE col[x]
    BY <2>1 DEF Sweep
  <2>4. \A x \in Objects : Live(x) => Live(x)'
    <3>1. \A x \in Objects : col[x] = color[x] \/ col[x] = "white"
      BY <1>0, <2>1 DEF ObjectType
    <3>2. QED
      BY <2>2, <2>3, <3>1 DEF Live
  <2>5. Sparing
    BY <2>3 DEF Sparing
  <2>6. full' = full
    BY <1>3 DEF SetFinalizer
  <2>7. QED
    BY <2>1, <2>4, <2>5, <2>6 DEF grayLists, atomicVars
<1>4. ASSUME NEW c \in Objects, NEW x \in Objects, Load(c, x) PROVE Gentle /\ Sparing
  <2>1. entries' = Pushed(x) /\ UNCHANGED <<kind, color, gray, orig, full>>
    BY <1>4 DEF Load, grayLists, atomicVars
  <2>2. Sparing
    BY <1>0, <2>1, PushedIs DEF Sparing
  <2>3. QED
    BY <2>1, <2>2 DEF Live
<1>5. ASSUME NEW c \in Objects, NEW v \in Objects, NEW k \in Objects \cup {None}, Store(c, k, v)
      PROVE  Gentle
  <2>1. PICK fresh \in BOOLEAN : Shade(c, {k, v} \ {None}, Barrier(c, fresh))
    BY <1>0, <1>5, StoreIs, Zenon
  <2>2. {k, v} \ {None} \in SUBSET Objects
    OBVIOUS
  <2>3. UNCHANGED <<kind, gcstate, orig, full>>
    BY <1>5 DEF Store, atomicVars
  <2>4. CASE KeepInvariant
    BY <2>3, <2>4 DEF KeepInvariant
  <2>5. CASE ~KeepInvariant
    <3>1. /\ gray' = gray
          /\ \/ color' = color \/ color' = [color EXCEPT ![c] = "gray"]
             \/ color' = [color EXCEPT ![c] = "white"]
      BY <1>0, <2>1, <2>2, <2>5, ShadeIs
    <3>2. \A x \in Objects : Live(x) => Live(x)'
      BY <1>0, <2>3, <3>1 DEF Live, ObjectType
    <3>3. QED
      BY <2>3, <3>1, <3>2
  <2>6. QED
    BY <2>4, <2>5
<1>6. ASSUME NEW c \in Objects, NEW e \in entries[c], Erase(c, e) PROVE Gentle /\ Sparing
  <2>1. entries' = [entries EXCEPT ![c] = entries[c] \ {e}] /\ UNCHANGED <<kind, color, gray, orig, full>>
    BY <1>6 DEF Erase, grayLists, atomicVars
  <2>2. Sparing
    BY <1>0, <2>1 DEF Sparing, ObjectType
  <2>3. QED
    BY <2>1, <2>2 DEF Live
<1>7. CASE FullStart
  <2>1. full' = "flush" /\ UNCHANGED <<gray, orig>>
    BY <1>7 DEF FullStart, grayLists, atomicVars
  <2>2. CASE KeepInvariant
    <3>1. PICK r : r = SweepToLive("allgc", color)
      OBVIOUS
    <3>2. Sweep(r, color, entries)
      BY <1>7, <2>2, <3>1 DEF FullStart
    <3>3. "allgc" \in Names \cup Allocated /\ Allocated \subseteq Objects
      BY DEF Names, Allocated
    <3>4. SweepsBehind(list, "allgc", color, r)
      BY <1>0, <3>1, <3>3, SweepToLiveIs DEF TInv
    <3>5. Sparing /\ \A o \in Objects : Live(o) => Live(o)'
      BY <3>2, <3>4, SweepSpares
    <3>6. QED
      BY <2>1, <3>5
  <2>3. CASE ~KeepInvariant
    BY <1>7, <2>1, <2>3 DEF FullStart, Live, Sparing
  <2>4. QED
    BY <2>2, <2>3
<1>8. QED
  BY <1>1, <1>2, <1>3, <1>4, <1>5, <1>6, <1>7 DEF Program

LEMMA CollectorGentle ==
  ASSUME IInv, SingleStep
  PROVE  Gentle /\ Sparing
<1> USE DEF Gentle
<1>0. TInv /\ main \in Objects /\ color[main] # "dead"
  BY CollectorAssumption DEF IInv, AliveInv, Live
<1>1. CASE Restart
  BY <1>1 DEF Restart, KeepInvariant, Sparing, atomicVars
<1>2. CASE EndPropagate
  BY <1>2 DEF EndPropagate, KeepInvariant, Sparing, atomicVars
<1>3. CASE EnterAtomic
  BY <1>3 DEF EnterAtomic, KeepInvariant, Sparing, outsideAtomic
<1>4. CASE TraverseAgain
  <2>1. gcstate = "atomic"
    BY <1>0, <1>4 DEF TraverseAgain, At, TInv, StateType, None
  <2>2. QED
    BY <1>4, <2>1 DEF TraverseAgain, KeepInvariant, Sparing, outsideAtomic
<1>5. ASSUME NEW o \in Objects, Propagate(o) PROVE Gentle /\ Sparing
  BY <1>5 DEF Propagate, KeepInvariant, Sparing, atomicVars
<1>6. ASSUME NEW o \in Objects, ConvergeTable(o) PROVE Gentle /\ Sparing
  <2>1. gcstate = "atomic"
    BY <1>0, <1>6 DEF ConvergeTable, TInv, StateType, None
  <2>2. QED
    BY <1>6, <2>1 DEF ConvergeTable, KeepInvariant, Sparing, outsideAtomic
<1>7. ASSUME NEW from, NEW to, Converge(from, to) PROVE Gentle /\ Sparing
  BY <1>7 DEF Converge, At, Sparing, outsideAtomic
<1>8. CASE Separate
  <2>1. /\ entries' = ByValues(entries, weak \cup allweak) /\ orig' = [weak |-> weak, allweak |-> allweak]
        /\ UNCHANGED <<full, gcstate>> /\ stage = "converge"
    BY <1>8 DEF Separate, Converged, At, outsideAtomic
  <2>2. KeepInvariant'
    BY <1>0, <2>1 DEF TInv, StateType, None, KeepInvariant
  <2>3. Sparing
    BY <2>1, ClearedIs DEF Sparing
  <2>4. QED
    BY <2>1, <2>2, <2>3
<1>9. CASE FinishAtomic
  <2>1. gray' = {} /\ orig' = NoOrig /\ full' = full
    BY <1>9 DEF FinishAtomic, Converged, At, grayLists
  <2>2. PICK late, byKeys, col, r :
          Sweep(r, col, ByValues(ByKeys(entries, byKeys), late))
    BY <1>9 DEF FinishAtomic
  <2>3. PICK mid : mid = ByKeys(entries, byKeys)
    OBVIOUS
  <2>4. PICK ents : ents = ByValues(mid, late)
    OBVIOUS
  <2>5. \A o \in Objects : mid[o] \subseteq entries[o]
    BY <2>3, ClearedIs
  <2>6. \A o \in Objects : ents[o] \subseteq mid[o]
    BY <2>4, ClearedIs
  <2>7. \A o \in Objects : entries'[o] = IF o \in r.gone THEN {} ELSE ents[o]
    BY <2>2, <2>3, <2>4 DEF Sweep
  <2>8. Sparing
    BY <2>5, <2>6, <2>7 DEF Sparing
  <2>9. QED
    BY <2>1, <2>8
<1>10. CASE SweepStep
  <2>1. PICK r : SweepsBehind(list, sweepgc, color, r) /\ Sweep(r, color, entries)
    BY <1>0, <1>10, SweepStepT
  <2>2. Sparing /\ \A o \in Objects : Live(o) => Live(o)'
    BY <2>1, SweepSpares
  <2>3. UNCHANGED <<gray, orig, full>>
    BY <1>10 DEF SweepStep, grayLists, atomicVars
  <2>4. QED
    BY <2>2, <2>3
<1>11. CASE EndSweep
  BY <1>11 DEF EndSweep, NextSweep, Sparing, Live, grayLists, atomicVars
<1>12. CASE CallFinalizer
  <2>1. PICK o : entries' = Pushed(o) /\ UNCHANGED <<kind, color, gray, orig, full>>
    BY <1>12 DEF CallFinalizer, grayLists, atomicVars
  <2>2. entries' = [entries EXCEPT ![main] = entries[main] \cup {<<None, o>>}]
    BY <2>1 DEF Pushed
  <2>3. Sparing
    BY <1>0, <2>2 DEF Sparing, TInv, ObjectType
  <2>4. QED
    BY <2>1, <2>3 DEF Live
<1>13. CASE EndCycle
  BY <1>13 DEF EndCycle, Sparing, Live, grayLists, atomicVars
<1>14. QED
  BY <1>1, <1>2, <1>3, <1>4, <1>5, <1>6, <1>7, <1>8, <1>9, <1>10, <1>11, <1>12, <1>13
     DEF SingleStep, ConvergeAgain

\* What TypeOK says and TInv does not
RestInv ==
  /\ Cardinality(Held) <= MaxEntries
  /\ orig \in [weak : SUBSET Objects, allweak : SUBSET Objects]
  /\ full \in {None, "flush", "finish"}
  /\ \A o \in gray : Live(o)

LEMMA RestStep ==
  ASSUME "map" \notin Kinds, IInv, IInv', RestInv, [Next]_vars
  PROVE  RestInv'
<1>1. CASE UNCHANGED vars
  <2>1. UNCHANGED <<kind, entries, color, gray, orig, full>>
    BY <1>1 DEF vars, grayLists, atomicVars
  <2>2. QED
    BY <2>1 DEF RestInv, Held, Live
<1>2. CASE Next
  <2>1. Gentle /\ (Sparing \/ \E c, v \in Objects, k \in Objects \cup {None} : Store(c, k, v))
    BY <1>2, ProgramGentle, CollectorGentle DEF Next
  <2>2. Cardinality(Held') <= MaxEntries
    <3>1. TInv /\ TInv'
      BY DEF IInv
    <3>2. CASE Sparing
      <4>1. IsFiniteSet(Held) /\ Cardinality(Held) \in Nat /\ MaxEntries \in Nat
        BY <3>1, HeldIs, CollectorAssumption
      <4>2. Cardinality(Held') \in Nat /\ Cardinality(Held') <= Cardinality(Held)
        BY <3>1, <3>2, HeldShrinks DEF Sparing
      <4>3. QED
        BY <4>1, <4>2 DEF RestInv
    <3>3. CASE \E c, v \in Objects, k \in Objects \cup {None} : Store(c, k, v)
      BY <3>1, <3>3, StoreHolds DEF RestInv
    <3>4. QED
      BY <2>1, <3>2, <3>3
  <2>3. orig' \in [weak : SUBSET Objects, allweak : SUBSET Objects]
    <3>1. weak \subseteq Objects /\ allweak \subseteq Objects
      BY DEF IInv, TInv, StateType
    <3>2. QED
      BY <2>1, <3>1 DEF Gentle, RestInv, NoOrig
  <2>4. full' \in {None, "flush", "finish"}
    BY <2>1 DEF Gentle, RestInv
  <2>5. \A o \in gray' : Live(o)'
    <3>1. CASE KeepInvariant'
      BY <3>1 DEF IInv, MarkInv, GrayInv, InLists, IsMarked, Live
    <3>2. CASE ~KeepInvariant'
      <4>1. gray \subseteq Objects
        BY DEF IInv, TInv, StateType
      <4>2. QED
        BY <2>1, <3>2, <4>1 DEF Gentle, RestInv
    <3>3. QED
      BY <3>1, <3>2
  <2>6. QED
    BY <2>2, <2>3, <2>4, <2>5 DEF RestInv
<1>3. QED
  BY <1>1, <1>2

LEMMA RestStarts == ASSUME Init PROVE RestInv
<1>1. Held = {}
  BY DEF Init, Held
<1>2. Cardinality(Held) <= MaxEntries
  BY <1>1, FS_EmptySet, CollectorAssumption
<1>3. QED
  BY <1>2 DEF Init, RestInv, NoOrig

\* The type invariant: each object is once in one list, there are never more
\* entries than the bound says, and the lists of the collector refer to objects
\* that are not free.
THEOREM CollectorTypes == "map" \notin Kinds => (Spec => []TypeOK)
<1> SUFFICES ASSUME "map" \notin Kinds PROVE Spec => []TypeOK
  OBVIOUS
<1>1. Spec => []IInv
  BY Inductive
<1>2. Init => RestInv
  BY RestStarts
<1>3. IInv /\ IInv' /\ RestInv /\ [Next]_vars => RestInv'
  BY RestStep
<1>4. IInv /\ RestInv => TypeOK
  <2> SUFFICES ASSUME IInv, RestInv PROVE TypeOK
    OBVIOUS
  <2>1. TInv /\ ObjectType /\ StateType /\ Lists(list, Allocated)
    BY DEF IInv, TInv
  <2>2. /\ kind \in [Objects -> Kinds \cup {"free", "main"}]
        /\ entries \in [Objects -> SUBSET ((Objects \cup {None}) \X Objects)]
        /\ color \in [Objects -> Colors]
    BY <2>1 DEF ObjectType
  <2>3. /\ list \in [{"allgc", "finobj", "tobefnz"} -> Seq(Allocated)]
        /\ LET all == list.allgc \o list.finobj \o list.tobefnz
           IN  Range(all) = Allocated /\ Len(all) = Cardinality(Allocated)
    BY <2>1, ListsType DEF Names
  <2>4. gray \subseteq Allocated /\ grayagain \subseteq Objects
        /\ weak \cup allweak \cup ephemeron \cup todo \subseteq Objects
    BY <2>1 DEF StateType, RestInv, Live, Allocated
  <2>5. sweepgc \in {None, "allgc", "finobj", "tobefnz"} \cup Objects
    BY <2>1, ListIs DEF TInv, Address, Names
  <2>6. doomed \subseteq Objects
    BY DEF IInv, DoomInv
  <2>7. /\ gcstate \in {"propagate", "enteratomic", "atomic", "swpallgc", "swpfinobj",
                        "swptobefnz", "swpend", "callfin", "pause"}
        /\ stage \in {None, "roots", "again", "converge", "finalize", "reconverge"}
        /\ changed \in BOOLEAN
    BY <2>1 DEF StateType
  <2>8. QED
    BY <2>2, <2>3, <2>4, <2>5, <2>6, <2>7 DEF TypeOK, RestInv
<1>5. QED
  BY <1>1, <1>2, <1>3, <1>4, PTL DEF Spec
=============================================================================
