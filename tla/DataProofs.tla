----------------------------- MODULE DataProofs -----------------------------
(***************************************************************************)
(* Facts about data that the other proofs rest on: what the heap map, the  *)
(* stable array and the way between them do, and induction in the one form *)
(* that needs no operator as a parameter: the induction hypothesis is a    *)
(* set of naturals.                                                        *)
(***************************************************************************)
EXTENDS StableMap, WellFoundedInduction, TLAPS

IsMap(m) == m = [k \in DOMAIN m |-> m[k]]

\* Every operation of HashMap yields a map, and says what it holds.
LEMMA PutIsMap ==
  ASSUME NEW m, NEW k, NEW v
  PROVE /\ IsMap(Put(m, k, v))
        /\ DOMAIN Put(m, k, v) = DOMAIN m \cup {k}
        /\ Put(m, k, v)[k] = v
        /\ \A x \in DOMAIN m \ {k} : Put(m, k, v)[x] = m[x]
  BY DEF IsMap, Put

\* A HashMap starts as a map with no key.
LEMMA EmptyIsMap == IsMap(EmptyMap) /\ DOMAIN EmptyMap = {}
  BY DEF IsMap, EmptyMap

\* Rebuilding a HashMap from the array that preupgrade wrote gives back the
\* map it was written from: nothing is lost, nothing is merged.
THEOREM FromIterEntries ==
  ASSUME NEW m, IsMap(m)
  PROVE FromIter(Entries(m)) = m
<1>1. {e[1] : e \in Entries(m)} = DOMAIN m
  <2>1. ASSUME NEW k \in DOMAIN m
        PROVE k \in {e[1] : e \in Entries(m)}
    <3>1. <<k, m[k]>> \in Entries(m)
      BY DEF Entries
    <3>2. <<k, m[k]>>[1] = k
      OBVIOUS
    <3> QED BY <3>1, <3>2
  <2>2. ASSUME NEW e \in Entries(m)
        PROVE e[1] \in DOMAIN m
    BY DEF Entries
  <2> QED BY <2>1, <2>2
<1>2. ASSUME NEW k \in DOMAIN m
      PROVE (CHOOSE e \in Entries(m) : e[1] = k)[2] = m[k]
  <2>1. <<k, m[k]>> \in Entries(m)
    BY DEF Entries
  <2>2. \A e \in Entries(m) : e[1] = k => e[2] = m[k]
    BY DEF Entries
  <2>3. \E e \in Entries(m) : e[1] = k
    BY <2>1
  <2> QED BY <2>2, <2>3
<1>3. FromIter(Entries(m)) = [k \in DOMAIN m |-> m[k]]
  BY <1>1, <1>2 DEF FromIter
<1> QED BY <1>3 DEF IsMap
-----------------------------------------------------------------------------
\* A set that holds 0 and, with a number, its successor, holds every natural
\* number.  The hashes up a path, the terms under a root and the product of a
\* chain of contributions are computed by recursion over a number.
LEMMA SetInduction ==
  ASSUME NEW S, 0 \in S, \A n \in Nat : n \in S => n + 1 \in S
  PROVE  Nat \subseteq S
<1> DEFINE T == Nat \ S
<1> SUFFICES ASSUME T # {} PROVE FALSE
  OBVIOUS
<1>1. \E x \in T : \A y \in T : <<y, x>> \notin OpToRel(<, Nat)
  <2>1. T \subseteq Nat
    OBVIOUS
  <2> HIDE DEF T
  <2> QED BY <2>1, NatLessThanWellFounded, WFMin
<1>2. PICK x \in T : \A y \in T : <<y, x>> \notin OpToRel(<, Nat)
  BY <1>1
<1>3. \A y \in T : ~(y < x)
  BY <1>2 DEF OpToRel
<1>4. x # 0 /\ x - 1 \in Nat
  OBVIOUS
<1>5. x - 1 \notin T
  BY <1>3, <1>4
<1> QED BY <1>4, <1>5

\* The same up to a bound.
LEMMA BoundedInduction ==
  ASSUME NEW S, NEW d \in Nat, 0 \in S, \A n \in 0..(d - 1) : n \in S => n + 1 \in S
  PROVE  0..d \subseteq S
<1> DEFINE U == {n \in Nat : n <= d => n \in S}
<1>1. 0 \in U
  OBVIOUS
<1>2. ASSUME NEW n \in Nat, n \in U
      PROVE n + 1 \in U
  BY <1>2
<1>3. Nat \subseteq U
  <2> HIDE DEF U
  <2> QED BY <1>1, <1>2, SetInduction
<1> QED BY <1>3

\* The steps of a recursion over 0..d whose values stay in V.
StepMaps(d, V) == [1..d -> [V -> V]]

IsRecursion(g, d, V, init, step) ==
  /\ g \in [0..d -> V]
  /\ g[0] = init
  /\ \A m \in 1..d : g[m] = step[m][g[m - 1]]

\* Such a recursion has a solution: this is what lets a proof unfold a
\* recursive function.
LEMMA Recursion ==
  ASSUME NEW d \in Nat, NEW V, NEW init \in V, NEW step \in StepMaps(d, V)
  PROVE  \E g : IsRecursion(g, d, V, init, step)
<1> USE DEF StepMaps
<1> DEFINE Solves(g, n) == g[0] = init /\ \A m \in 1..n : g[m] = step[m][g[m - 1]]
           S == {n \in 0..d : \E g \in [0..n -> V] : Solves(g, n)}
<1>1. 0 \in S
  <2> DEFINE g == [m \in 0..0 |-> init]
  <2>1. g \in [0..0 -> V] /\ Solves(g, 0)
    OBVIOUS
  <2> HIDE DEF g
  <2> QED BY <2>1
<1>2. ASSUME NEW n \in 0..(d - 1), n \in S
      PROVE  n + 1 \in S
  <2>1. PICK g \in [0..n -> V] : Solves(g, n)
    BY <1>2
  <2> DEFINE h == [m \in 0..(n + 1) |-> IF m = n + 1 THEN step[n + 1][g[n]] ELSE g[m]]
  <2>2. h \in [0..(n + 1) -> V]
    <3>1. n + 1 \in 1..d /\ g[n] \in V
      OBVIOUS
    <3> QED BY <3>1
  <2>3. ASSUME NEW m \in 1..(n + 1)
        PROVE h[m] = step[m][h[m - 1]]
    <3>1. h[m - 1] = g[m - 1]
      OBVIOUS
    <3> QED BY <2>1, <3>1
  <2>4. h[0] = init
    BY <2>1
  <2> HIDE DEF h
  <2> QED BY <2>2, <2>3, <2>4
<1>3. 0..d \subseteq S
  <2> HIDE DEF S
  <2> QED BY <1>1, <1>2, BoundedInduction
<1>4. d \in S
  BY <1>3
<1> QED BY <1>4 DEF IsRecursion
-----------------------------------------------------------------------------
\* Which chunk the element with n elements before it is in, and when the next
\* element opens another one.
LEMMA ChunkOf ==
  ASSUME NEW w \in Nat \ {0}, NEW n \in Nat
  PROVE  /\ n \div w \in Nat
         /\ (n \div w) * w \in Nat
         /\ (n \div w) * w <= n
         /\ n < (n \div w) * w + w
<1>1. n \div w \in Nat
  OBVIOUS
<1>2. n = w * (n \div w) + (n % w) /\ n % w \in 0..(w - 1)
  OBVIOUS
<1>3. (n \div w) * w = w * (n \div w) /\ w * (n \div w) \in Nat
  BY <1>1
<1> QED BY <1>1, <1>2, <1>3

\* A number is in one chunk only.
LEMMA ChunkUnique ==
  ASSUME NEW w \in Nat \ {0}, NEW n \in Nat, NEW k \in Nat,
         k * w <= n, n < k * w + w
  PROVE  n \div w = k
<1> DEFINE q == n \div w
<1>1. q \in Nat /\ q * w \in Nat /\ q * w <= n /\ n < q * w + w
  BY ChunkOf
<1> HIDE DEF q
<1>2. CASE q >= k + 1
  <2>1. q * w >= (k + 1) * w
    BY <1>1, <1>2
  <2>2. (k + 1) * w = k * w + w /\ k * w \in Nat
    OBVIOUS
  <2> QED BY <1>1, <2>1, <2>2
<1>3. CASE k >= q + 1
  <2>1. k * w >= (q + 1) * w
    BY <1>1, <1>3
  <2>2. (q + 1) * w = q * w + w /\ k * w \in Nat
    BY <1>1
  <2> QED BY <1>1, <2>1, <2>2
<1>4. CASE ~(q >= k + 1) /\ ~(k >= q + 1)
  BY <1>1, <1>4
<1> QED BY <1>2, <1>3, <1>4 DEF q

\* The next element is in the same chunk, or opens the next.
LEMMA NextChunk ==
  ASSUME NEW w \in Nat \ {0}, NEW n \in Nat
  PROVE  (n + 1) \div w = IF n + 1 = (n \div w) * w + w THEN n \div w + 1 ELSE n \div w
<1> DEFINE q == n \div w
<1>1. q \in Nat /\ q * w \in Nat /\ q * w <= n /\ n < q * w + w
  BY ChunkOf
<1>2. (q + 1) * w = q * w + w
  BY <1>1
<1> HIDE DEF q
<1>3. CASE n + 1 = q * w + w
  <2>1. (q + 1) * w <= n + 1 /\ n + 1 < (q + 1) * w + w /\ q + 1 \in Nat
    BY <1>1, <1>2, <1>3
  <2>2. (n + 1) \div w = q + 1
    BY <2>1, ChunkUnique
  <2> QED BY <1>3, <2>2 DEF q
<1>4. CASE n + 1 # q * w + w
  <2>1. q * w <= n + 1 /\ n + 1 < q * w + w
    BY <1>1, <1>4
  <2>2. (n + 1) \div w = q
    BY <1>1, <2>1, ChunkUnique
  <2> QED BY <1>4, <2>2 DEF q
<1> QED BY <1>3, <1>4
=============================================================================
