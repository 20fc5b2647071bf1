---------------------------- MODULE MemoryProofs ----------------------------
(***************************************************************************)
(* Proofs about Memory, for every number of clusters and every memory map. *)
(***************************************************************************)
EXTENDS MemoryLoops, WellFoundedInduction, TLAPS

-----------------------------------------------------------------------------
(* Induction, stated of sets: what the loops of the code compute is proved   *)
(* with these.                                                               *)
LEMMA LeastNat ==
  ASSUME NEW T \in SUBSET Nat, T # {}
  PROVE  \E n \in T : \A m \in T : n <= m
<1>1. PICK n \in T : \A m \in T : ~ (<<m, n>> \in OpToRel(<, Nat))
  BY WFMin, NatLessThanWellFounded
<1>2. \A m \in T : ~ (m < n)
  BY <1>1 DEF OpToRel
<1> QED BY <1>2

LEMMA SetInduction ==
  ASSUME NEW S, 0 \in S, \A n \in Nat : n \in S => n + 1 \in S
  PROVE  Nat \subseteq S
<1> DEFINE T == Nat \ S
<1>1. SUFFICES ASSUME T # {} PROVE FALSE
  OBVIOUS
<1>2. PICK n \in T : \A m \in T : n <= m
  BY <1>1, LeastNat
<1>3. n - 1 \in Nat /\ n - 1 \notin T
  BY <1>2
<1> QED BY <1>2, <1>3

(* A set of numbers with a bound has a greatest one.                         *)
LEMMA GreatestNat ==
  ASSUME NEW S \in SUBSET Nat, S # {}, NEW b \in Nat, \A x \in S : x <= b
  PROVE  \E m \in S : \A x \in S : x <= m
<1> DEFINE T == {b - x : x \in S}
<1>0. \A x \in S : b - x \in Nat
  OBVIOUS
<1>1. T \in SUBSET Nat /\ T # {}
  BY <1>0, Zenon
<1>2. PICK n \in T : \A m \in T : n <= m
  BY <1>1, LeastNat
<1>3. PICK m \in S : n = b - m
  BY <1>2
<1>4. ASSUME NEW x \in S PROVE x <= m
  <2>1. n <= b - x
    BY <1>2, <1>4
  <2> QED BY <1>3, <2>1
<1> QED BY <1>4

(* A loop whose turn n takes a state x of A to F[<<x, n>>] has a state after *)
(* every number of turns.                                                    *)
Maps(A) == [A \X Nat -> A]
IsRun(f, A, x0, F) == f \in [Nat -> A] /\ f[0] = x0 /\ \A n \in Nat : f[n + 1] = F[<<f[n], n>>]

LEMMA LoopDefined ==
  ASSUME NEW A, NEW x0 \in A, NEW F \in Maps(A)
  PROVE  \E f : IsRun(f, A, x0, F)
<1> DEFINE Upto(n) == {g \in [0..n -> A] : g[0] = x0 /\ \A k \in 0..(n - 1) : g[k + 1] = F[<<g[k], k>>]}
           S == {n \in Nat : Upto(n) # {}}
<1>0. F \in [A \X Nat -> A]
  BY DEF Maps
<1>1. Nat \subseteq S
  <2>1. 0 \in S
    <3>1. [k \in 0..0 |-> x0] \in Upto(0)
      OBVIOUS
    <3> QED BY <3>1
  <2>2. ASSUME NEW n \in Nat, n \in S PROVE n + 1 \in S
    <3>1. PICK g : g \in Upto(n)
      BY <2>2
    <3>2. g \in [0..n -> A] /\ g[0] = x0 /\ \A k \in 0..(n - 1) : g[k + 1] = F[<<g[k], k>>]
      BY <3>1
    <3> DEFINE h == [k \in 0..(n + 1) |-> IF k <= n THEN g[k] ELSE F[<<g[n], n>>]]
    <3>3. g[n] \in A /\ F[<<g[n], n>>] \in A
      BY <1>0, <3>2
    <3>4. h \in [0..(n + 1) -> A] /\ h[0] = x0
      BY <3>2, <3>3
    <3>5. ASSUME NEW k \in 0..n PROVE h[k + 1] = F[<<h[k], k>>]
      <4>1. CASE k = n
        <5>1. n + 1 \in 0..(n + 1) /\ ~ (n + 1 <= n) /\ n \in 0..(n + 1)
          OBVIOUS
        <5>2. h[n + 1] = F[<<g[n], n>>] /\ h[n] = g[n]
          BY <5>1
        <5> HIDE DEF h
        <5> QED BY <4>1, <5>2
      <4>2. CASE k # n
        <5>1. k \in 0..(n - 1) /\ k + 1 <= n /\ k <= n
          BY <4>2
        <5> QED BY <3>2, <5>1
      <4> QED BY <4>1, <4>2
    <3> HIDE DEF h
    <3>6. h \in Upto(n + 1)
      BY <3>4, <3>5
    <3>7. n + 1 \in Nat
      OBVIOUS
    <3> HIDE DEF Upto
    <3> QED BY <3>6, <3>7
  <2> HIDE DEF S
  <2> QED BY <2>1, <2>2, SetInduction
<1>2. ASSUME NEW n \in Nat, NEW g \in Upto(n), NEW h \in Upto(n + 1)
      PROVE  g[n] = h[n]
  <2> DEFINE R == {k \in Nat : k <= n => g[k] = h[k]}
  <2>1. 0 \in R
    OBVIOUS
  <2>2. ASSUME NEW k \in Nat, k \in R PROVE k + 1 \in R
    <3>1. SUFFICES ASSUME k + 1 <= n PROVE g[k + 1] = h[k + 1]
      OBVIOUS
    <3>2. g[k] = h[k] /\ k \in 0..(n - 1) /\ k \in 0..(n + 1 - 1)
      BY <2>2, <3>1
    <3>3. g[k + 1] = F[<<g[k], k>>] /\ h[k + 1] = F[<<h[k], k>>]
      BY <3>2
    <3> QED BY <3>2, <3>3
  <2> HIDE DEF R
  <2>3. Nat \subseteq R
    BY <2>1, <2>2, SetInduction
  <2> QED BY <2>3 DEF R
<1> DEFINE G(n) == CHOOSE g : g \in Upto(n)
           f == [n \in Nat |-> G(n)[n]]
<1> HIDE DEF Upto
<1>3. \A n \in Nat : G(n) \in Upto(n)
  BY <1>1
<1> HIDE DEF G
<1>4. \A n \in Nat : G(n)[n] \in A
  BY <1>3 DEF Upto
<1>5. f \in [Nat -> A]
  BY <1>4
<1>6. f[0] = x0
  BY <1>3 DEF Upto
<1>7. ASSUME NEW n \in Nat PROVE f[n + 1] = F[<<f[n], n>>]
  <2>1. n + 1 \in Nat /\ G(n) \in Upto(n) /\ G(n + 1) \in Upto(n + 1)
    BY <1>3
  <2>2. G(n)[n] = G(n + 1)[n]
    BY <1>2, <2>1
  <2>3. n \in 0..(n + 1 - 1)
    OBVIOUS
  <2>4. G(n + 1)[n + 1] = F[<<G(n + 1)[n], n>>]
    BY <2>1, <2>3 DEF Upto
  <2> QED BY <2>1, <2>2, <2>4
<1> HIDE DEF f
<1> QED BY <1>5, <1>6, <1>7 DEF IsRun

(* The same for a loop of N turns.                                           *)
Turns(A, N) == [A \X (1..N) -> A]
IsLoop(g, A, x0, N, F) ==
  g \in [0..N -> A] /\ g[0] = x0 /\ \A n \in 1..N : g[n] = F[<<g[n - 1], n>>]

LEMMA LoopOfTurns ==
  ASSUME NEW A, NEW x0 \in A, NEW N \in Nat, NEW F \in Turns(A, N)
  PROVE  \E g : IsLoop(g, A, x0, N, F)
<1> DEFINE H == [y \in A \X Nat |-> IF y[2] < N THEN F[<<y[1], y[2] + 1>>] ELSE y[1]]
<1>1. \A x \in A, n \in Nat : n < N => F[<<x, n + 1>>] \in A
  BY DEF Turns
<1>2. H \in Maps(A)
  BY <1>1 DEF Maps
<1>3. \A x \in A, n \in Nat : n < N => H[<<x, n>>] = F[<<x, n + 1>>]
  OBVIOUS
<1> HIDE DEF H
<1>5. PICK f : IsRun(f, A, x0, H)
  BY <1>2, LoopDefined
<1> DEFINE g == [n \in 0..N |-> f[n]]
<1>6. f \in [Nat -> A] /\ f[0] = x0 /\ \A n \in Nat : f[n + 1] = H[<<f[n], n>>]
  BY <1>5 DEF IsRun
<1>7. g \in [0..N -> A] /\ g[0] = x0
  BY <1>6
<1>8. ASSUME NEW n \in 1..N PROVE g[n] = F[<<g[n - 1], n>>]
  <2>1. n - 1 \in Nat /\ n - 1 < N /\ (n - 1) + 1 = n /\ n - 1 \in 0..N /\ n \in 0..N
    OBVIOUS
  <2>2. f[n] = H[<<f[n - 1], n - 1>>]
    BY <1>6, <2>1
  <2>3. f[n] = F[<<f[n - 1], n>>]
    BY <1>3, <1>6, <2>1, <2>2
  <2> QED BY <2>1, <2>3
<1> HIDE DEF g
<1> QED BY <1>7, <1>8 DEF IsLoop

-----------------------------------------------------------------------------
(* The inductive invariant, of a table c and the blocks h handed out from    *)
(* it: realloc passes through a state in between, the new block taken and    *)
(* the old one not yet given back, of which the same must hold.              *)
Typed(c, h) ==
  /\ c \in [Clusters -> Clusters \cup {FREE, ABSENT}]
  /\ DOMAIN h \subseteq Clusters
  /\ h = [a \in DOMAIN h |-> h[a]]
  /\ \A a \in DOMAIN h : h[a] \in 1..CLUSTER_COUNT
Absent(c) == \A i \in Clusters : c[i] = ABSENT <=> i \notin Present
Whole(c, h) == \A a \in DOMAIN h : \A i \in a..(a + h[a] - 1) :
  i \in Clusters /\ c[i] = a
NoLeak(c, h) == \A i \in Clusters : c[i] >= 0 => c[i] \in DOMAIN h
Runs(c) == \A i \in Clusters :
  c[i] >= 0 => c[i] <= i /\ \A j \in c[i]..i : c[j] = c[i]

Good(c, h) ==
  Typed(c, h) /\ Absent(c) /\ Whole(c, h) /\ NoLeak(c, h) /\ Runs(c)

(* A block handed out starts at its address.                                 *)
LEMMA HeadOfBlock ==
  ASSUME NEW c, NEW h, Good(c, h), NEW a \in DOMAIN h
  PROVE  a \in Clusters /\ c[a] = a
<1>1. a \in Clusters /\ h[a] \in 1..CLUSTER_COUNT
  BY DEF Good, Typed
<1>2. a \in a..(a + h[a] - 1)
  BY <1>1, MemoryAssumption DEF Clusters
<1> QED BY <1>1, <1>2 DEF Good, Whole

(* The loop of unalloc reaches every cluster of the block, and no other.     *)
LEMMA BlockIsEveryCluster ==
  ASSUME NEW c, NEW h, Good(c, h), NEW a \in Clusters, NEW i \in Clusters
  PROVE  i \in Block(c, a) <=> c[i] = a
<1>1. a \in Int /\ i \in Int /\ a >= 0
  BY MemoryAssumption DEF Clusters
<1>2. ASSUME c[i] = a PROVE i \in Block(c, a)
  <2>1. c[i] >= 0
    BY <1>1, <1>2
  <2>2. c[i] <= i /\ \A j \in c[i]..i : c[j] = c[i]
    BY <2>1 DEF Good, Runs
  <2> QED BY <1>2, <2>2 DEF Block
<1>3. ASSUME i \in Block(c, a) PROVE c[i] = a
  <2>1. a <= i /\ \A j \in a..i : c[j] = a
    BY <1>3 DEF Block
  <2> QED BY <1>1, <2>1
<1> QED BY <1>2, <1>3

(* unalloc keeps the invariant, whether the address is handed out or not.    *)
LEMMA UnallocGood ==
  ASSUME NEW c, NEW h, Good(c, h), NEW a \in Clusters
  PROVE  /\ Good(Unalloc(c, a), Without(h, a))
         /\ \A i \in Clusters : Unalloc(c, a)[i] = IF c[i] = a THEN FREE ELSE c[i]
<1> DEFINE d == Unalloc(c, a)
           g == Without(h, a)
<1>0. a # NULL /\ a \in Int /\ a >= 0
  BY MemoryAssumption DEF Clusters, NULL
<1>1. d \in [Clusters -> Clusters \cup {FREE, ABSENT}]
      /\ \A i \in Clusters : d[i] = IF c[i] = a THEN FREE ELSE c[i]
  BY <1>0, BlockIsEveryCluster DEF Unalloc, Good, Typed
<1>2. /\ DOMAIN g = DOMAIN h \ {a} /\ g = [b \in DOMAIN g |-> g[b]]
      /\ \A b \in DOMAIN g : g[b] = h[b]
  BY DEF Without
<1> HIDE DEF d, g
<1>3. Typed(d, g)
  <2>1. DOMAIN h \subseteq Clusters /\ \A b \in DOMAIN h : h[b] \in 1..CLUSTER_COUNT
    BY DEF Good, Typed
  <2>2. DOMAIN g \subseteq Clusters /\ \A b \in DOMAIN g : g[b] \in 1..CLUSTER_COUNT
    BY <2>1, <1>2
  <2>3. d \in [Clusters -> Clusters \cup {FREE, ABSENT}]
    BY <1>1
  <2>4. g = [b \in DOMAIN g |-> g[b]]
    BY <1>2
  <2> QED BY <2>2, <2>3, <2>4, Zenon DEF Typed
<1>4. Absent(d)
  <2>1. FREE # ABSENT /\ a # ABSENT
    BY <1>0 DEF FREE, ABSENT
  <2> QED BY <2>1, <1>1 DEF Good, Absent
<1>5. Whole(d, g)
  <2> SUFFICES ASSUME NEW b \in DOMAIN g, NEW i \in b..(b + g[b] - 1)
               PROVE  i \in Clusters /\ d[i] = b
    BY DEF Whole
  <2>1. b \in DOMAIN h /\ b # a /\ g[b] = h[b]
    BY <1>2
  <2>2. i \in Clusters /\ c[i] = b
    BY <2>1 DEF Good, Whole
  <2> QED BY <2>1, <2>2, <1>1
<1>6. NoLeak(d, g)
  <2>1. ~ (FREE >= 0)
    BY DEF FREE
  <2> QED BY <2>1, <1>1, <1>2 DEF Good, NoLeak
<1>7. Runs(d)
  <2> SUFFICES ASSUME NEW i \in Clusters, d[i] >= 0
               PROVE  d[i] <= i /\ \A j \in d[i]..i : d[j] = d[i]
    BY DEF Runs
  <2>1. c[i] # a /\ d[i] = c[i]
    BY <1>1 DEF FREE
  <2>2. c[i] <= i /\ \A j \in c[i]..i : c[j] = c[i]
    BY <2>1 DEF Good, Runs
  <2>3. \A j \in c[i]..i : j \in Clusters
    <3>1. c[i] \in Int /\ c[i] >= 0
      BY <2>1 DEF Good, Typed, Clusters, FREE, ABSENT
    <3> QED BY <3>1, MemoryAssumption DEF Clusters
  <2> QED BY <2>1, <2>2, <2>3, <1>1
<1> QED BY <1>1, <1>3, <1>4, <1>5, <1>6, <1>7 DEF Good, d, g

(* alloc keeps the invariant, and takes only free clusters.                  *)
LEMMA AllocGood ==
  ASSUME NEW c, NEW h, Good(c, h), NEW k \in 0..CLUSTER_COUNT,
         NEW n \in Clusters \cup {NULL}, IsAlloc(c, k, n)
  PROVE  /\ Good(Taken(c, n, k), Given(h, n, k))
         /\ n # NULL => c[n] = FREE /\ n \notin DOMAIN h
         /\ \A i \in Clusters : c[i] # FREE => Taken(c, n, k)[i] = c[i]
         /\ \A i \in Clusters : Taken(c, n, k)[i] # c[i] => Taken(c, n, k)[i] = n
<1>1. CASE n = NULL
  BY <1>1 DEF Taken, Given
<1>2. CASE n # NULL
  <2> DEFINE d == Taken(c, n, k)
             g == Given(h, n, k)
  <2>0. n \in Clusters /\ k \in Int /\ n \in Int /\ n >= 0 /\ CLUSTER_COUNT \in Nat
    BY <1>2, MemoryAssumption DEF Clusters
  <2>1. k > 0 /\ n + k <= CLUSTER_COUNT /\ \A i \in n..(n + k - 1) : c[i] = FREE
    BY <1>2 DEF IsAlloc, Fits
  <2>2. /\ d \in [Clusters -> Clusters \cup {FREE, ABSENT}]
        /\ \A i \in Clusters : d[i] = IF i \in n..(n + k - 1) THEN n ELSE c[i]
    BY <1>2, <2>0 DEF Taken, Good, Typed
  <2>3. /\ DOMAIN g = DOMAIN h \cup {n} /\ g = [b \in DOMAIN g |-> g[b]]
        /\ g[n] = k /\ \A b \in DOMAIN h : b # n => g[b] = h[b]
    BY <1>2 DEF Given
  <2>4. n \in n..(n + k - 1) /\ c[n] = FREE
    BY <2>0, <2>1
  <2>5. n \notin DOMAIN h
    <3>1. n # FREE
      BY <2>0 DEF FREE
    <3> QED BY <3>1, <2>4, HeadOfBlock
  <2> HIDE DEF d, g
  <2>6. Typed(d, g)
    <3>1. k \in 1..CLUSTER_COUNT
      BY <2>0, <2>1
    <3> QED BY <3>1, <2>0, <2>2, <2>3, <2>5 DEF Good, Typed
  <2>7. Absent(d)
    <3>1. FREE # ABSENT /\ n # ABSENT
      BY <2>0 DEF FREE, ABSENT
    <3> QED BY <3>1, <2>1, <2>2 DEF Good, Absent
  <2>8. Whole(d, g)
    <3> SUFFICES ASSUME NEW b \in DOMAIN g, NEW i \in b..(b + g[b] - 1)
                 PROVE  i \in Clusters /\ d[i] = b
      BY DEF Whole
    <3>1. CASE b = n
      <4>1. i \in n..(n + k - 1)
        BY <3>1, <2>3
      <4>2. i \in Clusters
        BY <4>1, <2>0, <2>1 DEF Clusters
      <4> QED BY <4>1, <4>2, <3>1, <2>2
    <3>2. CASE b # n
      <4>1. b \in DOMAIN h /\ g[b] = h[b]
        BY <3>2, <2>3
      <4>2. i \in Clusters /\ c[i] = b
        BY <4>1 DEF Good, Whole
      <4>3. b # FREE
        BY <4>1, MemoryAssumption DEF Good, Typed, Clusters, FREE
      <4> QED BY <4>2, <4>3, <2>1, <2>2
    <3> QED BY <3>1, <3>2
  <2>9. NoLeak(d, g)
    BY <2>2, <2>3 DEF Good, NoLeak
  <2>10. Runs(d)
    <3> SUFFICES ASSUME NEW i \in Clusters, d[i] >= 0
                 PROVE  d[i] <= i /\ \A j \in d[i]..i : d[j] = d[i]
      BY DEF Runs
    <3>0. i \in Int
      BY MemoryAssumption DEF Clusters
    <3>1. CASE i \in n..(n + k - 1)
      <4>1. \A j \in n..i : j \in Clusters /\ j \in n..(n + k - 1)
        BY <3>1, <2>0, <2>1 DEF Clusters
      <4> QED BY <3>0, <3>1, <4>1, <2>2
    <3>2. CASE i \notin n..(n + k - 1)
      <4>1. d[i] = c[i]
        BY <3>2, <2>2
      <4>2. c[i] <= i /\ \A j \in c[i]..i : c[j] = c[i]
        BY <4>1 DEF Good, Runs
      <4>3. c[i] \in Int /\ c[i] >= 0 /\ c[i] # FREE
        BY <4>1 DEF Good, Typed, Clusters, FREE, ABSENT
      <4>4. \A j \in c[i]..i : j \in Clusters /\ j \notin n..(n + k - 1)
        BY <4>2, <4>3, <3>0, <2>1, MemoryAssumption DEF Clusters
      <4> QED BY <4>1, <4>2, <4>4, <2>2
    <3> QED BY <3>1, <3>2
  <2>11. Good(d, g)
    BY <2>6, <2>7, <2>8, <2>9, <2>10 DEF Good
  <2>12. \A i \in Clusters : /\ c[i] # FREE => d[i] = c[i]
                             /\ d[i] # c[i] => d[i] = n
    BY <2>1, <2>2
  <2> QED BY <2>4, <2>5, <2>11, <2>12 DEF d, g
<1> QED BY <1>1, <1>2

(* realloc, through the state with both blocks.                              *)
LEMMA ReallocGood ==
  ASSUME NEW c, NEW h, Good(c, h), NEW a \in DOMAIN h,
         NEW k \in 0..CLUSTER_COUNT, NEW r \in Clusters \cup {NULL}, NEW c2,
         IsRealloc(c, a, k, r, c2)
  PROVE  /\ Good(c2, Given(Without(h, a), r, k))
         /\ \A b \in DOMAIN h : b # a =>
              r # b /\ \A i \in Clusters : c[i] = b <=> c2[i] = b
         /\ r = a => c2 = c
<1>0. a \in Clusters /\ c[a] = a /\ a # NULL /\ a # FREE /\ a \in Int
  BY HeadOfBlock, MemoryAssumption DEF Clusters, NULL, FREE
<1>1. \A b \in DOMAIN h : b # FREE /\ b # NULL /\ b \in Clusters /\ c[b] = b
  BY HeadOfBlock, MemoryAssumption DEF Clusters, FREE, NULL
<1>2. CASE k = 0 /\ r = NULL /\ c2 = Unalloc(c, a)
  <2>1. /\ Good(c2, Without(h, a))
        /\ \A i \in Clusters : c2[i] = IF c[i] = a THEN FREE ELSE c[i]
    BY <1>0, <1>2, UnallocGood
  <2>2. Given(Without(h, a), r, k) = Without(h, a)
    BY <1>2 DEF Given
  <2> QED BY <1>0, <1>1, <1>2, <2>1, <2>2
<1>3. ASSUME NEW s \in 0..CLUSTER_COUNT, IsAllocSize(c, a, s), k > 0,
             k <= s, r = a, c2 = c
      PROVE  /\ Good(c2, Given(Without(h, a), r, k))
             /\ \A b \in DOMAIN h : b # a =>
                  r # b /\ \A i \in Clusters : c[i] = b <=> c2[i] = b
  <2> DEFINE g == Given(Without(h, a), r, k)
  <2>1. /\ DOMAIN g = DOMAIN h /\ g = [b \in DOMAIN g |-> g[b]]
        /\ g[a] = k /\ \A b \in DOMAIN h : b # a => g[b] = h[b]
    BY <1>0, <1>3 DEF Given, Without
  <2> HIDE DEF g
  <2>2. Typed(c, g)
    <3>1. k \in 1..CLUSTER_COUNT
      BY <1>3
    <3>2. \A b \in DOMAIN g : g[b] \in 1..CLUSTER_COUNT
      BY <3>1, <2>1 DEF Good, Typed
    <3> QED BY <3>2, <2>1 DEF Good, Typed
  <2>3. Whole(c, g)
    <3> SUFFICES ASSUME NEW b \in DOMAIN g, NEW i \in b..(b + g[b] - 1)
                 PROVE  i \in Clusters /\ c[i] = b
      BY DEF Whole
    <3>1. CASE b = a
      <4>1. i \in a..(a + s - 1)
        BY <3>1, <2>1, <1>0, <1>3
      <4>2. i \in Block(c, a)
        BY <4>1, <1>3 DEF IsAllocSize
      <4>3. i \in Clusters
        BY <4>2 DEF Block
      <4> QED BY <4>2, <4>3, <3>1, <1>0, BlockIsEveryCluster
    <3>2. CASE b # a
      BY <3>2, <2>1 DEF Good, Whole
    <3> QED BY <3>1, <3>2
  <2>4. NoLeak(c, g)
    BY <2>1 DEF Good, NoLeak
  <2>5. Good(c, g)
    BY <2>2, <2>3, <2>4 DEF Good
  <2> QED BY <2>5, <1>3 DEF g
<1>4. ASSUME k > 0, IsAlloc(c, k, r), c2 = Unalloc(Taken(c, r, k), a)
      PROVE  /\ Good(c2, Given(Without(h, a), r, k))
             /\ r # a
             /\ \A b \in DOMAIN h : b # a =>
                  r # b /\ \A i \in Clusters : c[i] = b <=> c2[i] = b
  <2> DEFINE d == Taken(c, r, k)
             g == Given(h, r, k)
  <2>1. /\ Good(d, g)
        /\ r # NULL => c[r] = FREE /\ r \notin DOMAIN h
        /\ \A i \in Clusters : c[i] # FREE => d[i] = c[i]
        /\ \A i \in Clusters : d[i] # c[i] => d[i] = r
    BY <1>4, AllocGood
  <2>2. /\ Good(c2, Without(g, a))
        /\ \A i \in Clusters : c2[i] = IF d[i] = a THEN FREE ELSE d[i]
    BY <2>1, <1>0, <1>4, UnallocGood
  <2>3. r # a
    BY <2>1, <1>0
  <2>4. Without(g, a) = Given(Without(h, a), r, k)
    <3>1. CASE r = NULL
      BY <3>1 DEF Given
    <3>2. CASE r # NULL
      <4>1. DOMAIN Without(g, a) = (DOMAIN h \ {a}) \cup {r}
        BY <3>2, <2>3 DEF Without, Given
      <4>2. DOMAIN Given(Without(h, a), r, k) = (DOMAIN h \ {a}) \cup {r}
        BY <3>2 DEF Without, Given
      <4>3. \A b \in (DOMAIN h \ {a}) \cup {r} :
              Without(g, a)[b] = Given(Without(h, a), r, k)[b]
        BY <3>2, <2>3 DEF Without, Given
      <4> QED BY <3>2, <4>1, <4>2, <4>3 DEF Without, Given
    <3> QED BY <3>1, <3>2
  <2> HIDE DEF d, g
  <2>5. ASSUME NEW b \in DOMAIN h, b # a
        PROVE  r # b /\ \A i \in Clusters : c[i] = b <=> c2[i] = b
    <3>1. r # b /\ b # FREE
      BY <2>1, <2>5, <1>1
    <3> QED BY <3>1, <2>1, <2>2, <2>5
  <2> QED BY <2>2, <2>3, <2>4, <2>5
<1>5. \/ k = 0 /\ r = NULL /\ c2 = Unalloc(c, a)
      \/ \E s \in 0..CLUSTER_COUNT :
           /\ k > 0 /\ IsAllocSize(c, a, s)
           /\ \/ k <= s /\ r = a /\ c2 = c
              \/ k > s /\ IsAlloc(c, k, r) /\ c2 = Unalloc(Taken(c, r, k), a)
  BY <1>0 DEF IsRealloc
<1>6. CASE \E s \in 0..CLUSTER_COUNT :
              k > 0 /\ IsAllocSize(c, a, s) /\ k <= s /\ r = a /\ c2 = c
  BY <1>6, <1>3
<1>7. CASE k > 0 /\ IsAlloc(c, k, r) /\ c2 = Unalloc(Taken(c, r, k), a)
  BY <1>7, <1>4
<1> QED BY <1>2, <1>5, <1>6, <1>7

MInv == Good(cluster, held)

(* The inductive step, and what it leaves of the other blocks.               *)
LEMMA MInvNext ==
  ASSUME MInv, MemoryNext
  PROVE  /\ MInv'
         /\ \A a \in DOMAIN held :
              (a \in DOMAIN held' /\ held'[a] = held[a])
                => \A i \in Clusters : cluster[i] = a <=> cluster'[i] = a
<1>0. Good(cluster, held)
  BY DEF MInv
<1>1. ASSUME NEW k \in 0..CLUSTER_COUNT, Alloc(k)
      PROVE  /\ Good(cluster', held')
             /\ \A a \in DOMAIN held : \A i \in Clusters :
                  cluster[i] = a <=> cluster'[i] = a
  <2>1. PICK n \in Clusters \cup {NULL} :
          /\ IsAlloc(cluster, k, n) /\ cluster' = Taken(cluster, n, k)
          /\ held' = Given(held, n, k)
    BY <1>1 DEF Alloc
  <2>2. /\ Good(cluster', held')
        /\ n # NULL => cluster[n] = FREE /\ n \notin DOMAIN held
        /\ \A i \in Clusters : cluster[i] # FREE => cluster'[i] = cluster[i]
        /\ \A i \in Clusters : cluster'[i] # cluster[i] => cluster'[i] = n
    BY <1>0, <2>1, AllocGood
  <2>3. \A a \in DOMAIN held : a # FREE /\ a # n
    BY <1>0, <2>2, HeadOfBlock, MemoryAssumption DEF Clusters, FREE, NULL
  <2> QED BY <2>2, <2>3
<1>2. ASSUME NEW a \in Clusters, Free(a)
      PROVE  /\ Good(cluster', held') /\ a \notin DOMAIN held'
             /\ \A b \in DOMAIN held : b # a => \A i \in Clusters :
                  cluster[i] = b <=> cluster'[i] = b
  <2>1. /\ Good(cluster', held')
        /\ \A i \in Clusters :
             cluster'[i] = IF cluster[i] = a THEN FREE ELSE cluster[i]
    BY <1>0, <1>2, UnallocGood DEF Free
  <2>2. \A b \in DOMAIN held : b # FREE
    BY <1>0, HeadOfBlock, MemoryAssumption DEF Clusters, FREE
  <2>3. a \notin DOMAIN held'
    BY <1>2 DEF Free, Without
  <2> QED BY <2>1, <2>2, <2>3
<1>3. ASSUME NEW a \in Clusters, NEW k \in 0..CLUSTER_COUNT, Realloc(a, k)
      PROVE  /\ Good(cluster', held')
             /\ \A b \in DOMAIN held :
                  (b # a \/ a \in DOMAIN held') => \A i \in Clusters :
                     cluster[i] = b <=> cluster'[i] = b
  <2>1. PICK r \in Clusters \cup {NULL} :
          /\ a \in DOMAIN held /\ IsRealloc(cluster, a, k, r, cluster')
          /\ held' = Given(Without(held, a), r, k)
    BY <1>3 DEF Realloc
  <2>2. /\ Good(cluster', held')
        /\ \A b \in DOMAIN held : b # a =>
             r # b /\ \A i \in Clusters : cluster[i] = b <=> cluster'[i] = b
        /\ r = a => cluster' = cluster
    BY <1>0, <2>1, ReallocGood
  <2>3. a \in DOMAIN held' => r = a
    BY <2>1 DEF Given, Without
  <2> QED BY <2>2, <2>3
<1>4. Good(cluster', held') => MInv'
  BY DEF MInv
<1> QED BY <1>1, <1>2, <1>3, <1>4 DEF MemoryNext

LEMMA MInvInit == MemoryInit => MInv
<1> SUFFICES ASSUME MemoryInit PROVE Good(cluster, held)
  BY DEF MInv
<1>1. /\ cluster \in [Clusters -> Clusters \cup {FREE, ABSENT}]
      /\ \A i \in Clusters : cluster[i] = IF i \in Present THEN FREE ELSE ABSENT
      /\ DOMAIN held = {} /\ held = [a \in DOMAIN held |-> held[a]]
  BY DEF MemoryInit
<1>2. FREE # ABSENT /\ ~ (FREE >= 0) /\ ~ (ABSENT >= 0)
  BY DEF FREE, ABSENT
<1> QED BY <1>1, <1>2 DEF Good, Typed, Absent, Whole, NoLeak, Runs

(* Every reachable table satisfies the inductive invariant.                  *)
THEOREM MemoryInvariance == MemorySpec => []MInv
<1>1. MInv /\ [MemoryNext]_memoryVars => MInv'
  <2>1. MInv /\ UNCHANGED memoryVars => MInv'
    BY DEF MInv, memoryVars
  <2> QED BY <2>1, MInvNext
<1> QED BY <1>1, MInvInit, PTL DEF MemorySpec

(* alloc and realloc: every block handed out covers the size asked for.      *)
THEOREM BlocksStayWhole == MemorySpec => []BlocksWhole
<1>1. MInv => BlocksWhole
  BY DEF MInv, Good, Whole, BlocksWhole
<1> QED BY <1>1, MemoryInvariance, PTL

(* unalloc and realloc: no cluster stays in use without a holder.            *)
THEOREM NoClusterLeaks == MemorySpec => []NothingLeaks
<1>1. MInv => NothingLeaks
  BY DEF MInv, Good, NoLeak, NothingLeaks
<1> QED BY <1>1, MemoryInvariance, PTL

(* unalloc finds all of a block by walking from its address.                 *)
THEOREM BlocksStayRuns == MemorySpec => []BlocksAreRuns
<1>1. MInv => BlocksAreRuns
  BY DEF MInv, Good, Runs, BlocksAreRuns
<1> QED BY <1>1, MemoryInvariance, PTL

(* cluster_init: clusters outside the memory map are never handed out.       *)
THEOREM AbsentNeverUsed == MemorySpec => []AbsentStays
<1>1. MInv => AbsentStays
  BY DEF MInv, Good, Absent, AbsentStays
<1> QED BY <1>1, MemoryInvariance, PTL

(* Every variable keeps its type.                                            *)
THEOREM MemoryTypeCorrect == MemorySpec => []MemoryTypeOK
<1>1. MInv => MemoryTypeOK
  BY DEF MInv, Good, Typed, MemoryTypeOK
<1> QED BY <1>1, MemoryInvariance, PTL

(* No operation on one block changes the clusters of another.                *)
THEOREM OtherBlocksUntouched == MemorySpec => OthersUntouched
<1> DEFINE Untouched ==
      \A a \in DOMAIN held :
        (a \in DOMAIN held' /\ held'[a] = held[a])
          => \A i \in Clusters : cluster[i] = a <=> cluster'[i] = a
<1>1. MInv /\ [MemoryNext]_memoryVars => [Untouched]_memoryVars
  BY MInvNext
<1> QED BY <1>1, MemoryInvariance, PTL DEF MemorySpec, OthersUntouched

-----------------------------------------------------------------------------
(* The loops over addresses and bytes (module MemoryLoops).                  *)
IsTable(c) == c \in [Clusters -> Clusters \cup {FREE, ABSENT}]

LEMMA Sized ==
  ASSUME NEW size \in Nat
  PROVE  /\ Pages(size) \in Nat /\ (size > 0 <=> Pages(size) > 0)
         /\ \A k \in Nat : k * CLUSTER_SIZE >= size <=> k >= Pages(size)
<1> DEFINE C == CLUSTER_SIZE
           x == size + C - 1
           q == x \div C
<1>0. C \in Nat /\ C > 0 /\ x \in Nat
  BY LoopsAssumption
<1> HIDE DEF x
<1>1. q \in Nat /\ q * C <= x /\ x < q * C + C
  BY <1>0
<1> HIDE DEF q, C
<1>2. ASSUME NEW k \in Nat PROVE k * C >= size <=> k >= q
  <2>1. ASSUME k >= q PROVE k * C >= size
    <3>1. k * C >= q * C /\ k * C \in Int /\ q * C \in Int
      BY <1>0, <1>1, <2>1
    <3> QED BY <1>0, <1>1, <3>1 DEF x
  <2>2. ASSUME k < q PROVE k * C < size
    <3>1. (k + 1) * C <= q * C /\ (k + 1) * C = k * C + C /\ k * C \in Int /\ q * C \in Int
      BY <1>0, <1>1, <2>2
    <3> QED BY <1>0, <1>1, <3>1 DEF x
  <2> QED BY <1>0, <1>1, <2>1, <2>2
<1>3. size > 0 <=> q > 0
  <2>1. 0 * C >= size <=> 0 >= q
    BY <1>2
  <2> QED BY <1>0, <1>1, <2>1
<1>4. Pages(size) = q
  BY DEF Pages, q, x, C
<1> QED BY <1>1, <1>2, <1>3, <1>4 DEF C

LEMMA AddressOf ==
  ASSUME NEW n \in Nat
  PROVE  /\ cluster_to_address(n) \in Nat /\ cluster_to_address(n) > 0
         /\ address_to_cluster(cluster_to_address(n)) = n
         /\ \A m \in Nat : cluster_to_address(m) = cluster_to_address(n) => m = n
<1> DEFINE C == CLUSTER_SIZE
           y == n * C
<1>0. C \in Nat /\ C > 0 /\ BASE \in Nat /\ BASE > 0
  BY LoopsAssumption
<1>1. y \in Nat /\ y \div C = n
  BY <1>0
<1> HIDE DEF y
<1>2. cluster_to_address(n) = BASE + y
  BY DEF cluster_to_address, y
<1>3. address_to_cluster(cluster_to_address(n)) = n
  BY <1>0, <1>1, <1>2 DEF address_to_cluster
<1>4. ASSUME NEW m \in Nat, cluster_to_address(m) = cluster_to_address(n) PROVE m = n
  <2>1. m * C = n * C /\ m * C \in Nat
    BY <1>0, <1>4 DEF cluster_to_address
  <2>2. (m * C) \div C = m /\ (n * C) \div C = n
    BY <1>0
  <2> QED BY <2>1, <2>2
<1> QED BY <1>0, <1>1, <1>2, <1>3, <1>4

LEMMA WordsOf ==
  ASSUME NEW c, IsTable(c), NEW i \in Clusters
  PROVE  /\ Words(c)[i] = 0 <=> c[i] = FREE
         /\ \A a \in Clusters : Words(c)[i] = cluster_to_address(a) <=> c[i] = a
         /\ Unwords(Words(c))[i] = c[i]
<1>0. Clusters \subseteq Nat /\ FREE = -1 /\ ABSENT = -2 /\ NOT_PRESENT = -1
  BY MemoryAssumption DEF Clusters, FREE, ABSENT, NOT_PRESENT
<1>1. Words(c)[i] = IF c[i] = FREE THEN 0
        ELSE IF c[i] = ABSENT THEN NOT_PRESENT ELSE cluster_to_address(c[i])
  BY DEF Words
<1>2. Unwords(Words(c))[i] = IF Words(c)[i] = 0 THEN FREE
        ELSE IF Words(c)[i] = NOT_PRESENT THEN ABSENT ELSE address_to_cluster(Words(c)[i])
  BY DEF Unwords
<1>3. CASE c[i] = FREE
  BY <1>0, <1>1, <1>2, <1>3, AddressOf
<1>4. CASE c[i] = ABSENT
  BY <1>0, <1>1, <1>2, <1>4, AddressOf
<1>5. CASE c[i] \in Clusters
  <2>0. c[i] \in Nat /\ c[i] # FREE /\ c[i] # ABSENT
    BY <1>5, MemoryAssumption DEF Clusters, FREE, ABSENT
  <2>1. c[i] \in Nat /\ Words(c)[i] = cluster_to_address(c[i])
    BY <1>1, <2>0
  <2>2. /\ cluster_to_address(c[i]) \in Nat /\ cluster_to_address(c[i]) > 0
        /\ address_to_cluster(cluster_to_address(c[i])) = c[i]
        /\ \A m \in Nat : cluster_to_address(m) = cluster_to_address(c[i]) => m = c[i]
    BY <2>1, AddressOf
  <2>3. Words(c)[i] # 0 /\ Words(c)[i] # NOT_PRESENT /\ c[i] # FREE
    BY <1>0, <2>1, <2>2
  <2> QED BY <1>0, <1>2, <2>1, <2>2, <2>3
<1> QED BY <1>3, <1>4, <1>5 DEF IsTable

LEMMA WordsBack ==
  ASSUME NEW c, IsTable(c)
  PROVE  Unwords(Words(c)) = c
<1>1. c = [i \in Clusters |-> c[i]]
  BY DEF IsTable
<1>2. Unwords(Words(c)) = [i \in Clusters |-> Unwords(Words(c))[i]]
  BY DEF Unwords
<1> QED BY <1>1, <1>2, WordsOf, Zenon

(* The search of alloc, turn by turn.                                        *)
Seen == [number : Nat, count : Nat, done : BOOLEAN]
Begun == [number |-> 0, count |-> 0, done |-> FALSE]
Starts(n, align) == cluster_to_address(n) % align = 0

LEMMA TurnTyped ==
  ASSUME NEW s \in Seen, NEW word, NEW i \in Nat, NEW size \in Nat, NEW may
  PROVE  Turn(s, word, i, size, may) \in Seen
BY LoopsAssumption DEF Turn, Seen

IsScan(K, t, size, align) ==
  /\ Scan(t, size, align) = K[CLUSTER_COUNT] /\ K[0] = Begun
  /\ \A n \in 1..CLUSTER_COUNT : K[n] = Turn(K[n - 1], t[n - 1], n - 1, size, Starts(n - 1, align))

LEMMA ScanTurns ==
  ASSUME NEW t, NEW size \in Nat, NEW align
  PROVE  \E K : IsScan(K, t, size, align)
<1> DEFINE N == CLUSTER_COUNT
           Then(x, n) == Turn(x, t[n - 1], n - 1, size, Starts(n - 1, align))
           Body(g) == [i \in 0..N |-> IF i = 0 THEN Begun ELSE Then(g[i - 1], i)]
           K == CHOOSE g : g = Body(g)
           F == [y \in Seen \X (1..N) |-> Then(y[1], y[2])]
<1>0. N \in Nat /\ Begun \in Seen
  BY MemoryAssumption DEF Begun, Seen
<1>1. \A x \in Seen, n \in 1..N : Then(x, n) \in Seen
  <2> TAKE x \in Seen, n \in 1..N
  <2>1. n - 1 \in Nat
    BY <1>0
  <2> QED BY <2>1, TurnTyped
<1>2. Scan(t, size, align) = K[N]
  BY DEF Scan, Begun, Starts
<1> HIDE DEF Then
<1>3. F \in Turns(Seen, N)
  BY <1>1 DEF Turns
<1>4. \A x \in Seen, n \in 1..N : F[<<x, n>>] = Then(x, n)
  OBVIOUS
<1> HIDE DEF F
<1>5. PICK g : IsLoop(g, Seen, Begun, N, F)
  BY <1>0, <1>3, LoopOfTurns
<1> HIDE DEF N
<1>6. \A n \in 1..N : g[n] = Then(g[n - 1], n)
  <2> TAKE n \in 1..N
  <2>1. n - 1 \in 0..N
    BY <1>0
  <2> QED BY <1>4, <1>5, <2>1 DEF IsLoop
<1>7. g = Body(g)
  <2>1. g = [n \in 0..N |-> g[n]] /\ g[0] = Begun
    BY <1>5 DEF IsLoop
  <2>2. \A n \in 0..N : n = 0 \/ n \in 1..N
    BY <1>0
  <2>3. \A n \in 0..N : g[n] = IF n = 0 THEN Begun ELSE Then(g[n - 1], n)
    BY <1>6, <2>1, <2>2
  <2> QED BY <2>1, <2>3
<1>8. K = Body(K)
  BY <1>7
<1> HIDE DEF K
<1>9. K[0] = Begun /\ \A n \in 1..N : K[n] = Then(K[n - 1], n)
  <2>1. 0 \in 0..N /\ \A n \in 1..N : n \in 0..N /\ n # 0
    BY <1>0
  <2>2. \A n \in 0..N : K[n] = IF n = 0 THEN Begun ELSE Then(K[n - 1], n)
    BY <1>8, Zenon
  <2> QED BY <2>1, <2>2
<1>10. IsScan(K, t, size, align)
  BY <1>2, <1>9 DEF IsScan, N, Then
<1> QED BY <1>10

(* A place for p clusters, where the alignment allows one to start.          *)
Place(c, p, align, m) == m \in Clusters /\ Starts(m, align) /\ Fits(c, m, p)

(* What the search knows after i clusters: it is done at the first place, or *)
(* it is in the longest run that ends here and no place ends before.         *)
Searched(c, p, align, i, s) ==
  /\ s \in Seen
  /\ s.done => /\ s.count = p /\ Place(c, p, align, s.number)
               /\ \A m \in 0..(s.number - 1) : ~ Place(c, p, align, m)
  /\ ~ s.done => /\ s.count < p /\ s.count <= i
                 /\ s.count > 0 => /\ s.number = i - s.count /\ Starts(s.number, align)
                                   /\ \A j \in s.number..(i - 1) : c[j] = FREE
                 /\ \A m \in Clusters : m + p <= i => ~ Place(c, p, align, m)
                 /\ \A m \in 0..(i - 1) :
                      Starts(m, align) /\ (\A j \in m..(i - 1) : c[j] = FREE)
                        => s.count > 0 /\ s.number <= m

LEMMA SearchTurn ==
  ASSUME NEW c, IsTable(c), NEW size \in Nat \ {0}, NEW align, NEW i \in Clusters,
         NEW s, Searched(c, Pages(size), align, i, s)
  PROVE  Searched(c, Pages(size), align, i + 1,
                  Turn(s, Words(c)[i], i, size, Starts(i, align)))
<1> DEFINE p == Pages(size)
           may == Starts(i, align)
           u == Turn(s, Words(c)[i], i, size, may)
           ready == (s.count + 1) * CLUSTER_SIZE >= size
<1>0. /\ i \in Nat /\ i < CLUSTER_COUNT /\ CLUSTER_COUNT \in Nat
      /\ Clusters = 0..(CLUSTER_COUNT - 1) /\ s \in Seen
  BY MemoryAssumption DEF Clusters, Searched
<1>1. p \in Nat /\ p > 0 /\ \A k \in Nat : k * CLUSTER_SIZE >= size <=> k >= p
  <2>1. size \in Nat /\ size > 0
    OBVIOUS
  <2> QED BY <2>1, Sized
<1>2. s.count \in Nat /\ s.number \in Nat /\ s.done \in BOOLEAN
  BY <1>0 DEF Seen
<1>3. ready <=> s.count + 1 >= p
  BY <1>1, <1>2
<1>4. Words(c)[i] = 0 <=> c[i] = FREE
  BY WordsOf
<1>5. u \in Seen
  BY <1>0, TurnTyped
<1> HIDE DEF p, may
<1>6. CASE s.done
  <2>1. u = s
    BY <1>6 DEF Turn
  <2> QED BY <1>6, <2>1 DEF Searched, p, may
<1>7. CASE ~ s.done /\ c[i] = FREE /\ (s.count > 0 \/ may)
  <2> DEFINE n == IF s.count = 0 THEN i ELSE s.number
  <2>1. u = [number |-> n, count |-> s.count + 1, done |-> ready]
    BY <1>4, <1>7 DEF Turn
  <2>2. u.number = n /\ u.count = s.count + 1 /\ (u.done <=> s.count + 1 >= p)
    <3>1. u.number = n /\ u.count = s.count + 1
      BY <2>1
    <3> HIDE DEF u, ready, n
    <3>2. u.done = ready
      BY <2>1, Zenon
    <3>3. u.done <=> ready
      BY <3>2, Zenon
    <3> QED BY <1>3, <3>1, <3>3, Zenon
  <2> HIDE DEF u, ready
  <2>3. /\ s.count < p /\ s.count <= i
        /\ s.count > 0 => s.number = i - s.count /\ Starts(s.number, align)
                          /\ \A j \in s.number..(i - 1) : c[j] = FREE
        /\ \A m \in Clusters : m + p <= i => ~ Place(c, p, align, m)
        /\ \A m \in 0..(i - 1) :
             Starts(m, align) /\ (\A j \in m..(i - 1) : c[j] = FREE)
               => s.count > 0 /\ s.number <= m
    BY <1>7 DEF Searched, p
  <2>4. /\ n \in Nat /\ n = (i + 1) - (s.count + 1) /\ n <= i /\ Starts(n, align)
        /\ \A j \in n..i : c[j] = FREE
    <3>1. CASE s.count = 0
      BY <1>0, <1>7, <3>1 DEF may
    <3>2. CASE s.count > 0
      <4>1. n = i - s.count /\ Starts(n, align) /\ \A j \in n..(i - 1) : c[j] = FREE
        BY <1>2, <2>3, <3>2
      <4>2. \A j \in n..i : j = i \/ j \in n..(i - 1)
        BY <1>0, <1>2, <2>3, <4>1
      <4>3. n \in Nat /\ n <= i /\ n = (i + 1) - (s.count + 1)
        BY <1>0, <1>2, <2>3, <4>1
      <4> HIDE DEF n
      <4> QED BY <1>7, <4>1, <4>2, <4>3
    <3> QED BY <1>2, <3>1, <3>2
  <2> HIDE DEF n
  <2>5. CASE u.done
    <3>1. s.count + 1 = p /\ n + p = i + 1
      <4>1. s.count < p /\ s.count + 1 >= p
        BY <2>2, <2>3, <2>5
      <4>2. n \in Nat /\ n = (i + 1) - (s.count + 1)
        BY <2>4
      <4>3. i \in Nat /\ p \in Nat /\ s.count \in Nat
        BY <1>0, <1>1, <1>2
      <4> QED BY <4>1, <4>2, <4>3
    <3>2. Place(c, p, align, n)
      <4>1. n \in Clusters /\ n + p <= CLUSTER_COUNT /\ n + p - 1 = i
        BY <1>0, <1>1, <2>4, <3>1
      <4> QED BY <2>4, <4>1 DEF Place, Fits
    <3>3. \A m \in 0..(n - 1) : ~ Place(c, p, align, m)
      <4> TAKE m \in 0..(n - 1)
      <4>1. m \in Clusters /\ m + p <= i
        BY <1>0, <1>1, <2>4, <3>1
      <4> QED BY <2>3, <4>1
    <3> QED BY <1>5, <2>2, <2>5, <3>1, <3>2, <3>3 DEF Searched, p, may, u
  <2>6. CASE ~ u.done
    <3>1. s.count + 1 < p /\ s.count + 1 <= i + 1 /\ s.count + 1 > 0
      BY <1>0, <1>1, <1>2, <2>2, <2>3, <2>6
    <3>2. \A j \in n..((i + 1) - 1) : c[j] = FREE
      BY <1>0, <2>4
    <3>3. ASSUME NEW m \in Clusters, m + p <= i + 1 PROVE ~ Place(c, p, align, m)
      <4>1. CASE m + p <= i
        BY <2>3, <4>1
      <4>2. CASE m + p = i + 1
        <5> SUFFICES ASSUME Place(c, p, align, m) PROVE FALSE
          OBVIOUS
        <5>1. m \in Nat /\ m + p - 1 = i /\ Starts(m, align) /\ \A j \in m..i : c[j] = FREE
          BY <1>0, <1>1, <4>2 DEF Place, Fits
        <5>2. m <= i - 1
          BY <1>0, <1>1, <1>2, <3>1, <4>2, <5>1
        <5>3. m \in 0..(i - 1) /\ \A j \in m..(i - 1) : j \in m..i
          BY <1>0, <5>1, <5>2
        <5>4. s.count > 0 /\ s.number <= m
          BY <2>3, <5>1, <5>3
        <5> QED BY <1>0, <1>1, <1>2, <2>3, <3>1, <4>2, <5>4
      <4> QED BY <1>0, <1>1, <3>3, <4>1, <4>2
    <3>4. ASSUME NEW m \in 0..((i + 1) - 1), Starts(m, align),
                 \A j \in m..((i + 1) - 1) : c[j] = FREE
          PROVE  n <= m
      <4>1. CASE m = i
        BY <2>4, <4>1
      <4>2. CASE m < i
        <5>1. m \in 0..(i - 1) /\ \A j \in m..(i - 1) : j \in m..((i + 1) - 1)
          BY <1>0, <4>2
        <5>2. s.count > 0 /\ s.number <= m
          BY <2>3, <3>4, <5>1
        <5> QED BY <1>2, <5>2 DEF n
      <4> QED BY <1>0, <4>1, <4>2
    <3> QED BY <1>5, <2>2, <2>4, <2>6, <3>1, <3>2, <3>3, <3>4 DEF Searched, p, may, u
  <2> QED BY <2>5, <2>6
<1>8. CASE ~ s.done /\ ~ (c[i] = FREE /\ (s.count > 0 \/ may))
  <2>1. u = [s EXCEPT !.count = 0]
    BY <1>4, <1>8 DEF Turn
  <2>2. u.count = 0 /\ ~ u.done
    BY <1>0, <1>8, <2>1 DEF Seen
  <2> HIDE DEF u
  <2>3. /\ \A m \in Clusters : m + p <= i => ~ Place(c, p, align, m)
        /\ \A m \in 0..(i - 1) :
             Starts(m, align) /\ (\A j \in m..(i - 1) : c[j] = FREE)
               => s.count > 0 /\ s.number <= m
    BY <1>8 DEF Searched, p
  <2>4. ASSUME NEW m \in 0..i, Starts(m, align), \A j \in m..i : c[j] = FREE PROVE FALSE
    <3>1. c[i] = FREE
      BY <1>0, <2>4
    <3>2. s.count = 0 /\ ~ may
      BY <1>2, <1>8, <3>1
    <3>3. m # i
      BY <2>4, <3>2 DEF may
    <3>4. m \in 0..(i - 1) /\ \A j \in m..(i - 1) : j \in m..i
      BY <1>0, <3>3
    <3> QED BY <1>2, <2>3, <2>4, <3>2, <3>4
  <2>5. ASSUME NEW m \in Clusters, m + p <= i + 1 PROVE ~ Place(c, p, align, m)
    <3>1. CASE m + p <= i
      BY <2>3, <3>1
    <3>2. CASE m + p = i + 1
      <4> SUFFICES ASSUME Place(c, p, align, m) PROVE FALSE
        OBVIOUS
      <4>1. m \in 0..i /\ m + p - 1 = i
        BY <1>0, <1>1, <3>2
      <4>2. Starts(m, align) /\ \A j \in m..i : c[j] = FREE
        BY <4>1 DEF Place, Fits
      <4> QED BY <2>4, <4>1, <4>2
    <3> QED BY <1>0, <1>1, <2>5, <3>1, <3>2
  <2>6. (i + 1) - 1 = i /\ 0 <= i + 1 /\ 0 < p
    BY <1>0, <1>1
  <2> QED BY <1>5, <2>2, <2>4, <2>5, <2>6 DEF Searched, p, may, u
<1> QED BY <1>2, <1>6, <1>7, <1>8

LEMMA ScanRight ==
  ASSUME NEW c, IsTable(c), NEW size \in Nat \ {0}, NEW align
  PROVE  Searched(c, Pages(size), align, CLUSTER_COUNT, Scan(Words(c), size, align))
<1> DEFINE N == CLUSTER_COUNT
           p == Pages(size)
           t == Words(c)
           Right(n, x) == Searched(c, p, align, n, x)
<1>0. N \in Nat /\ Clusters = 0..(N - 1) /\ p \in Nat /\ p > 0
  <2>1. size \in Nat /\ size > 0
    OBVIOUS
  <2> QED BY <2>1, MemoryAssumption, Sized DEF Clusters
<1>1. PICK K : /\ Scan(t, size, align) = K[N] /\ K[0] = Begun
               /\ \A n \in 1..N : K[n] = Turn(K[n - 1], t[n - 1], n - 1, size, Starts(n - 1, align))
  <2>1. size \in Nat
    OBVIOUS
  <2>2. PICK g : IsScan(g, t, size, align)
    <3> HIDE DEF t
    <3> QED BY <2>1, ScanTurns, Zenon
  <2> QED BY <2>2 DEF IsScan
<1> DEFINE S == {n \in Nat : n <= N => Right(n, K[n])}
<1>2. 0 \in S
  <2>1. Begun \in Seen /\ Begun.count = 0 /\ Begun.done = FALSE
    BY DEF Begun, Seen
  <2>2. \A m \in Clusters : ~ (m + p <= 0)
    BY <1>0
  <2>3. Searched(c, p, align, 0, Begun)
    <3> HIDE DEF p
    <3> QED BY <1>0, <2>1, <2>2 DEF Searched
  <2> QED BY <1>1, <2>3
<1>3. ASSUME NEW n \in Nat, n \in S PROVE n + 1 \in S
  <2> SUFFICES ASSUME n + 1 <= N PROVE Right(n + 1, K[n + 1])
    OBVIOUS
  <2>1. n + 1 \in 1..N /\ (n + 1) - 1 = n /\ n <= N /\ n \in Clusters
    BY <1>0
  <2>2. Right(n, K[n])
    BY <1>3, <2>1
  <2>3. K[n + 1] = Turn(K[n], t[n], n, size, Starts(n, align))
    BY <1>1, <2>1
  <2> QED BY <2>1, <2>2, <2>3, SearchTurn
<1> HIDE DEF S
<1>4. Nat \subseteq S
  BY <1>2, <1>3, SetInduction
<1>5. N \in S /\ N <= N
  BY <1>0, <1>4
<1>6. Right(N, K[N])
  BY <1>5 DEF S
<1> QED BY <1>1, <1>6

(* alloc_aligned takes the first place, or changes nothing.                  *)
LEMMA AlignedRight ==
  ASSUME NEW c, IsTable(c), NEW size \in Nat \ {0}, NEW align
  PROVE  LET a == alloc_aligned(Words(c), size, align)
             p == Pages(size)
         IN  \/ /\ \A m \in Clusters : ~ Place(c, p, align, m)
                /\ a.ret = 0 /\ a.table = Words(c)
             \/ \E n \in Clusters :
                  /\ Place(c, p, align, n) /\ \A m \in 0..(n - 1) : ~ Place(c, p, align, m)
                  /\ a.ret = cluster_to_address(n) /\ a.table = Words(Taken(c, n, p))
<1> DEFINE p == Pages(size)
           s == Scan(Words(c), size, align)
           a == alloc_aligned(Words(c), size, align)
<1>0. /\ CLUSTER_COUNT \in Nat /\ Clusters = 0..(CLUSTER_COUNT - 1)
      /\ p \in Nat /\ p > 0 /\ size > 0 /\ size \in Nat
      /\ \A k \in Nat : k * CLUSTER_SIZE >= size <=> k >= p
  <2>1. size \in Nat /\ size > 0
    OBVIOUS
  <2> QED BY <2>1, MemoryAssumption, Sized DEF Clusters
<1>1. Searched(c, p, align, CLUSTER_COUNT, s)
  BY ScanRight
<1>2. a = IF size > 0 /\ s.count * CLUSTER_SIZE >= size
          THEN [ret |-> cluster_to_address(s.number),
                table |-> [i \in Clusters |->
                             IF i \in s.number..(s.number + s.count - 1)
                             THEN cluster_to_address(s.number) ELSE Words(c)[i]]]
          ELSE [ret |-> 0, table |-> Words(c)]
  BY DEF alloc_aligned
<1> HIDE DEF s, a, p
<1>3. s.count \in Nat /\ s.number \in Nat /\ s.done \in BOOLEAN
  BY <1>1 DEF Searched, Seen
<1>4. CASE ~ s.done
  <2>1. s.count < p /\ \A m \in Clusters : m + p <= CLUSTER_COUNT => ~ Place(c, p, align, m)
    BY <1>1, <1>4 DEF Searched
  <2>2. \A m \in Clusters : ~ Place(c, p, align, m)
    BY <2>1 DEF Place, Fits
  <2>3. ~ (s.count * CLUSTER_SIZE >= size)
    BY <1>0, <1>3, <2>1
  <2>4. a = [ret |-> 0, table |-> Words(c)]
    BY <1>2, <2>3
  <2>5. a.ret = 0 /\ a.table = Words(c)
    BY <2>4
  <2> QED BY <2>2, <2>5 DEF a, p
<1>5. CASE s.done
  <2> DEFINE n == s.number
  <2>1. /\ s.count = p /\ Place(c, p, align, n) /\ \A m \in 0..(n - 1) : ~ Place(c, p, align, m)
    BY <1>1, <1>5 DEF Searched
  <2>2. s.count * CLUSTER_SIZE >= size /\ n \in Clusters
    BY <1>0, <1>3, <2>1 DEF Place
  <2>3. a = [ret |-> cluster_to_address(n),
             table |-> [i \in Clusters |->
                          IF i \in n..(n + p - 1) THEN cluster_to_address(n) ELSE Words(c)[i]]]
    BY <1>0, <1>2, <2>1, <2>2
  <2> HIDE DEF n
  <2>4. n # NULL /\ n # FREE /\ n # ABSENT
    BY <1>0, <2>2 DEF NULL, FREE, ABSENT
  <2> DEFINE d == Taken(c, n, p)
  <2>5. d = [i \in Clusters |-> IF i \in n..(n + p - 1) THEN n ELSE c[i]]
    BY <2>4 DEF Taken
  <2>6. \A i \in Clusters : Words(d)[i] =
          IF i \in n..(n + p - 1) THEN cluster_to_address(n) ELSE Words(c)[i]
    <3> TAKE i \in Clusters
    <3>1. d[i] = IF i \in n..(n + p - 1) THEN n ELSE c[i]
      BY <2>5
    <3> HIDE DEF d
    <3> QED BY <2>4, <3>1 DEF Words
  <2>7. Words(d) = [i \in Clusters |-> Words(d)[i]]
    BY DEF Words
  <2> HIDE DEF d
  <2>8. a.ret = cluster_to_address(n) /\ a.table = Words(d)
    <3>1. Words(d) = [i \in Clusters |->
                        IF i \in n..(n + p - 1) THEN cluster_to_address(n) ELSE Words(c)[i]]
      BY <2>6, <2>7, Zenon
    <3> QED BY <2>3, <3>1
  <2> QED BY <2>1, <2>2, <2>8 DEF a, p, d
<1> QED BY <1>3, <1>4, <1>5

LEMMA AlwaysStarts ==
  ASSUME NEW n \in Clusters
  PROVE  Starts(n, 1)
<1>1. n \in Nat
  BY MemoryAssumption DEF Clusters
<1>2. cluster_to_address(n) \in Nat
  BY <1>1, AddressOf
<1> QED BY <1>2 DEF Starts

(* alloc: IsAlloc of Memory.                                                 *)
LEMMA AllocRight ==
  ASSUME NEW c, IsTable(c), NEW size \in Nat
  PROVE  \E n \in Clusters \cup {NULL} :
           /\ IsAlloc(c, Pages(size), n)
           /\ alloc(Words(c), size).ret = Address(n)
           /\ alloc(Words(c), size).table = Words(Taken(c, n, Pages(size)))
<1> DEFINE a == alloc(Words(c), size)
           p == Pages(size)
<1>0. p \in Nat /\ (size > 0 <=> p > 0) /\ Clusters \subseteq Nat /\ NULL = -1
  BY Sized, MemoryAssumption DEF Clusters, NULL
<1>1. CASE size = 0
  <2>1. a.ret = 0 /\ a.table = Words(c)
    BY <1>1 DEF alloc, alloc_aligned
  <2>2. IsAlloc(c, p, NULL) /\ Address(NULL) = 0 /\ Taken(c, NULL, p) = c
    BY <1>0, <1>1 DEF IsAlloc, Address, Taken
  <2> HIDE DEF a, p
  <2> QED BY <2>1, <2>2 DEF a, p
<1>2. CASE size # 0
  <2>1. size \in Nat \ {0} /\ a = alloc_aligned(Words(c), size, 1) /\ p > 0
    BY <1>0, <1>2 DEF alloc
  <2>2. \/ /\ \A m \in Clusters : ~ Place(c, p, 1, m)
           /\ a.ret = 0 /\ a.table = Words(c)
        \/ \E n \in Clusters :
             /\ Place(c, p, 1, n) /\ \A m \in 0..(n - 1) : ~ Place(c, p, 1, m)
             /\ a.ret = cluster_to_address(n) /\ a.table = Words(Taken(c, n, p))
    BY <2>1, AlignedRight
  <2> HIDE DEF a, p
  <2>3. \A m \in Clusters : Place(c, p, 1, m) <=> Fits(c, m, p)
    BY AlwaysStarts DEF Place
  <2>4. CASE \A m \in Clusters : ~ Place(c, p, 1, m)
    <3>1. a.ret = 0 /\ a.table = Words(c)
      BY <2>2, <2>4 DEF Place
    <3>2. IsAlloc(c, p, NULL) /\ Address(NULL) = 0 /\ Taken(c, NULL, p) = c
      BY <2>3, <2>4 DEF IsAlloc, Address, Taken
    <3> QED BY <3>1, <3>2 DEF a, p
  <2>5. ASSUME NEW n \in Clusters, Place(c, p, 1, n), \A m \in 0..(n - 1) : ~ Place(c, p, 1, m),
               a.ret = cluster_to_address(n), a.table = Words(Taken(c, n, p))
        PROVE  \E x \in Clusters \cup {NULL} :
                 IsAlloc(c, p, x) /\ a.ret = Address(x) /\ a.table = Words(Taken(c, x, p))
    <3>1. n # NULL /\ Address(n) = cluster_to_address(n)
      BY <1>0 DEF Address
    <3>2. \A m \in 0..(n - 1) : m \in Clusters
      BY <1>0, MemoryAssumption DEF Clusters
    <3>3. IsAlloc(c, p, n)
      BY <2>1, <2>3, <2>5, <3>2 DEF IsAlloc
    <3> QED BY <2>5, <3>1, <3>3
  <2> QED BY <2>2, <2>4, <2>5 DEF a, p
<1> QED BY <1>1, <1>2


(* The turns of the loops of alloc_size and unalloc, counted from the end.   *)
LEMMA MatchTurns ==
  ASSUME NEW t, NEW ptr, ptr # 0
  PROVE  \E T : /\ Matching(t, ptr) = T[address_to_cluster(ptr)]
                /\ \A i \in 0..CLUSTER_COUNT :
                     T[i] = IF i < CLUSTER_COUNT /\ t[i] = ptr THEN 1 + T[i + 1] ELSE 0
<1> DEFINE N == CLUSTER_COUNT
           Body(g) == [i \in 0..N |-> IF i < N /\ t[i] = ptr THEN 1 + g[i + 1] ELSE 0]
           T == CHOOSE g : g = Body(g)
           F == [y \in Nat \X (1..N) |-> IF t[N - y[2]] = ptr THEN 1 + y[1] ELSE 0]
<1>0. N \in Nat
  BY MemoryAssumption
<1>1. Matching(t, ptr) = T[address_to_cluster(ptr)]
  BY DEF Matching
<1>2. F \in Turns(Nat, N)
  BY DEF Turns
<1>3. \A x \in Nat, n \in 1..N : F[<<x, n>>] = IF t[N - n] = ptr THEN 1 + x ELSE 0
  OBVIOUS
<1> HIDE DEF F
<1>4. PICK h : IsLoop(h, Nat, 0, N, F)
  BY <1>0, <1>2, LoopOfTurns
<1> HIDE DEF N
<1> DEFINE g == [i \in 0..N |-> h[N - i]]
<1>5. ASSUME NEW i \in 0..N
      PROVE  g[i] = IF i < N /\ t[i] = ptr THEN 1 + g[i + 1] ELSE 0
  <2>1. CASE i = N
    <3>1. N - i = 0
      BY <1>0, <2>1
    <3> QED BY <1>0, <1>4, <2>1, <3>1 DEF IsLoop
  <2>2. CASE i < N
    <3>1. N - i \in 1..N /\ (N - i) - 1 = N - (i + 1) /\ (N - i) - 1 \in 0..N /\ i + 1 \in 0..N
          /\ N - (N - i) = i
      BY <1>0, <2>2
    <3>2. h[N - i] = F[<<h[(N - i) - 1], N - i>>] /\ h[(N - i) - 1] \in Nat
      BY <1>4, <3>1 DEF IsLoop
    <3>3. h[N - i] = IF t[i] = ptr THEN 1 + h[(N - i) - 1] ELSE 0
      BY <1>3, <3>1, <3>2
    <3> QED BY <2>2, <3>1, <3>3
  <2> QED BY <1>0, <2>1, <2>2
<1>6. g = [i \in 0..N |-> g[i]]
  OBVIOUS
<1> HIDE DEF g
<1>7. g = Body(g)
  BY <1>5, <1>6
<1>8. T = Body(T)
  BY <1>7
<1> HIDE DEF T
<1>9. \A i \in 0..N : T[i] = IF i < N /\ t[i] = ptr THEN 1 + T[i + 1] ELSE 0
  BY <1>8, Zenon
<1> QED BY <1>1, <1>9 DEF N

(* They stop at the first entry that is not the address.                     *)
LEMMA MatchingIs ==
  ASSUME NEW c, IsTable(c), NEW a \in Clusters
  PROVE  IsAllocSize(c, a, Matching(Words(c), cluster_to_address(a)))
<1> DEFINE N == CLUSTER_COUNT
           t == Words(c)
           ptr == cluster_to_address(a)
           k == Matching(t, ptr)
<1>0. N \in Nat /\ Clusters = 0..(N - 1) /\ a \in Nat /\ a < N
  BY MemoryAssumption DEF Clusters
<1>1. ptr # 0 /\ address_to_cluster(ptr) = a
  BY <1>0, AddressOf
<1>2. \A i \in Clusters : t[i] = ptr <=> c[i] = a
  BY WordsOf
<1> HIDE DEF ptr, t
<1>3. PICK T : /\ k = T[a]
               /\ \A i \in 0..N : T[i] = IF i < N /\ t[i] = ptr THEN 1 + T[i + 1] ELSE 0
  BY <1>1, MatchTurns
<1> HIDE DEF k, N
<1> DEFINE Stops(i) == /\ T[i] \in Nat /\ T[i] <= N - i
                       /\ \A j \in i..(i + T[i] - 1) : c[j] = a
                       /\ i + T[i] < N => c[i + T[i]] # a
           S == {n \in Nat : n <= N => Stops(N - n)}
<1>4. 0 \in S
  <2>1. N \in 0..N /\ N - 0 = N /\ ~ (N < N)
    BY <1>0
  <2>2. T[N] = 0
    BY <1>3, <2>1
  <2>3. Stops(N)
    BY <1>0, <2>2
  <2> QED BY <2>1, <2>3
<1>5. ASSUME NEW n \in Nat, n \in S PROVE n + 1 \in S
  <2> SUFFICES ASSUME n + 1 <= N PROVE Stops(N - (n + 1))
    OBVIOUS
  <2> DEFINE i == N - (n + 1)
  <2>1. i \in 0..N /\ i < N /\ i \in Clusters /\ i + 1 = N - n /\ n <= N /\ i \in Nat
    BY <1>0
  <2> SUFFICES Stops(i)
    OBVIOUS
  <2> HIDE DEF i
  <2>2. Stops(i + 1)
    BY <1>5, <2>1
  <2>3. T[i] = IF c[i] = a THEN 1 + T[i + 1] ELSE 0
    BY <1>2, <1>3, <2>1
  <2>4. CASE c[i] # a
    BY <1>0, <2>1, <2>3, <2>4
  <2>5. CASE c[i] = a
    <3>1. T[i] = 1 + T[i + 1] /\ T[i + 1] \in Nat /\ T[i + 1] <= N - (i + 1)
      BY <2>2, <2>3, <2>5
    <3>2. T[i] \in Nat /\ T[i] <= N - i /\ i + T[i] = (i + 1) + T[i + 1]
      BY <1>0, <2>1, <3>1
    <3>3. ASSUME NEW j \in i..(i + T[i] - 1) PROVE c[j] = a
      <4>1. j = i \/ j \in (i + 1)..((i + 1) + T[i + 1] - 1)
        BY <2>1, <3>1, <3>2
      <4> QED BY <2>2, <2>5, <4>1
    <3> QED BY <2>2, <3>2, <3>3
  <2> QED BY <2>4, <2>5
<1> HIDE DEF S
<1>6. Nat \subseteq S
  BY <1>4, <1>5, SetInduction
<1>7. N - a \in S /\ N - a <= N /\ N - (N - a) = a
  BY <1>0, <1>6
<1>8. Stops(a)
  BY <1>7 DEF S
<1>9. k \in 0..N /\ a + k <= N
  BY <1>0, <1>3, <1>8
<1>10. ASSUME NEW i, i \in Block(c, a) PROVE i \in a..(a + k - 1)
  <2>1. i \in Clusters /\ i \in Nat /\ a <= i /\ \A j \in a..i : c[j] = a
    BY <1>0, <1>10 DEF Block
  <2>2. CASE i >= a + k
    <3>1. a + k \in a..i /\ a + k < N
      BY <1>0, <1>9, <2>1, <2>2
    <3>2. c[a + k] = a
      BY <2>1, <3>1
    <3> QED BY <1>3, <1>8, <3>1, <3>2
  <2> QED BY <1>0, <1>9, <2>1, <2>2
<1>11. ASSUME NEW i \in a..(a + k - 1) PROVE i \in Block(c, a)
  <2>1. i \in Clusters /\ a <= i
    BY <1>0, <1>9
  <2>2. ASSUME NEW j \in a..i PROVE c[j] = a
    <3>1. j \in a..(a + k - 1)
      BY <1>0, <1>9
    <3> QED BY <1>3, <1>8, <3>1
  <2> QED BY <2>1, <2>2 DEF Block
<1>12. Block(c, a) = a..(a + k - 1)
  BY <1>10, <1>11
<1> QED BY <1>9, <1>12 DEF IsAllocSize, k, t, ptr, N

LEMMA TablesStay ==
  ASSUME NEW c, IsTable(c)
  PROVE  /\ \A a \in Clusters : IsTable(Unalloc(c, a))
         /\ \A n \in Clusters \cup {NULL}, k \in Nat : IsTable(Taken(c, n, k))
BY DEF IsTable, Unalloc, Taken

LEMMA UnallocRight ==
  ASSUME NEW c, IsTable(c), NEW a \in Clusters
  PROVE  unalloc(Words(c), cluster_to_address(a)) = Words(Unalloc(c, a))
<1> DEFINE t == Words(c)
           ptr == cluster_to_address(a)
           k == Matching(t, ptr)
           d == Unalloc(c, a)
<1>0. a \in Nat /\ a # NULL
  BY MemoryAssumption DEF Clusters, NULL
<1>1. address_to_cluster(ptr) = a
  BY <1>0, AddressOf
<1>2. Block(c, a) = a..(a + k - 1)
  BY MatchingIs DEF IsAllocSize
<1> HIDE DEF ptr, k
<1>3. unalloc(t, ptr) = [i \in Clusters |-> IF i \in Block(c, a) THEN 0 ELSE t[i]]
  BY <1>1, <1>2 DEF unalloc, k
<1>4. \A i \in Clusters : d[i] = IF i \in Block(c, a) THEN FREE ELSE c[i]
  BY <1>0 DEF Unalloc
<1> HIDE DEF d
<1>5. \A i \in Clusters : Words(d)[i] = IF i \in Block(c, a) THEN 0 ELSE t[i]
  BY <1>4 DEF Words
<1>6. Words(d) = [i \in Clusters |-> Words(d)[i]]
  BY DEF Words
<1> HIDE DEF t
<1>7. Words(d) = [i \in Clusters |-> IF i \in Block(c, a) THEN 0 ELSE t[i]]
  BY <1>5, <1>6, Zenon
<1> QED BY <1>3, <1>7 DEF t, ptr, d


(* realloc: IsRealloc of Memory.                                             *)
LEMMA ReallocRight ==
  ASSUME NEW c, IsTable(c), NEW a \in Clusters, NEW size \in Nat
  PROVE  \E n \in Clusters \cup {NULL} :
           /\ IsRealloc(c, a, Pages(size), n,
                        Unwords(realloc(Words(c), cluster_to_address(a), size).table))
           /\ realloc(Words(c), cluster_to_address(a), size).ret = Address(n)
<1> DEFINE t == Words(c)
           ptr == cluster_to_address(a)
           p == Pages(size)
           k == Matching(t, ptr)
           r == realloc(t, ptr, size)
<1>0. a \in Nat /\ a # NULL /\ ptr \in Nat /\ ptr > 0
  BY MemoryAssumption, AddressOf DEF Clusters, NULL
<1>1. p \in Nat /\ (size > 0 <=> p > 0) /\ \A j \in Nat : j * CLUSTER_SIZE >= size <=> j >= p
  BY Sized
<1>2. IsAllocSize(c, a, k) /\ k \in 0..CLUSTER_COUNT /\ k \in Nat
  BY MatchingIs, MemoryAssumption DEF IsAllocSize
<1>3. alloc_size(t, ptr) = k * CLUSTER_SIZE /\ k * CLUSTER_SIZE \in Nat
  BY <1>2, LoopsAssumption DEF alloc_size
<1>4. size <= alloc_size(t, ptr) <=> p <= k
  BY <1>1, <1>2, <1>3
<1>5. IsTable(Unalloc(c, a))
  BY TablesStay
<1>6. CASE size = 0
  <2>1. r = [ret |-> 0, table |-> unalloc(t, ptr)]
    BY <1>6 DEF realloc
  <2>2. r.ret = 0 /\ r.table = Words(Unalloc(c, a))
    BY <2>1, UnallocRight
  <2>3. Unwords(r.table) = Unalloc(c, a)
    BY <1>5, <2>2, WordsBack
  <2>4. p = 0
    BY <1>1, <1>6
  <2> HIDE DEF r, p
  <2>5. IsRealloc(c, a, p, NULL, Unwords(r.table)) /\ r.ret = Address(NULL)
    BY <2>2, <2>3, <2>4 DEF IsRealloc, Address
  <2> QED BY <2>5 DEF r, p, t, ptr
<1>7. CASE size > 0 /\ size <= alloc_size(t, ptr)
  <2>1. r = [ret |-> ptr, table |-> t]
    BY <1>7 DEF realloc
  <2>2. r.ret = ptr /\ r.table = t
    BY <2>1
  <2>3. Unwords(r.table) = c
    BY <2>2, WordsBack
  <2>4. Address(a) = ptr
    BY <1>0 DEF Address
  <2>5. p > 0 /\ p <= k
    BY <1>1, <1>4, <1>7
  <2> HIDE DEF r, p, k
  <2>6. IsRealloc(c, a, p, a, Unwords(r.table)) /\ r.ret = Address(a)
    BY <1>0, <1>2, <2>2, <2>3, <2>4, <2>5 DEF IsRealloc
  <2> QED BY <2>6 DEF r, p, t, ptr
<1>8. CASE size > 0 /\ ~ (size <= alloc_size(t, ptr))
  <2>1. PICK n \in Clusters \cup {NULL} :
          /\ IsAlloc(c, p, n)
          /\ alloc(t, size).ret = Address(n)
          /\ alloc(t, size).table = Words(Taken(c, n, p))
    BY AllocRight
  <2> DEFINE b == Taken(c, n, p)
  <2>2. r = [ret |-> alloc(t, size).ret, table |-> unalloc(alloc(t, size).table, ptr)]
    BY <1>0, <1>8 DEF realloc
  <2>3. r.ret = Address(n) /\ r.table = unalloc(Words(b), ptr)
    BY <2>1, <2>2
  <2>4. IsTable(b) /\ IsTable(Unalloc(b, a))
    <3>1. IsTable(b)
      BY <1>1, TablesStay
    <3> HIDE DEF b
    <3> QED BY <3>1, TablesStay
  <2> HIDE DEF b, r
  <2>5. r.table = Words(Unalloc(b, a))
    BY <2>3, <2>4, UnallocRight
  <2>6. Unwords(r.table) = Unalloc(b, a)
    BY <2>4, <2>5, WordsBack
  <2>7. p > 0 /\ p > k
    BY <1>1, <1>2, <1>4, <1>8
  <2> HIDE DEF p, k
  <2>8. IsRealloc(c, a, p, n, Unwords(r.table))
    BY <1>0, <1>2, <2>1, <2>6, <2>7 DEF IsRealloc, b
  <2> QED BY <2>3, <2>8 DEF r, p, t, ptr
<1> QED BY <1>6, <1>7, <1>8

(* What the loops compute, for any table and any size.                       *)
LEMMA LoopsRightHere ==
  ASSUME IsTable(cluster)
  PROVE  LoopsAsSpecified
<1>0. Sizes \subseteq Nat
  BY DEF Sizes
<1>1. AllocIsFirstFit
  BY <1>0, AllocRight DEF AllocIsFirstFit
<1>2. AlignedIsFirstAligned
  <2> SUFFICES ASSUME NEW size \in Sizes \ {0}
               PROVE  LET a == alloc_aligned(Words(cluster), size, Align)
                          places == {n \in Clusters : /\ cluster_to_address(n) % Align = 0
                                                      /\ Fits(cluster, n, Pages(size))}
                      IN  IF places = {} THEN a.ret = 0 /\ a.table = Words(cluster)
                          ELSE \E n \in places :
                                 /\ \A m \in places : n <= m
                                 /\ a.ret = cluster_to_address(n)
                                 /\ a.table = Words(Taken(cluster, n, Pages(size)))
    BY DEF AlignedIsFirstAligned
  <2> DEFINE a == alloc_aligned(Words(cluster), size, Align)
             p == Pages(size)
             places == {n \in Clusters : /\ cluster_to_address(n) % Align = 0
                                         /\ Fits(cluster, n, p)}
  <2>1. size \in Nat \ {0}
    BY <1>0
  <2>2. \/ /\ \A m \in Clusters : ~ Place(cluster, p, Align, m)
           /\ a.ret = 0 /\ a.table = Words(cluster)
        \/ \E n \in Clusters :
             /\ Place(cluster, p, Align, n) /\ \A m \in 0..(n - 1) : ~ Place(cluster, p, Align, m)
             /\ a.ret = cluster_to_address(n) /\ a.table = Words(Taken(cluster, n, p))
    BY <2>1, AlignedRight
  <2> HIDE DEF a, p
  <2>3. \A m : m \in places <=> Place(cluster, p, Align, m)
    BY DEF Place, Starts
  <2> HIDE DEF places
  <2>4. CASE \A m \in Clusters : ~ Place(cluster, p, Align, m)
    <3>1. places = {}
      BY <2>3, <2>4 DEF Place
    <3>2. a.ret = 0 /\ a.table = Words(cluster)
      BY <2>2, <2>4
    <3> QED BY <3>1, <3>2 DEF a, p, places
  <2>5. ASSUME NEW n \in Clusters, Place(cluster, p, Align, n),
               \A m \in 0..(n - 1) : ~ Place(cluster, p, Align, m),
               a.ret = cluster_to_address(n), a.table = Words(Taken(cluster, n, p))
        PROVE  /\ places # {} /\ n \in places /\ \A m \in places : n <= m
    <3>1. n \in places
      BY <2>3, <2>5
    <3>2. ASSUME NEW m \in places PROVE n <= m
      <4>1. m \in Clusters /\ Place(cluster, p, Align, m)
        BY <2>3 DEF Place
      <4>2. m \in Nat /\ n \in Nat
        BY <4>1, MemoryAssumption DEF Clusters
      <4> QED BY <2>5, <4>1, <4>2
    <3> QED BY <3>1, <3>2
  <2>6. ASSUME NEW n \in Clusters, Place(cluster, p, Align, n),
               \A m \in 0..(n - 1) : ~ Place(cluster, p, Align, m),
               a.ret = cluster_to_address(n), a.table = Words(Taken(cluster, n, p))
        PROVE  /\ places # {}
               /\ \E x \in places : /\ \A m \in places : x <= m
                                    /\ a.ret = cluster_to_address(x)
                                    /\ a.table = Words(Taken(cluster, x, p))
    BY <2>5, <2>6, Zenon
  <2> QED BY <2>2, <2>4, <2>6 DEF a, p, places
<1>3. ReallocAsSpecified
  <2> SUFFICES ASSUME NEW a \in Clusters, NEW size \in Sizes
               PROVE  LET t == Words(cluster)
                          r == realloc(t, cluster_to_address(a), size)
                      IN  /\ \E n \in Clusters \cup {NULL} :
                               /\ IsRealloc(cluster, a, Pages(size), n, Unwords(r.table))
                               /\ r.ret = Address(n)
                          /\ Unwords(unalloc(t, cluster_to_address(a))) = Unalloc(cluster, a)
                          /\ realloc_inplace(t, cluster_to_address(a), size)
                               <= alloc_size(t, cluster_to_address(a))
    BY DEF ReallocAsSpecified
  <2>0. size \in Nat
    BY <1>0
  <2> DEFINE t == Words(cluster)
             ptr == cluster_to_address(a)
             r == realloc(t, ptr, size)
  <2>1. \E n \in Clusters \cup {NULL} :
          /\ IsRealloc(cluster, a, Pages(size), n, Unwords(r.table))
          /\ r.ret = Address(n)
    BY <2>0, ReallocRight
  <2>2. Unwords(unalloc(t, ptr)) = Unalloc(cluster, a)
    <3>1. IsTable(Unalloc(cluster, a))
      BY TablesStay
    <3> QED BY <3>1, UnallocRight, WordsBack
  <2>3. realloc_inplace(t, ptr, size) <= alloc_size(t, ptr)
    <3>1. Matching(t, ptr) \in Nat
      BY MatchingIs, MemoryAssumption DEF IsAllocSize
    <3> HIDE DEF t, ptr
    <3>2. alloc_size(t, ptr) \in Nat
      BY <3>1, LoopsAssumption DEF alloc_size
    <3> QED BY <2>0, <3>2 DEF realloc_inplace
  <2> QED BY <2>1, <2>2, <2>3
<1> QED BY <1>1, <1>2, <1>3 DEF LoopsAsSpecified

(* In every reachable state of the cluster table, of any number of clusters  *)
(* and for every size in bytes and alignment, the loops of alloc,            *)
(* alloc_aligned, realloc, unalloc and alloc_size in kernel/arch/memory.rs   *)
(* compute what Memory's operators say: the first place that fits, the whole *)
(* block and no other.                                                       *)
THEOREM LoopsAreAsSpecified == MemorySpec => []LoopsAsSpecified
<1>1. MInv => LoopsAsSpecified
  BY LoopsRightHere DEF MInv, Good, Typed, IsTable
<1> QED BY <1>1, MemoryInvariance, PTL
=============================================================================
