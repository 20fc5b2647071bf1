---------------------------- MODULE SpaceProofs ----------------------------
(***************************************************************************)
(* Proofs about AddressSpace, for every number of pages, of spaces and of  *)
(* entries, and every memory map.  What the cluster table is after a step  *)
(* comes from the lemmas of MemoryProofs.  The last theorems are about the *)
(* composition MCKernel, whose parts each follow a specification of theirs.*)
(***************************************************************************)
EXTENDS MCKernel, MemoryProofs

P == INSTANCE MemoryProofs WITH
       CLUSTER_COUNT <- PageCount, Present <- Usable, cluster <- frames, held <- Owned,
       CLUSTER_SIZE <- 1, BASE <- 1, Align <- 1

Frames == M!Clusters
Entry == [phys : Frames, virt : Nat, size : Nat \ {0}, writeable : BOOLEAN, allocated : BOOLEAN]
Box == [phys : Frames, size : Nat \ {0}]

(* The cluster table c when the blocks in use start at the addresses D.      *)
Table(c, D) ==
  /\ c \in [Frames -> Frames \cup {M!FREE, M!ABSENT}]
  /\ D \subseteq Frames
  /\ \A i \in Frames : c[i] = M!ABSENT <=> i \notin Usable
  /\ \A a \in D : c[a] = a
  /\ \A i \in Frames : c[i] >= 0 => c[i] \in D
  /\ \A i \in Frames : c[i] >= 0 => c[i] <= i /\ \A j \in c[i]..i : c[j] = c[i]

(* The block at a has k clusters at least.                                   *)
Covers(c, a, k) == \A i \in a..(a + k - 1) : i \in Frames /\ c[i] = a

(* What one owner holds is not touched.                                      *)
Keeps(c, d, D) == \A i \in Frames : c[i] \in D => d[i] = c[i]

-----------------------------------------------------------------------------
LEMMA Assumed == P!MemoryAssumption /\ P!LoopsAssumption
BY SpaceAssumption DEF P!MemoryAssumption, P!LoopsAssumption, P!Clusters

LEMMA Numbers ==
  /\ PageCount \in Nat /\ Frames \subseteq Nat /\ Frames = 0..(PageCount - 1)
  /\ P!Clusters = Frames /\ M!Clusters = Frames
  /\ M!FREE = -1 /\ M!NULL = -1 /\ M!ABSENT = -2 /\ Unmapped = -1
  /\ P!FREE = -1 /\ P!NULL = -1 /\ P!ABSENT = -2
BY SpaceAssumption DEF Frames, M!Clusters, P!Clusters, M!FREE, M!NULL, M!ABSENT, Unmapped,
   P!FREE, P!NULL, P!ABSENT

(* The operators of the two instances of Memory are the same.                *)
LEMMA SameOperators ==
  ASSUME NEW c, NEW a, NEW k, NEW n, NEW d
  PROVE  /\ P!Unalloc(c, a) = M!Unalloc(c, a) /\ P!Taken(c, n, k) = M!Taken(c, n, k)
         /\ P!IsAlloc(c, k, n) <=> M!IsAlloc(c, k, n)
         /\ P!Block(c, a) = M!Block(c, a)
         /\ P!IsRealloc(c, a, k, n, d) <=> M!IsRealloc(c, a, k, n, d)
<1> USE DEF P!FREE, P!NULL, P!Clusters, M!FREE, M!NULL, M!Clusters
<1>1. P!Block(c, a) = M!Block(c, a)
  BY DEF P!Block, M!Block
<1>2. P!Unalloc(c, a) = M!Unalloc(c, a)
  BY DEF P!Unalloc, M!Unalloc, P!Block, M!Block
<1>3. P!Taken(c, n, k) = M!Taken(c, n, k)
  BY DEF P!Taken, M!Taken
<1>4. P!IsAlloc(c, k, n) <=> M!IsAlloc(c, k, n)
  BY DEF P!IsAlloc, M!IsAlloc, P!Fits, M!Fits
<1>5. P!IsRealloc(c, a, k, n, d) <=> M!IsRealloc(c, a, k, n, d)
  BY Zenon DEF P!IsRealloc, M!IsRealloc, P!Unalloc, M!Unalloc, P!Taken, M!Taken, P!IsAlloc, M!IsAlloc,
     P!Fits, M!Fits, P!IsAllocSize, M!IsAllocSize, P!Block, M!Block
<1> QED BY <1>1, <1>2, <1>3, <1>4, <1>5

(* Table is the invariant of MemoryProofs, without the sizes.                *)
LEMMA TableOfGood ==
  ASSUME NEW c, NEW h, P!Good(c, h)
  PROVE  Table(c, DOMAIN h) /\ \A a \in DOMAIN h : Covers(c, a, h[a])
<1>1. \A a \in DOMAIN h : a \in Frames /\ c[a] = a
  BY Assumed, Numbers, P!HeadOfBlock
<1>2. Table(c, DOMAIN h)
  BY <1>1, Numbers DEF P!Good, P!Typed, P!Absent, P!NoLeak, P!Runs, Table
<1>3. \A a \in DOMAIN h : Covers(c, a, h[a])
  BY Numbers DEF P!Good, P!Whole, Covers
<1> QED BY <1>2, <1>3

Ones(D) == [a \in D |-> 1]

LEMMA GoodOfTable ==
  ASSUME NEW c, NEW D, Table(c, D)
  PROVE  P!Good(c, Ones(D)) /\ DOMAIN Ones(D) = D
<1>1. DOMAIN Ones(D) = D /\ \A a \in D : Ones(D)[a] = 1
  BY DEF Ones
<1>2. ASSUME NEW a \in D PROVE 1 \in 1..PageCount
  BY <1>2, Numbers DEF Table
<1>3. P!Typed(c, Ones(D))
  <2>1. Ones(D) = [a \in DOMAIN Ones(D) |-> Ones(D)[a]]
    BY DEF Ones
  <2>2. \A a \in D : Ones(D)[a] \in 1..PageCount
    BY <1>1, <1>2
  <2> QED BY <1>1, <2>1, <2>2, Numbers DEF Table, P!Typed
<1>4. P!Absent(c) /\ P!NoLeak(c, Ones(D)) /\ P!Runs(c)
  BY <1>1, Numbers DEF Table, P!Absent, P!NoLeak, P!Runs
<1>5. P!Whole(c, Ones(D))
  <2> SUFFICES ASSUME NEW a \in D, NEW i \in a..(a + 1 - 1) PROVE i \in P!Clusters /\ c[i] = a
    BY <1>1 DEF P!Whole
  <2>1. i = a /\ a \in Frames
    BY Numbers DEF Table
  <2> QED BY <2>1, Numbers DEF Table
<1> QED BY <1>1, <1>3, <1>4, <1>5 DEF P!Good

-----------------------------------------------------------------------------
(* alloc always has an answer, and FirstFit is it.                           *)
LEMMA FirstFitDefined ==
  ASSUME NEW c, NEW k \in Nat
  PROVE  /\ FirstFit(c, k) \in Frames \cup {Unmapped}
         /\ M!IsAlloc(c, k, FirstFit(c, k))
<1> DEFINE T == {m \in Frames : M!Fits(c, m, k)}
<1>1. \E n \in Frames \cup {Unmapped} : M!IsAlloc(c, k, n)
  <2>1. CASE k = 0 \/ T = {}
    <3>1. M!IsAlloc(c, k, Unmapped)
      BY <2>1, Numbers DEF M!IsAlloc
    <3> QED BY <3>1
  <2>2. CASE k > 0 /\ T # {}
    <3>1. T \in SUBSET Nat
      BY Numbers
    <3>2. PICK n \in T : \A m \in T : n <= m
      BY <2>2, <3>1, Assumed, P!LeastNat
    <3>3. \A m \in 0..(n - 1) : m \in Frames /\ m \notin T
      BY <3>2, Numbers
    <3>4. M!IsAlloc(c, k, n)
      BY <2>2, <3>2, <3>3, Numbers DEF M!IsAlloc
    <3> QED BY <3>2, <3>4
  <2> QED BY <2>1, <2>2
<1> QED BY <1>1, Numbers DEF FirstFit

(* alloc takes clusters that nobody has.                                     *)
LEMMA TakenTable ==
  ASSUME NEW c, NEW D, Table(c, D), NEW k \in Nat, NEW n \in Frames, M!IsAlloc(c, k, n)
  PROVE  LET d == M!Taken(c, n, k) IN
           /\ n \notin D /\ k > 0 /\ Table(d, D \cup {n})
           /\ Covers(d, n, k) /\ Keeps(c, d, D)
<1> DEFINE d == M!Taken(c, n, k)
           h == Ones(D)
           g == P!Given(h, n, k)
<1>0. n # M!NULL /\ n # P!NULL /\ n \in Nat
  BY Numbers
<1>1. k > 0 /\ n + k <= PageCount
  BY <1>0 DEF M!IsAlloc, M!Fits
<1>2. k \in 0..PageCount /\ n \in P!Clusters \cup {P!NULL}
  BY <1>0, <1>1, Numbers
<1>3. P!Good(c, h) /\ DOMAIN h = D
  BY GoodOfTable
<1>4. P!IsAlloc(c, k, n) /\ P!Taken(c, n, k) = d
  BY SameOperators
<1> HIDE DEF h, d
<1>5. /\ P!Good(d, g) /\ n \notin DOMAIN h
      /\ \A i \in P!Clusters : c[i] # P!FREE => d[i] = c[i]
  BY <1>0, <1>2, <1>3, <1>4, Assumed, P!AllocGood
<1>6. DOMAIN g = D \cup {n} /\ g[n] = k
  BY <1>0, <1>3 DEF P!Given
<1> HIDE DEF g
<1>7. Table(d, D \cup {n}) /\ Covers(d, n, k)
  BY <1>5, <1>6, TableOfGood
<1>8. Keeps(c, d, D)
  BY <1>5, Numbers DEF Keeps, Table
<1> QED BY <1>1, <1>3, <1>5, <1>7, <1>8 DEF d

(* The loop of unalloc clears the clusters of the block and no other.        *)
LEMMA BlockClusters ==
  ASSUME NEW c, NEW D, Table(c, D), NEW a \in Frames, NEW i \in Frames
  PROVE  i \in M!Block(c, a) <=> c[i] = a
BY GoodOfTable, Assumed, Numbers, SameOperators, P!BlockIsEveryCluster

(* Entries dropped free their blocks; one that has none any more frees       *)
(* nothing.                                                                  *)
LEMMA DroppedTable ==
  ASSUME NEW c, NEW D, Table(c, D), NEW es, \A e \in es : e.phys \in Frames
  PROVE  LET gone == {e.phys : e \in Allocated(es)} IN
           /\ Table(Dropped(c, es), D \ gone)
           /\ Keeps(c, Dropped(c, es), D \ gone)
<1> DEFINE d == Dropped(c, es)
           gone == {e.phys : e \in Allocated(es)}
<1>1. \A i \in Frames : (\E e \in Allocated(es) : i \in M!Block(c, e.phys)) <=> c[i] \in gone
  <2> TAKE i \in Frames
  <2>1. \A e \in Allocated(es) : i \in M!Block(c, e.phys) <=> c[i] = e.phys
    BY BlockClusters DEF Allocated
  <2> QED BY <2>1, Zenon
<1>2. DOMAIN d = Frames /\ \A i \in Frames : d[i] = IF c[i] \in gone THEN M!FREE ELSE c[i]
  BY <1>1, Numbers DEF Dropped
<1>3. gone \subseteq Frames
  BY DEF Allocated
<1>4. c \in [Frames -> Frames \cup {-1, -2}]
  BY Numbers DEF Table
<1>5. d \in [Frames -> Frames \cup {-1, -2}]
  <2>1. d = [i \in Frames |-> d[i]]
    BY <1>2, Numbers DEF Dropped
  <2>2. \A i \in Frames : d[i] \in Frames \cup {-1, -2}
    BY <1>2, <1>4, Numbers
  <2> QED BY <2>1, <2>2
<1> HIDE DEF d, gone
<1>6. ASSUME NEW i \in Frames, d[i] >= 0
      PROVE  c[i] >= 0 /\ c[i] \notin gone /\ d[i] = c[i]
  BY <1>2, <1>6, Numbers
<1>7. \A i \in Frames : d[i] = M!ABSENT <=> i \notin Usable
  <2>1. -2 \notin gone
    BY <1>3, Numbers
  <2> QED BY <1>2, <2>1, Numbers DEF Table
<1>8. ASSUME NEW i \in Frames, d[i] >= 0
      PROVE  d[i] \in D \ gone /\ d[i] <= i /\ \A j \in d[i]..i : d[j] = d[i]
  <2>1. c[i] \in D /\ c[i] <= i /\ \A j \in c[i]..i : c[j] = c[i]
    BY <1>6, <1>8 DEF Table
  <2>2. \A j \in c[i]..i : j \in Frames
    BY <1>6, <1>8, <2>1, Numbers DEF Table
  <2> QED BY <1>2, <1>6, <1>8, <2>1, <2>2
<1>9. \A a \in D \ gone : a \in Frames /\ d[a] = a
  BY <1>2 DEF Table
<1>10. Table(d, D \ gone)
  BY <1>5, <1>7, <1>8, <1>9, Numbers DEF Table
<1>11. Keeps(c, d, D \ gone)
  BY <1>2 DEF Keeps
<1> QED BY <1>10, <1>11 DEF d, gone

(* realloc moves a block, leaves it, or frees it.                            *)
LEMMA ReallocTable ==
  ASSUME NEW c, NEW D, Table(c, D), NEW a \in D, NEW k \in Nat,
         NEW r \in Frames \cup {Unmapped}, NEW d \in ReallocTables(c, a, k, r)
  PROVE  /\ Keeps(c, d, D \ {a})
         /\ r = Unmapped => Table(d, D \ {a})
         /\ r # Unmapped => /\ r \notin D \ {a} /\ k > 0
                            /\ Table(d, (D \ {a}) \cup {r}) /\ Covers(d, r, k)
<1> DEFINE h == Ones(D)
           g == P!Given(P!Without(h, a), r, k)
<1>0. a \in Frames /\ a # M!NULL /\ a \in Nat /\ P!NULL = Unmapped
  BY Numbers DEF Table
<1>1. P!Good(c, h) /\ DOMAIN h = D
  BY GoodOfTable
<1>2. M!IsRealloc(c, a, k, r, d)
  BY DEF ReallocTables
<1> HIDE DEF h
<1>3. P!IsRealloc(c, a, k, r, d)
  BY <1>2, SameOperators
<1>4. DOMAIN P!Without(h, a) = D \ {a}
  BY <1>1 DEF P!Without
<1>5. CASE k <= PageCount
  <2>1. k \in 0..PageCount /\ r \in P!Clusters \cup {P!NULL}
    BY <1>0, <1>5, Numbers
  <2>2. /\ P!Good(d, g)
        /\ \A b \in D : b # a => r # b /\ \A i \in P!Clusters : c[i] = b <=> d[i] = b
    BY <1>1, <1>3, <2>1, Assumed, P!ReallocGood
  <2>3. Keeps(c, d, D \ {a})
    BY <2>2, Numbers DEF Keeps
  <2>4. ASSUME r = Unmapped PROVE Table(d, D \ {a})
    <3>1. g = P!Without(h, a)
      BY <1>0, <2>4 DEF P!Given
    <3> QED BY <1>4, <2>2, <3>1, TableOfGood
  <2>5. ASSUME r # Unmapped
        PROVE  r \notin D \ {a} /\ k > 0 /\ Table(d, (D \ {a}) \cup {r}) /\ Covers(d, r, k)
    <3>1. DOMAIN g = (D \ {a}) \cup {r} /\ g[r] = k
      BY <1>0, <1>4, <2>5 DEF P!Given
    <3>2. Table(d, (D \ {a}) \cup {r}) /\ Covers(d, r, k)
      BY <2>2, <3>1, TableOfGood
    <3>3. k > 0
      BY <1>2, <2>5, Numbers DEF M!IsRealloc
    <3> QED BY <2>2, <3>2, <3>3
  <2> QED BY <2>3, <2>4, <2>5
<1>6. CASE k > PageCount
  <2>1. k > 0 /\ \A s \in 0..PageCount : ~ (k <= s)
    BY <1>6, Numbers
  <2>2. M!IsAlloc(c, k, r) /\ d = M!Unalloc(M!Taken(c, r, k), a)
    BY <1>2, <2>1 DEF M!IsRealloc
  <2>3. r = Unmapped
    BY <1>6, <2>2, Numbers DEF M!IsAlloc, M!Fits
  <2>4. d = P!Unalloc(c, a)
    BY <2>2, <2>3, Numbers, SameOperators DEF M!Taken
  <2>5. /\ P!Good(d, P!Without(h, a))
        /\ \A i \in P!Clusters : d[i] = IF c[i] = a THEN P!FREE ELSE c[i]
    <3>1. a \in P!Clusters
      BY <1>0, Numbers
    <3> QED BY <1>1, <2>4, <3>1, Assumed, P!UnallocGood
  <2>6. Table(d, D \ {a})
    BY <1>4, <2>5, TableOfGood
  <2>7. Keeps(c, d, D \ {a})
    BY <2>5, Numbers DEF Keeps
  <2> QED BY <2>3, <2>6, <2>7
<1> QED BY <1>5, <1>6, Numbers

(* alloc_size has an answer: the whole of the block.                         *)
LEMMA AllocSizeDefined ==
  ASSUME NEW c, NEW D, Table(c, D), NEW a \in D
  PROVE  /\ AllocSize(c, a) \in Nat \ {0}
         /\ Covers(c, a, AllocSize(c, a))
         /\ \A k \in Nat : Covers(c, a, k) => k <= AllocSize(c, a)
<1> DEFINE T == {n \in Nat : n > a /\ (n \in Frames => c[n] # a)}
<1>0. a \in Frames /\ a \in Nat /\ c[a] = a /\ a < PageCount
  BY Numbers DEF Table
<1>1. T \in SUBSET Nat /\ T # {}
  <2>1. PageCount \in T
    BY <1>0, Numbers
  <2> QED BY <2>1
<1>2. PICK n \in T : \A m \in T : n <= m
  BY <1>1, Assumed, P!LeastNat
<1>3. n <= PageCount
  BY <1>0, <1>2, Numbers
<1>4. \A j \in a..(n - 1) : j \in Frames /\ c[j] = a
  <2> TAKE j \in a..(n - 1)
  <2>1. j \in Frames
    BY <1>0, <1>2, <1>3, Numbers
  <2>2. CASE j = a
    BY <1>0, <2>2
  <2>3. CASE j > a
    BY <1>2, <2>1, <2>3, Numbers
  <2> QED BY <1>0, <2>1, <2>2, <2>3
<1>5. \A i \in Frames : i \in M!Block(c, a) <=> c[i] = a
  BY <1>0, BlockClusters
<1>6. \A i \in M!Block(c, a) : i \in a..(n - 1)
  <2> TAKE i \in M!Block(c, a)
  <2>1. i \in Frames /\ a <= i /\ \A j \in a..i : c[j] = a
    BY Numbers DEF M!Block
  <2>2. ~ (n <= i)
    <3>1. SUFFICES ASSUME n <= i PROVE FALSE
      OBVIOUS
    <3>2. n \in a..i /\ n \in Frames
      BY <1>0, <1>2, <2>1, <3>1, Numbers
    <3> QED BY <1>2, <2>1, <3>2
  <2> QED BY <1>0, <1>2, <2>1, <2>2, Numbers
<1> DEFINE s == n - a
<1>7. s \in 0..PageCount /\ s \in Nat \ {0} /\ a + s - 1 = n - 1
  BY <1>0, <1>2, <1>3, Numbers
<1>8. M!Block(c, a) = a..(n - 1)
  <2>1. M!Block(c, a) \subseteq Frames
    BY Numbers DEF M!Block
  <2> QED BY <1>4, <1>5, <1>6, <2>1
<1>9. M!IsAllocSize(c, a, s)
  BY <1>7, <1>8 DEF M!IsAllocSize
<1>10. ASSUME NEW u \in 0..PageCount, M!IsAllocSize(c, a, u) PROVE u = s
  <2>1. a..(a + u - 1) = a..(n - 1)
    BY <1>8, <1>10 DEF M!IsAllocSize
  <2>2. n - 1 \in a..(n - 1) /\ u \in Nat
    BY <1>0, <1>2, <1>10
  <2>3. n - 1 <= a + u - 1
    BY <1>0, <1>2, <2>1, <2>2
  <2>4. a + u - 1 \in a..(a + u - 1)
    BY <1>0, <1>2, <2>2, <2>3
  <2>5. a + u - 1 <= n - 1
    BY <1>0, <1>2, <2>1, <2>2, <2>4
  <2> QED BY <1>0, <1>2, <2>2, <2>3, <2>5
<1>11. AllocSize(c, a) = s
  BY <1>7, <1>9, <1>10 DEF AllocSize
<1>12. Covers(c, a, s)
  BY <1>4, <1>7 DEF Covers
<1>13. ASSUME NEW k \in Nat, Covers(c, a, k) PROVE k <= s
  <2>1. SUFFICES ASSUME k > s PROVE FALSE
    BY <1>7
  <2>2. n \in a..(a + k - 1)
    BY <1>0, <1>2, <2>1
  <2> QED BY <1>2, <1>13, <2>2 DEF Covers
<1> QED BY <1>7, <1>11, <1>12, <1>13

-----------------------------------------------------------------------------
(* Tables of entries; a Slot may be left without pages, until clean_mem.     *)
Slot == [phys : Frames, virt : Nat, size : Nat, writeable : BOOLEAN, allocated : BOOLEAN]
Phys(es) == {e.phys : e \in es}
Mine(t) == Allocated(ToSet(t))
Distinct(t) == \A i, j \in 1..Len(t) :
  t[i].allocated /\ t[j].allocated /\ t[i].phys = t[j].phys => i = j

LEMMA ToSetOf ==
  ASSUME NEW S, NEW t \in Seq(S)
  PROVE  /\ ToSet(t) = {t[i] : i \in 1..Len(t)} /\ DOMAIN t = 1..Len(t) /\ Len(t) \in Nat
         /\ ToSet(t) \subseteq S
BY DEF ToSet

LEMMA AppendOf ==
  ASSUME NEW S, NEW t \in Seq(S), NEW e \in S
  PROVE  /\ Append(t, e) \in Seq(S) /\ Len(Append(t, e)) = Len(t) + 1
         /\ Append(t, e)[Len(t) + 1] = e /\ \A i \in 1..Len(t) : Append(t, e)[i] = t[i]
         /\ ToSet(Append(t, e)) = ToSet(t) \cup {e}
<1> DEFINE u == Append(t, e)
<1>1. /\ u \in Seq(S) /\ Len(u) = Len(t) + 1 /\ Len(t) \in Nat
      /\ u[Len(t) + 1] = e /\ \A i \in 1..Len(t) : u[i] = t[i]
  OBVIOUS
<1> HIDE DEF u
<1>2. ToSet(u) = {u[i] : i \in 1..Len(u)} /\ ToSet(t) = {t[i] : i \in 1..Len(t)}
  BY <1>1, ToSetOf
<1>3. ToSet(u) \subseteq ToSet(t) \cup {e}
  <2> SUFFICES ASSUME NEW i \in 1..Len(u) PROVE u[i] \in ToSet(t) \cup {e}
    BY <1>2
  <2>1. i \in 1..Len(t) \/ i = Len(t) + 1
    BY <1>1
  <2> QED BY <1>1, <1>2, <2>1
<1>4. ToSet(t) \cup {e} \subseteq ToSet(u)
  <2>1. Len(t) + 1 \in 1..Len(u) /\ \A i \in 1..Len(t) : i \in 1..Len(u)
    BY <1>1
  <2> QED BY <1>1, <1>2, <2>1
<1> QED BY <1>1, <1>3, <1>4 DEF u

(* clean_mem keeps the entries that have pages.                              *)
Keep(x, e) == IF e.size > 0 THEN Append(x, e) ELSE x

LEMMA CleanedTurns ==
  ASSUME NEW t \in Seq(Slot)
  PROVE  \E K : /\ clean_mem(t) = K[Len(t)] /\ K[0] = <<>>
                /\ \A n \in 1..Len(t) : K[n] = Keep(K[n - 1], t[n])
<1> DEFINE N == Len(t)
           K == CHOOSE g : g = [n \in 0..Len(t) |->
                  IF n = 0 THEN <<>>
                  ELSE IF t[n].size > 0 THEN Append(g[n - 1], t[n]) ELSE g[n - 1]]
           F == [y \in Seq(Slot) \X (1..N) |-> Keep(y[1], t[y[2]])]
<1>0. N \in Nat /\ \A n \in 1..N : t[n] \in Slot
  OBVIOUS
<1>1. \A x \in Seq(Slot), n \in 1..N : Keep(x, t[n]) \in Seq(Slot)
  BY <1>0 DEF Keep
<1>2. F \in P!Turns(Seq(Slot), N) /\ <<>> \in Seq(Slot)
  BY <1>1 DEF P!Turns
<1>3. \A x \in Seq(Slot), n \in 1..N : F[<<x, n>>] = Keep(x, t[n])
  OBVIOUS
<1> HIDE DEF F
<1>4. PICK g : P!IsLoop(g, Seq(Slot), <<>>, N, F)
  BY <1>0, <1>2, Assumed, P!LoopOfTurns
<1>5. \A n \in 1..N : g[n] = Keep(g[n - 1], t[n])
  <2> TAKE n \in 1..N
  <2>1. n - 1 \in 0..N
    BY <1>0
  <2> QED BY <1>3, <1>4, <2>1 DEF P!IsLoop
<1>6. g = [n \in 0..N |-> IF n = 0 THEN <<>>
             ELSE IF t[n].size > 0 THEN Append(g[n - 1], t[n]) ELSE g[n - 1]]
  <2>1. g = [n \in 0..N |-> g[n]] /\ g[0] = <<>>
    BY <1>4 DEF P!IsLoop
  <2>2. \A n \in 0..N : n = 0 \/ n \in 1..N
    BY <1>0
  <2>3. \A n \in 0..N : g[n] = IF n = 0 THEN <<>>
             ELSE IF t[n].size > 0 THEN Append(g[n - 1], t[n]) ELSE g[n - 1]
    BY <1>5, <2>1, <2>2 DEF Keep
  <2> HIDE DEF N
  <2> QED BY <2>1, <2>3
<1>7. K = [n \in 0..N |-> IF n = 0 THEN <<>>
             ELSE IF t[n].size > 0 THEN Append(K[n - 1], t[n]) ELSE K[n - 1]]
  BY <1>6
<1>8. clean_mem(t) = K[N]
  BY DEF clean_mem
<1> HIDE DEF K
<1> HIDE DEF N
<1>9. K[0] = <<>> /\ \A n \in 1..N : K[n] = Keep(K[n - 1], t[n])
  <2>1. 0 \in 0..N /\ \A n \in 1..N : n \in 0..N /\ n # 0
    BY <1>0
  <2>2. \A n \in 0..N : K[n] = IF n = 0 THEN <<>>
             ELSE IF t[n].size > 0 THEN Append(K[n - 1], t[n]) ELSE K[n - 1]
    BY <1>7, Zenon
  <2> QED BY <2>1, <2>2 DEF Keep
<1> QED BY <1>8, <1>9 DEF N

LEMMA Cleaned ==
  ASSUME NEW t \in Seq(Slot), Distinct(t)
  PROVE  /\ clean_mem(t) \in Seq(Entry) /\ Distinct(clean_mem(t))
         /\ ToSet(clean_mem(t)) = {e \in ToSet(t) : e.size > 0}
<1>1. PICK K : /\ clean_mem(t) = K[Len(t)] /\ K[0] = <<>>
               /\ \A n \in 1..Len(t) : K[n] = Keep(K[n - 1], t[n])
  BY CleanedTurns
<1>2. Len(t) \in Nat /\ \A n \in 1..Len(t) : t[n] \in Slot
  OBVIOUS
<1> DEFINE Some(n) == {e \in {t[i] : i \in 1..n} : e.size > 0}
           Right(n) == K[n] \in Seq(Entry) /\ Distinct(K[n]) /\ ToSet(K[n]) = Some(n)
           S == {n \in Nat : n <= Len(t) => Right(n)}
<1>3. Right(0)
  <2>1. <<>> \in Seq(Entry) /\ Distinct(<<>>) /\ ToSet(<<>>) = {}
    BY DEF Distinct, ToSet
  <2>2. Some(0) = {}
    OBVIOUS
  <2> HIDE DEF Some
  <2> QED BY <1>1, <2>1, <2>2, Zenon
<1>4. ASSUME NEW n \in Nat, n + 1 <= Len(t), Right(n) PROVE Right(n + 1)
  <2>1. n + 1 \in 1..Len(t) /\ (n + 1) - 1 = n /\ t[n + 1] \in Slot
    BY <1>2, <1>4
  <2>2. K[n + 1] = Keep(K[n], t[n + 1])
    BY <1>1, <2>1
  <2>3. Some(n + 1) = IF t[n + 1].size > 0 THEN Some(n) \cup {t[n + 1]} ELSE Some(n)
    <3>1. 1..(n + 1) = (1..n) \cup {n + 1}
      OBVIOUS
    <3>2. \A e : e \in Some(n + 1) <=> e.size > 0 /\ \E i \in (1..n) \cup {n + 1} : e = t[i]
      BY <3>1, Zenon
    <3> QED BY <3>2, Zenon
  <2>4. \A e \in Some(n) : e.allocated /\ t[n + 1].allocated => e.phys # t[n + 1].phys
    <3> TAKE e \in Some(n)
    <3>1. PICK i \in 1..n : e = t[i]
      OBVIOUS
    <3>2. i \in 1..Len(t) /\ i # n + 1
      BY <1>2, <2>1
    <3> QED BY <2>1, <3>1, <3>2 DEF Distinct
  <2> DEFINE x == K[n]
             e == t[n + 1]
  <2>5. x \in Seq(Entry) /\ Distinct(x) /\ ToSet(x) = Some(n)
    BY <1>4
  <2> HIDE DEF x, e, Some
  <2>6. CASE e.size > 0
    <3> DEFINE y == Append(x, e)
    <3>1. K[n + 1] = y /\ ToSet(y) = ToSet(x) \cup {e} => ToSet(y) = Some(n + 1)
      BY <2>2, <2>3, <2>5, <2>6 DEF Keep, x, e
    <3>2. e \in Entry
      BY <2>1, <2>6 DEF Slot, Entry, e
    <3>3. /\ y \in Seq(Entry) /\ Len(y) = Len(x) + 1 /\ Len(x) \in Nat
          /\ y[Len(x) + 1] = e /\ \A i \in 1..Len(x) : y[i] = x[i]
          /\ ToSet(y) = ToSet(x) \cup {e}
      BY <2>5, <3>2, AppendOf
    <3> HIDE DEF y
    <3>4. \A j \in 1..Len(x) : x[j].allocated /\ e.allocated => x[j].phys # e.phys
      BY <2>4, <2>5, ToSetOf DEF e
    <3>5. Distinct(y)
      <4> SUFFICES ASSUME NEW i \in 1..Len(y), NEW j \in 1..Len(y),
                          y[i].allocated, y[j].allocated, y[i].phys = y[j].phys
                   PROVE  i = j
        BY DEF Distinct
      <4>1. /\ i \in 1..Len(x) \/ i = Len(x) + 1
            /\ j \in 1..Len(x) \/ j = Len(x) + 1
        BY <3>3
      <4> QED BY <2>5, <3>3, <3>4, <4>1 DEF Distinct
    <3>6. K[n + 1] = y /\ ToSet(y) = Some(n + 1)
      BY <2>2, <2>3, <2>5, <2>6, <3>1, <3>3 DEF Keep, x, e, y
    <3> QED BY <3>3, <3>5, <3>6
  <2>7. CASE ~ (e.size > 0)
    <3>1. K[n + 1] = x /\ Some(n + 1) = Some(n)
      BY <2>2, <2>3, <2>7 DEF Keep, x, e
    <3> QED BY <2>5, <3>1
  <2> QED BY <2>6, <2>7
<1> HIDE DEF Right
<1>5. 0 \in S
  BY <1>3
<1>6. ASSUME NEW n \in Nat, n \in S PROVE n + 1 \in S
  BY <1>2, <1>4, <1>6
<1> HIDE DEF S
<1>7. Nat \subseteq S
  BY <1>5, <1>6, Assumed, P!SetInduction
<1>8. Right(Len(t))
  BY <1>2, <1>7 DEF S
<1>9. ToSet(t) = {t[i] : i \in 1..Len(t)}
  BY ToSetOf
<1> QED BY <1>1, <1>8, <1>9 DEF Right

-----------------------------------------------------------------------------
(* What one table holds of the clusters c, when the blocks at D belong to    *)
(* others.                                                                   *)
Own(c, t, D) ==
  /\ t \in Seq(Entry) /\ Distinct(t) /\ Phys(Mine(t)) \cap D = {}
  /\ Table(c, D \cup Phys(Mine(t)))
  /\ \A e \in Mine(t) : Covers(c, e.phys, e.size)

LEMMA CoversKept ==
  ASSUME NEW c, NEW d, NEW D, Keeps(c, d, D), NEW a \in D, NEW k, Covers(c, a, k)
  PROVE  Covers(d, a, k)
BY DEF Keeps, Covers

LEMMA KeepsTwice ==
  ASSUME NEW c, NEW d, NEW f, NEW D, Keeps(c, d, D), Keeps(d, f, D)
  PROVE  Keeps(c, f, D)
BY DEF Keeps

LEMMA KeepsFewer ==
  ASSUME NEW c, NEW d, NEW D, NEW E, E \subseteq D, Keeps(c, d, D)
  PROVE  Keeps(c, d, E)
BY DEF Keeps

LEMMA EntryOf ==
  ASSUME NEW e \in Slot
  PROVE  /\ e.phys \in Frames /\ e.virt \in Nat /\ e.size \in Nat
         /\ e.size > 0 <=> e \in Entry
BY DEF Slot, Entry

LEMMA EntriesAreSlots == Entry \subseteq Slot /\ Seq(Entry) \subseteq Seq(Slot)
<1>1. Entry \subseteq Slot
  BY DEF Entry, Slot
<1> QED BY <1>1

LEMMA MineOf ==
  ASSUME NEW t, NEW u, NEW e, ToSet(u) = ToSet(t) \cup {e}
  PROVE  /\ e.allocated => Mine(u) = Mine(t) \cup {e}
         /\ ~ e.allocated => Mine(u) = Mine(t)
BY DEF Mine, Allocated

LEMMA MineIs ==
  ASSUME NEW t \in Seq(Entry)
  PROVE  /\ \A j \in 1..Len(t) :
              /\ t[j] \in ToSet(t) /\ t[j] \in Entry /\ t[j].size > 0
              /\ t[j].phys \in Frames /\ t[j].allocated \in BOOLEAN
              /\ t[j].allocated => t[j] \in Mine(t)
         /\ \A x \in Mine(t) : x \in ToSet(t) /\ x \in Entry /\ x.size > 0 /\ x.phys \in Phys(Mine(t))
         /\ \A x \in ToSet(t) : x \in Entry /\ (x.allocated => x \in Mine(t))
<1>1. ToSet(t) = {t[i] : i \in 1..Len(t)} /\ ToSet(t) \subseteq Entry
  BY ToSetOf
<1>2. \A x \in Entry : x.size > 0 /\ x.phys \in Frames /\ x.allocated \in BOOLEAN
  BY DEF Entry
<1>3. \A x : x \in Mine(t) <=> x \in ToSet(t) /\ x.allocated
  BY DEF Mine, Allocated
<1> QED BY <1>1, <1>2, <1>3 DEF Phys

(* One more entry, with a block nobody else has.                             *)
LEMMA DistinctMore ==
  ASSUME NEW t \in Seq(Entry), Distinct(t), NEW e \in Entry,
         e.allocated => e.phys \notin Phys(Mine(t))
  PROVE  Append(t, e) \in Seq(Entry) /\ Distinct(Append(t, e))
<1> DEFINE y == Append(t, e)
<1>1. /\ y \in Seq(Entry) /\ Len(y) = Len(t) + 1 /\ Len(t) \in Nat
      /\ y[Len(t) + 1] = e /\ \A i \in 1..Len(t) : y[i] = t[i]
  BY AppendOf
<1> HIDE DEF y
<1>2. \A j \in 1..Len(t) : t[j].allocated /\ e.allocated => t[j].phys # e.phys
  BY ToSetOf DEF Phys, Mine, Allocated
<1>3. Distinct(y)
  <2> SUFFICES ASSUME NEW i \in 1..Len(y), NEW j \in 1..Len(y),
                      y[i].allocated, y[j].allocated, y[i].phys = y[j].phys
               PROVE  i = j
    BY DEF Distinct
  <2>1. /\ i \in 1..Len(t) \/ i = Len(t) + 1
        /\ j \in 1..Len(t) \/ j = Len(t) + 1
    BY <1>1
  <2> QED BY <1>1, <1>2, <2>1 DEF Distinct
<1> QED BY <1>1, <1>3 DEF y

LEMMA OwnMore ==
  ASSUME NEW c, NEW t, NEW D, Own(c, t, D), NEW k \in Nat, NEW n \in Frames,
         M!IsAlloc(c, k, n), NEW e, e \in Slot, e.phys = n, e.size = k, e.allocated
  PROVE  Own(M!Taken(c, n, k), Append(t, e), D) /\ Keeps(c, M!Taken(c, n, k), D)
<1> DEFINE d == M!Taken(c, n, k)
           A == D \cup Phys(Mine(t))
<1>1. Table(c, A) /\ t \in Seq(Entry) /\ Distinct(t)
  BY DEF Own
<1> HIDE DEF A
<1>2. n \notin A /\ k > 0 /\ Table(d, A \cup {n}) /\ Covers(d, n, k) /\ Keeps(c, d, A)
  BY <1>1, TakenTable
<1> HIDE DEF d
<1>3. e \in Entry
  BY <1>2, EntryOf
<1>4. ToSet(Append(t, e)) = ToSet(t) \cup {e}
  BY <1>1, <1>3, AppendOf
<1>5. Phys(Mine(Append(t, e))) = Phys(Mine(t)) \cup {n} /\ Mine(Append(t, e)) = Mine(t) \cup {e}
  BY <1>4, MineOf DEF Phys
<1>6. Append(t, e) \in Seq(Entry) /\ Distinct(Append(t, e))
  BY <1>1, <1>2, <1>3, DistinctMore DEF A
<1>7. D \cup Phys(Mine(Append(t, e))) = A \cup {n}
  BY <1>5 DEF A
<1>8. \A x \in Mine(t) : x.phys \in A /\ Covers(c, x.phys, x.size)
  BY DEF Own, A, Phys
<1>9. \A x \in Mine(Append(t, e)) : Covers(d, x.phys, x.size)
  BY <1>2, <1>5, <1>8, CoversKept
<1>10. Phys(Mine(Append(t, e))) \cap D = {}
  BY <1>2, <1>5 DEF Own, A
<1>11. Keeps(c, d, D)
  BY <1>2, KeepsFewer DEF A
<1> QED BY <1>2, <1>6, <1>7, <1>9, <1>10, <1>11 DEF Own, d

(* An entry to be loaded: its block is still to be chosen.                   *)
Wish == [phys : Frames \cup {Unmapped}, virt : Nat, size : Nat, writeable : BOOLEAN,
         allocated : BOOLEAN]

LEMMA LoadStep ==
  ASSUME NEW c, NEW t, NEW D, Own(c, t, D), NEW e \in Wish
  PROVE  LET new == Load([frames |-> c, table |-> t], e)
         IN  /\ Own(new.frames, new.table, D) /\ Keeps(c, new.frames, D)
             /\ Keeps(c, new.frames, D \cup Phys(Mine(t)))
             /\ \A x \in ToSet(new.table) : x.allocated \/ x \in ToSet(t)
<1> DEFINE a == FirstFit(c, e.size)
           acc == [frames |-> c, table |-> t]
<1>1. e.size \in Nat
  BY DEF Wish
<1>2. a \in Frames \cup {Unmapped} /\ M!IsAlloc(c, e.size, a)
  BY <1>1, FirstFitDefined
<1>3. CASE a = Unmapped
  <2>1. Load(acc, e) = acc
    BY <1>3 DEF Load
  <2> QED BY <2>1 DEF Keeps
<1>4. CASE a # Unmapped
  <2> DEFINE x == [e EXCEPT !.phys = a, !.allocated = TRUE]
             new == Load(acc, e)
  <2>1. new.frames = M!Taken(c, a, e.size) /\ new.table = Append(t, x)
    BY <1>4 DEF Load
  <2>2. x \in Slot /\ x.phys = a /\ x.size = e.size /\ x.allocated /\ a \in Frames
    BY <1>2, <1>4 DEF Wish, Slot
  <2> HIDE DEF x, new, a
  <2>3. Own(M!Taken(c, a, e.size), Append(t, x), D) /\ Keeps(c, M!Taken(c, a, e.size), D)
    BY <1>1, <1>2, <2>2, OwnMore
  <2>4. Keeps(c, M!Taken(c, a, e.size), D \cup Phys(Mine(t)))
    BY <1>1, <1>2, <2>2, TakenTable DEF Own
  <2>5. ToSet(Append(t, x)) = ToSet(t) \cup {x}
    <3>1. t \in Seq(Slot)
      BY EntriesAreSlots DEF Own
    <3> QED BY <2>2, <3>1, AppendOf
  <2> QED BY <2>1, <2>2, <2>3, <2>4, <2>5 DEF new
<1> QED BY <1>3, <1>4

Acc == [frames : [Frames -> Int], table : Seq(Wish)]

LEMMA LoadTyped ==
  ASSUME NEW acc \in Acc, NEW e \in Wish
  PROVE  Load(acc, e) \in Acc
<1> DEFINE a == FirstFit(acc.frames, e.size)
<1>1. e.size \in Nat /\ acc.frames \in [Frames -> Int] /\ acc.table \in Seq(Wish)
  BY DEF Wish, Acc
<1>2. a \in Frames \cup {Unmapped} /\ a \in Int
  BY <1>1, FirstFitDefined, Numbers
<1>3. [e EXCEPT !.phys = a, !.allocated = TRUE] \in Wish
  BY <1>2 DEF Wish
<1>4. M!Taken(acc.frames, a, e.size) \in [Frames -> Int]
  BY <1>1, <1>2, Numbers DEF M!Taken
<1>5. Append(acc.table, [e EXCEPT !.phys = a, !.allocated = TRUE]) \in Seq(Wish)
  BY <1>1, <1>3
<1>6. Load(acc, e) = IF a = Unmapped THEN acc
        ELSE [frames |-> M!Taken(acc.frames, a, e.size),
              table |-> Append(acc.table, [e EXCEPT !.phys = a, !.allocated = TRUE])]
  BY DEF Load
<1> QED BY <1>4, <1>5, <1>6 DEF Acc

LEMMA LoadedTurns ==
  ASSUME NEW t \in Seq(Wish), frames \in [Frames -> Int]
  PROVE  \E K : /\ Loaded(t) = K[Len(t)] /\ K[0] = [frames |-> frames, table |-> <<>>]
                /\ \A n \in 1..Len(t) : K[n] \in Acc /\ K[n] = Load(K[n - 1], t[n])
<1> DEFINE N == Len(t)
           x0 == [frames |-> frames, table |-> <<>>]
           K == CHOOSE g : g = [n \in 0..Len(t) |->
                  IF n = 0 THEN [frames |-> frames, table |-> <<>>]
                  ELSE Load(g[n - 1], t[n])]
           F == [y \in Acc \X (1..N) |-> Load(y[1], t[y[2]])]
<1>0. N \in Nat /\ (\A n \in 1..N : t[n] \in Wish) /\ x0 \in Acc
  BY DEF Acc
<1>1. \A x \in Acc, n \in 1..N : Load(x, t[n]) \in Acc
  BY <1>0, LoadTyped
<1>2. F \in P!Turns(Acc, N)
  BY <1>1 DEF P!Turns
<1>3. \A x \in Acc, n \in 1..N : F[<<x, n>>] = Load(x, t[n])
  OBVIOUS
<1>8. Loaded(t) = K[N]
  BY DEF Loaded
<1> HIDE DEF F, x0
<1>4. PICK g : P!IsLoop(g, Acc, x0, N, F)
  BY <1>0, <1>2, Assumed, P!LoopOfTurns
<1>5. \A n \in 1..N : g[n] = Load(g[n - 1], t[n])
  <2> TAKE n \in 1..N
  <2>1. n - 1 \in 0..N
    BY <1>0
  <2> QED BY <1>3, <1>4, <2>1 DEF P!IsLoop
<1>6. g = [n \in 0..N |-> IF n = 0 THEN x0 ELSE Load(g[n - 1], t[n])]
  <2>1. g = [n \in 0..N |-> g[n]] /\ g[0] = x0
    BY <1>4 DEF P!IsLoop
  <2>2. \A n \in 0..N : n = 0 \/ n \in 1..N
    BY <1>0
  <2>3. \A n \in 0..N : g[n] = IF n = 0 THEN x0 ELSE Load(g[n - 1], t[n])
    BY <1>5, <2>1, <2>2
  <2> HIDE DEF N
  <2> QED BY <2>1, <2>3
<1>7. K = [n \in 0..N |-> IF n = 0 THEN x0 ELSE Load(K[n - 1], t[n])]
  BY <1>6 DEF x0
<1> HIDE DEF K
<1> HIDE DEF N
<1>9. K[0] = x0 /\ \A n \in 1..N : K[n] = Load(K[n - 1], t[n])
  <2>1. 0 \in 0..N /\ \A n \in 1..N : n \in 0..N /\ n # 0
    BY <1>0
  <2>2. \A n \in 0..N : K[n] = IF n = 0 THEN x0 ELSE Load(K[n - 1], t[n])
    BY <1>7, Zenon
  <2> QED BY <2>1, <2>2
<1> DEFINE S == {n \in Nat : n <= N => K[n] \in Acc}
<1>10. 0 \in S
  BY <1>0, <1>9
<1>11. ASSUME NEW n \in Nat, n \in S PROVE n + 1 \in S
  <2> SUFFICES ASSUME n + 1 <= N PROVE K[n + 1] \in Acc
    OBVIOUS
  <2>1. n + 1 \in 1..N /\ (n + 1) - 1 = n /\ n <= N
    BY <1>0
  <2>2. K[n] \in Acc /\ K[n + 1] = Load(K[n], t[n + 1])
    BY <1>9, <1>11, <2>1
  <2> QED BY <1>1, <2>1, <2>2
<1> HIDE DEF S
<1>12. Nat \subseteq S
  BY <1>10, <1>11, Assumed, P!SetInduction
<1>13. \A n \in 1..N : K[n] \in Acc
  BY <1>0, <1>12 DEF S
<1> QED BY <1>8, <1>9, <1>13 DEF N, x0

(* The loops of clone and of execute, whatever cannot be allocated.          *)
LEMMA LoadedOwn ==
  ASSUME NEW t \in Seq(Wish), NEW D, Own(frames, <<>>, D)
  PROVE  /\ Own(Loaded(t).frames, Loaded(t).table, D) /\ Keeps(frames, Loaded(t).frames, D)
         /\ \A x \in ToSet(Loaded(t).table) : x.allocated
<1>0. frames \in [Frames -> Int]
  BY Numbers DEF Own, Table
<1>1. PICK K : /\ Loaded(t) = K[Len(t)] /\ K[0] = [frames |-> frames, table |-> <<>>]
               /\ \A n \in 1..Len(t) : K[n] \in Acc /\ K[n] = Load(K[n - 1], t[n])
  BY <1>0, LoadedTurns
<1>2. Len(t) \in Nat /\ \A n \in 1..Len(t) : t[n] \in Wish
  OBVIOUS
<1> DEFINE Right(x) == /\ Own(x.frames, x.table, D) /\ Keeps(frames, x.frames, D)
                       /\ \A y \in ToSet(x.table) : y.allocated
           S == {n \in Nat : n <= Len(t) => Right(K[n]) /\ K[n] = [frames |-> K[n].frames, table |-> K[n].table]}
<1>3. 0 \in S
  <2>1. ToSet(<<>>) = {}
    BY DEF ToSet
  <2> QED BY <1>1, <2>1 DEF Keeps
<1>4. ASSUME NEW n \in Nat, n \in S PROVE n + 1 \in S
  <2> SUFFICES ASSUME n + 1 <= Len(t)
               PROVE  /\ Right(K[n + 1])
                      /\ K[n + 1] = [frames |-> K[n + 1].frames, table |-> K[n + 1].table]
    OBVIOUS
  <2>1. n + 1 \in 1..Len(t) /\ (n + 1) - 1 = n /\ n <= Len(t) /\ t[n + 1] \in Wish
    BY <1>2
  <2>2. K[n + 1] \in Acc /\ K[n + 1] = Load(K[n], t[n + 1])
    BY <1>1, <2>1
  <2> DEFINE c == K[n].frames
             u == K[n].table
             new == Load([frames |-> c, table |-> u], t[n + 1])
  <2>3. /\ Own(c, u, D) /\ Keeps(frames, c, D) /\ K[n] = [frames |-> c, table |-> u]
        /\ \A y \in ToSet(u) : y.allocated
    BY <1>4, <2>1
  <2>4. K[n + 1] = new
    BY <2>2, <2>3
  <2> HIDE DEF c, u
  <2>5. /\ Own(new.frames, new.table, D) /\ Keeps(c, new.frames, D)
        /\ \A y \in ToSet(new.table) : y.allocated
    BY <2>1, <2>3, LoadStep
  <2> HIDE DEF new
  <2>6. Keeps(frames, new.frames, D)
    BY <2>3, <2>5, KeepsTwice
  <2>7. K[n + 1] = [frames |-> K[n + 1].frames, table |-> K[n + 1].table]
    BY <2>2 DEF Acc
  <2> QED BY <2>4, <2>5, <2>6, <2>7
<1> HIDE DEF S
<1>5. Nat \subseteq S
  BY <1>3, <1>4, Assumed, P!SetInduction
<1>6. Len(t) \in S /\ Len(t) <= Len(t)
  BY <1>2, <1>5
<1>7. Right(K[Len(t)])
  BY <1>6 DEF S
<1> HIDE DEF Right
<1>8. Right(Loaded(t))
  BY <1>1, <1>7
<1> QED BY <1>8 DEF Right

(* clean_mem drops the entries without pages and frees their blocks, those   *)
(* that a realloc has already freed once more.                               *)
LEMMA OwnCleaned ==
  ASSUME NEW t \in Seq(Slot), Distinct(t), NEW D, Phys(Mine(t)) \cap D = {},
         NEW c, NEW E, E \subseteq Phys(Mine(t)), Table(c, D \cup E),
         \A e \in Mine(t) : e.size > 0 => e.phys \in E /\ Covers(c, e.phys, e.size)
  PROVE  /\ Own(CleanClusters(c, t), clean_mem(t), D)
         /\ Keeps(c, CleanClusters(c, t), D)
         /\ Keeps(c, CleanClusters(c, t), D \cup Phys({e \in Mine(t) : e.size > 0}))
<1> DEFINE dead == {e \in ToSet(t) : e.size = 0}
           live == {e \in Mine(t) : e.size > 0}
           gone == {e.phys : e \in Allocated(dead)}
           d == CleanClusters(c, t)
           u == clean_mem(t)
<1>1. \A e \in ToSet(t) : e \in Slot /\ e.phys \in Frames /\ e.size \in Nat
  BY ToSetOf, EntryOf
<1>2. u \in Seq(Entry) /\ Distinct(u) /\ Mine(u) = live
  <2>1. u \in Seq(Entry) /\ Distinct(u) /\ ToSet(u) = {e \in ToSet(t) : e.size > 0}
    BY Cleaned
  <2> HIDE DEF u
  <2> QED BY <2>1 DEF Mine, Allocated
<1>3. Table(d, (D \cup E) \ gone) /\ Keeps(c, d, (D \cup E) \ gone)
  BY <1>1, DroppedTable DEF CleanClusters
<1>4. \A x, y \in Mine(t) : x.phys = y.phys => x = y
  BY ToSetOf DEF Distinct, Mine, Allocated
<1>9. Allocated(dead) = {e \in Mine(t) : e.size = 0}
  BY DEF Mine, Allocated
<1>5. (D \cup E) \ gone = D \cup Phys(live)
  <2>4. \A x \in live : \A y \in Allocated(dead) : x.phys # y.phys
    <3> TAKE x \in live
    <3> TAKE y \in Allocated(dead)
    <3>1. x \in Mine(t) /\ y \in Mine(t) /\ x.size > 0 /\ y.size = 0
      BY <1>9
    <3> QED BY <1>4, <3>1
  <2>1. Phys(live) \cap gone = {} /\ Phys(live) \subseteq E
    <3>1. \A x \in live : x.phys \in E
      OBVIOUS
    <3> HIDE DEF live, dead
    <3> QED BY <2>4, <3>1 DEF Phys
  <2>2. gone \cap D = {}
    BY <1>9 DEF Phys
  <2>3. E \ gone \subseteq Phys(live)
    <3> SUFFICES ASSUME NEW a \in E, a \notin gone PROVE a \in Phys(live)
      OBVIOUS
    <3>1. PICK e \in Mine(t) : e.phys = a
      BY DEF Phys
    <3>2. e.size \in Nat /\ e \notin Allocated(dead)
      BY <1>1, <3>1 DEF Mine, Allocated
    <3> QED BY <1>9, <3>1, <3>2 DEF Phys
  <2> QED BY <2>1, <2>2, <2>3
<1> HIDE DEF d, u, gone, dead
<1>6. \A e \in live : Covers(d, e.phys, e.size)
  <2> TAKE e \in live
  <2>1. e.phys \in D \cup Phys(live) /\ Covers(c, e.phys, e.size)
    BY DEF Phys
  <2> HIDE DEF live
  <2> QED BY <1>3, <1>5, <2>1, CoversKept
<1>7. Phys(live) \cap D = {}
  BY DEF Phys
<1> HIDE DEF live
<1>8. Keeps(c, d, D) /\ Keeps(c, d, D \cup Phys(live))
  BY <1>3, <1>5, KeepsFewer
<1> QED BY <1>2, <1>3, <1>5, <1>6, <1>7, <1>8 DEF Own, d, u, live

(* An entry replaced in a table, by one that is allocated if it is.          *)
Rest(t, i) == {t[j] : j \in (1..Len(t)) \ {i}}

LEMMA Replaced ==
  ASSUME NEW t \in Seq(Entry), Distinct(t), NEW i \in 1..Len(t), NEW e \in Slot,
         e.allocated <=> t[i].allocated,
         e.allocated => \A x \in Allocated(Rest(t, i)) : x.phys # e.phys
  PROVE  LET u == [t EXCEPT ![i] = e] IN
           /\ u \in Seq(Slot) /\ Distinct(u)
           /\ ToSet(u) = Rest(t, i) \cup {e} /\ ToSet(t) = Rest(t, i) \cup {t[i]}
           /\ t[i].allocated => Phys(Allocated(Rest(t, i))) = Phys(Mine(t)) \ {t[i].phys}
<1> DEFINE u == [t EXCEPT ![i] = e]
<1>1. t \in Seq(Slot) /\ Len(t) \in Nat
  BY EntriesAreSlots
<1>2. u \in Seq(Slot) /\ Len(u) = Len(t) /\ u[i] = e /\ \A j \in 1..Len(t) : j # i => u[j] = t[j]
  BY <1>1
<1> HIDE DEF u
<1>3. ASSUME NEW j \in 1..Len(t), NEW k \in 1..Len(t),
             u[j].allocated, u[k].allocated, u[j].phys = u[k].phys
      PROVE  j = k
  <2>1. ASSUME NEW x \in 1..Len(t), x # i, t[x].allocated, e.allocated PROVE t[x].phys # e.phys
    BY <2>1 DEF Rest, Allocated
  <2> QED BY <1>2, <1>3, <2>1 DEF Distinct
<1>4. ToSet(t) = {t[j] : j \in 1..Len(t)} /\ ToSet(u) = {u[j] : j \in 1..Len(t)}
  BY <1>1, <1>2, ToSetOf
<1>5. ToSet(u) = Rest(t, i) \cup {e} /\ ToSet(t) = Rest(t, i) \cup {t[i]}
  BY <1>2, <1>4 DEF Rest
<1>6. ASSUME t[i].allocated PROVE Phys(Allocated(Rest(t, i))) = Phys(Mine(t)) \ {t[i].phys}
  <2>1. Mine(t) = Allocated(Rest(t, i)) \cup {t[i]}
    BY <1>5, <1>6 DEF Mine, Allocated
  <2>2. \A x \in Allocated(Rest(t, i)) : x.phys # t[i].phys
    BY <1>6 DEF Rest, Allocated, Distinct
  <2> QED BY <2>1, <2>2 DEF Phys
<1> QED BY <1>2, <1>3, <1>5, <1>6 DEF u, Distinct

(* Entry i of a table made e, with the clusters d, and cleaned.  The blocks  *)
(* of the other entries stay.                                                *)
Stays(t, D, i) == IF t[i].allocated THEN (D \cup Phys(Mine(t))) \ {t[i].phys}
                  ELSE D \cup Phys(Mine(t))

Resizes(c, t, D, i, e, d) ==
  LET u == [t EXCEPT ![i] = e] IN
    /\ e \in Slot /\ (e.allocated <=> t[i].allocated)
    /\ Own(CleanClusters(d, u), clean_mem(u), D)
    /\ Keeps(c, CleanClusters(d, u), D)
    /\ Keeps(c, CleanClusters(d, u), Stays(t, D, i))
    /\ ToSet(t) = Rest(t, i) \cup {t[i]}
    /\ ToSet(clean_mem(u)) = {x \in Rest(t, i) \cup {e} : x.size > 0}

LEMMA OwnResized ==
  ASSUME NEW c, NEW t, NEW D, Own(c, t, D), NEW i \in 1..Len(t), NEW e \in Slot,
         t[i].allocated, e.allocated,
         NEW A, A = (D \cup Phys(Mine(t))) \ {t[i].phys}, e.phys \notin A,
         NEW d, Keeps(c, d, A), NEW E, E \subseteq {e.phys}, Table(d, A \cup E),
         e.size > 0 => e.phys \in E /\ Covers(d, e.phys, e.size)
  PROVE  Resizes(c, t, D, i, e, d)
<1> DEFINE u == [t EXCEPT ![i] = e]
           rest == Allocated(Rest(t, i))
<1>1. t \in Seq(Entry) /\ Distinct(t) /\ Phys(Mine(t)) \cap D = {} /\ t[i] \in Mine(t)
  BY ToSetOf DEF Own, Mine, Allocated
<1>2. \A x \in rest : x \in Mine(t) /\ x \in Entry /\ x.size > 0 /\ x.phys # t[i].phys
  <2>1. \A x \in rest : \E j \in 1..Len(t) : j # i /\ x = t[j] /\ t[j].allocated
    BY DEF Rest, Allocated
  <2> SUFFICES ASSUME NEW j \in 1..Len(t), j # i, t[j].allocated
               PROVE  t[j] \in Mine(t) /\ t[j] \in Entry /\ t[j].size > 0 /\ t[j].phys # t[i].phys
    BY <2>1
  <2>2. t[j] \in Mine(t) /\ t[j] \in Entry /\ t[j].size > 0
    BY <1>1, MineIs
  <2>3. t[j].phys # t[i].phys
    BY <1>1 DEF Distinct
  <2> QED BY <2>2, <2>3
<1>3. \A x \in rest : x.phys \in A
  BY <1>2 DEF Phys
<1>4. /\ u \in Seq(Slot) /\ Distinct(u) /\ ToSet(u) = Rest(t, i) \cup {e}
      /\ ToSet(t) = Rest(t, i) \cup {t[i]}
      /\ Phys(rest) = Phys(Mine(t)) \ {t[i].phys}
  <2>1. \A x \in Allocated(Rest(t, i)) : x.phys # e.phys
    BY <1>3
  <2>2. (e.allocated <=> t[i].allocated) /\ (e.allocated => \A x \in Allocated(Rest(t, i)) : x.phys # e.phys)
    BY <2>1
  <2>3. /\ [t EXCEPT ![i] = e] \in Seq(Slot) /\ Distinct([t EXCEPT ![i] = e])
        /\ ToSet([t EXCEPT ![i] = e]) = Rest(t, i) \cup {e} /\ ToSet(t) = Rest(t, i) \cup {t[i]}
        /\ t[i].allocated => Phys(Allocated(Rest(t, i))) = Phys(Mine(t)) \ {t[i].phys}
    BY <1>1, <2>2, Replaced, Zenon
  <2> QED BY <2>3
<1>5. t[i].phys \notin D /\ A = D \cup Phys(rest)
  BY <1>1, <1>4 DEF Phys
<1> HIDE DEF u
<1>6. Mine(u) = rest \cup {e} /\ Phys(Mine(u)) = Phys(rest) \cup {e.phys}
  BY <1>4 DEF Phys, Mine, Allocated
<1>7. Phys(Mine(u)) \cap D = {}
  BY <1>1, <1>4, <1>5, <1>6
<1> DEFINE F == Phys(rest) \cup E
<1>8. F \subseteq Phys(Mine(u)) /\ Table(d, D \cup F)
  <2>1. D \cup F = A \cup E
    BY <1>5
  <2> QED BY <1>6, <2>1
<1>9. ASSUME NEW x \in Mine(u), x.size > 0 PROVE x.phys \in F /\ Covers(d, x.phys, x.size)
  <2>1. CASE x = e
    BY <1>9, <2>1
  <2>2. CASE x \in rest
    <3>1. x.phys \in Phys(rest) /\ Covers(c, x.phys, x.size)
      BY <1>2, <2>2 DEF Own, Phys
    <3> QED BY <1>5, <3>1, CoversKept
  <2> QED BY <1>6, <2>1, <2>2
<1>13. ToSet(clean_mem(u)) = {x \in Rest(t, i) \cup {e} : x.size > 0}
  BY <1>4, Cleaned
<1> HIDE DEF F
<1> DEFINE G == D \cup Phys({x \in Mine(u) : x.size > 0})
<1>10. /\ Own(CleanClusters(d, u), clean_mem(u), D) /\ Keeps(d, CleanClusters(d, u), D)
       /\ Keeps(d, CleanClusters(d, u), G)
  BY <1>4, <1>7, <1>8, <1>9, OwnCleaned
<1>11. A \subseteq G
  <2>1. Phys(rest) \subseteq Phys({x \in Mine(u) : x.size > 0})
    BY <1>2, <1>6 DEF Phys
  <2> QED BY <1>5, <2>1
<1> HIDE DEF G, rest
<1>12. Keeps(c, CleanClusters(d, u), A)
  <2>1. Keeps(d, CleanClusters(d, u), A)
    BY <1>10, <1>11, KeepsFewer
  <2> QED BY <2>1, KeepsTwice
<1>14. Keeps(c, CleanClusters(d, u), D)
  <2>1. D \subseteq A
    BY <1>5
  <2> QED BY <1>12, <2>1, KeepsFewer
<1>15. Stays(t, D, i) = A /\ (e.allocated <=> t[i].allocated)
  BY <1>1 DEF Stays, Slot, Entry
<1> QED BY <1>4, <1>10, <1>12, <1>13, <1>14, <1>15 DEF u, Resizes

(* An entry of memory that is lent is resized, or emptied, and no block.     *)
LEMMA OwnLent ==
  ASSUME NEW c, NEW t, NEW D, Own(c, t, D), NEW i \in 1..Len(t), NEW e \in Slot,
         ~ t[i].allocated, ~ e.allocated
  PROVE  Resizes(c, t, D, i, e, c)
<1> DEFINE u == [t EXCEPT ![i] = e]
           E == Phys(Mine(t))
<1>1. t \in Seq(Entry) /\ Distinct(t) /\ E \cap D = {}
  BY DEF Own
<1>2. (e.allocated <=> t[i].allocated)
  <2>1. t[i] \in Entry
    BY <1>1
  <2>2. t[i].allocated \in BOOLEAN /\ e.allocated \in BOOLEAN
    BY <2>1 DEF Slot, Entry
  <2> QED BY <2>2
<1>12. e.allocated => \A x \in Allocated(Rest(t, i)) : x.phys # e.phys
  OBVIOUS
<1> DEFINE v == [t EXCEPT ![i] = e]
<1>13. v \in Seq(Slot) /\ Distinct(v) /\ ToSet(v) = Rest(t, i) \cup {e} /\ ToSet(t) = Rest(t, i) \cup {t[i]}
  BY <1>1, <1>2, <1>12, Replaced
<1>3. u \in Seq(Slot) /\ Distinct(u) /\ ToSet(u) = Rest(t, i) \cup {e} /\ ToSet(t) = Rest(t, i) \cup {t[i]}
  BY <1>13
<1> HIDE DEF u, v
<1>4. Mine(u) = Mine(t)
  BY <1>3 DEF Mine, Allocated
<1>5. \A x \in Mine(t) : x.size > 0 /\ x.phys \in E /\ Covers(c, x.phys, x.size)
  BY <1>1, MineIs DEF Own
<1>6. Table(c, D \cup E)
  BY DEF Own
<1>7. Phys(Mine(u)) \cap D = {} /\ E \subseteq Phys(Mine(u))
  BY <1>1, <1>4
<1>8. Phys({x \in Mine(u) : x.size > 0}) = E
  BY <1>4, <1>5 DEF Phys
<1>9. ToSet(clean_mem(u)) = {x \in Rest(t, i) \cup {e} : x.size > 0}
  BY <1>3, Cleaned
<1> HIDE DEF E
<1>10. /\ Own(CleanClusters(c, u), clean_mem(u), D) /\ Keeps(c, CleanClusters(c, u), D)
       /\ Keeps(c, CleanClusters(c, u), D \cup E)
  BY <1>3, <1>4, <1>5, <1>6, <1>7, <1>8, OwnCleaned
<1>11. Stays(t, D, i) = D \cup E
  BY DEF Stays, E
<1> QED BY <1>2, <1>3, <1>9, <1>10, <1>11 DEF Resizes, u

(* realloc of entry i, and what the system call makes of its answer.         *)
LEMMA OwnRealloc ==
  ASSUME NEW c, NEW t, NEW D, Own(c, t, D), NEW i \in 1..Len(t), NEW k \in Nat,
         t[i].allocated,
         NEW r \in Frames \cup {Unmapped}, NEW d \in ReallocTables(c, t[i].phys, k, r)
  PROVE  Resizes(c, t, D, i, Moved(t[i], r, k), d)
<1> DEFINE a == t[i].phys
           B == D \cup Phys(Mine(t))
           A == B \ {a}
           e == Moved(t[i], r, k)
<1>1. t \in Seq(Entry) /\ Table(c, B) /\ t[i] \in Entry /\ t[i] \in Mine(t)
  BY ToSetOf DEF Own, Mine, Allocated
<1>2. a \in B /\ d \in ReallocTables(c, a, k, r)
  BY <1>1 DEF Phys
<1> HIDE DEF B, a
<1>3. /\ Keeps(c, d, A)
      /\ r = Unmapped => Table(d, A)
      /\ r # Unmapped => r \notin A /\ k > 0 /\ Table(d, A \cup {r}) /\ Covers(d, r, k)
  BY <1>1, <1>2, ReallocTable
<1>4. CASE r = Unmapped
  <2>1. e \in Slot /\ e.phys = a /\ e.size = 0 /\ e.allocated
    BY <1>1, <1>4 DEF Moved, Slot, Entry, a
  <2> DEFINE None == {}
  <2>2. Table(d, A \cup None) /\ None \subseteq {e.phys} /\ e.phys \notin A /\ ~ (e.size > 0)
    <3>1. A \cup {} = A
      OBVIOUS
    <3> QED BY <1>3, <1>4, <2>1, <3>1
  <2> HIDE DEF e, None
  <2> QED BY <1>3, <1>4, <2>1, <2>2, OwnResized DEF B, a, e
<1>5. CASE r # Unmapped
  <2>1. e \in Slot /\ e.phys = r /\ e.size = k /\ e.allocated
    BY <1>1, <1>5 DEF Moved, Slot, Entry, a
  <2> HIDE DEF e
  <2> QED BY <1>3, <1>5, <2>1, OwnResized DEF B, a, e
<1> QED BY <1>4, <1>5

-----------------------------------------------------------------------------
(* next_mem is a number.                                                     *)
LEMMA NextMem ==
  ASSUME NEW t \in Seq(Slot)
  PROVE  next_mem(t) \in Nat
<1> DEFINE End(e) == e.virt + e.size
           B(n) == \E b \in Nat : \A i \in 1..n : End(t[i]) <= b
           S == {n \in Nat : n <= Len(t) => B(n)}
<1>0. Len(t) \in Nat /\ \A i \in 1..Len(t) : End(t[i]) \in Nat
  BY EntryOf
<1> HIDE DEF End
<1>1. 0 \in S
  <2>1. 0 \in Nat /\ \A i \in 1..0 : End(t[i]) <= 0
    OBVIOUS
  <2> QED BY <2>1
<1>2. ASSUME NEW n \in Nat, n \in S PROVE n + 1 \in S
  <2> SUFFICES ASSUME n + 1 <= Len(t) PROVE B(n + 1)
    OBVIOUS
  <2>1. n <= Len(t) /\ n + 1 \in 1..Len(t)
    BY <1>0
  <2>2. PICK b \in Nat : \A i \in 1..n : End(t[i]) <= b
    BY <1>2, <2>1
  <2>3. End(t[n + 1]) \in Nat /\ \A i \in 1..n : i \in 1..Len(t)
    BY <1>0, <2>1
  <2> DEFINE d == b + End(t[n + 1])
  <2>4. d \in Nat /\ \A i \in 1..(n + 1) : End(t[i]) <= d
    <3>1. \A i \in 1..(n + 1) : i \in 1..n \/ i = n + 1
      OBVIOUS
    <3> QED BY <1>0, <2>2, <2>3, <3>1
  <2> QED BY <2>4
<1> HIDE DEF S
<1>3. Nat \subseteq S
  BY <1>1, <1>2, Assumed, P!SetInduction
<1>4. PICK b \in Nat : \A i \in 1..Len(t) : End(t[i]) <= b
  <2>1. Len(t) \in S /\ Len(t) <= Len(t)
    BY <1>0, <1>3
  <2> HIDE DEF B
  <2>2. B(Len(t))
    BY <2>1 DEF S
  <2> QED BY <2>2 DEF B
<1> DEFINE T == {0} \cup {e.virt + e.size : e \in ToSet(t)}
<1>5. \A x \in T : x \in Nat /\ x <= b
  <2> TAKE x \in T
  <2>1. CASE x = 0
    BY <2>1
  <2>2. CASE x # 0
    <3>1. PICK i \in 1..Len(t) : x = End(t[i])
      BY <2>2, ToSetOf DEF End
    <3> QED BY <1>0, <1>4, <3>1
  <2> QED BY <2>1, <2>2
<1>6. T \in SUBSET Nat /\ T # {}
  BY <1>5
<1>7. next_mem(t) = Max(T)
  BY DEF next_mem
<1> HIDE DEF T
<1>8. PICK m \in T : \A x \in T : x <= m
  BY <1>5, <1>6, Assumed, P!GreatestNat
<1>9. Max(T) \in T
  <2>1. \A x \in T : m >= x
    BY <1>5, <1>8
  <2> QED BY <2>1 DEF Max
<1> QED BY <1>5, <1>7, <1>9

-----------------------------------------------------------------------------
(* Every page mapped is one of the entries es.                               *)
MapsTo(pg, es) == \A v \in VPages : pg[v] # Unmapped =>
  \E e \in es : v \in PagesOf(e) /\ pg[v] = PhysAt(e, v)

LEMMA MapsMore ==
  ASSUME NEW pg, NEW es, NEW fs, MapsTo(pg, es), es \subseteq fs
  PROVE  MapsTo(pg, fs)
BY DEF MapsTo

LEMMA MapsWithPages ==
  ASSUME NEW pg, NEW es, MapsTo(pg, es), es \subseteq Slot
  PROVE  MapsTo(pg, {e \in es : e.size > 0})
<1> SUFFICES ASSUME NEW v \in VPages, pg[v] # Unmapped
             PROVE  \E e \in es : e.size > 0 /\ v \in PagesOf(e) /\ pg[v] = PhysAt(e, v)
  BY DEF MapsTo
<1>1. PICK e \in es : v \in PagesOf(e) /\ pg[v] = PhysAt(e, v)
  BY DEF MapsTo
<1>2. e.virt \in Nat /\ e.size \in Nat
  BY EntryOf
<1>3. e.size > 0
  BY <1>1, <1>2 DEF PagesOf
<1> QED BY <1>1, <1>3

LEMMA Unmaps ==
  ASSUME NEW pg, NEW es, MapsTo(pg, es), NEW t \in Seq(Slot)
  PROVE  MapsTo(Unmap(pg, t), es \ ToSet(t))
<1> SUFFICES ASSUME NEW v \in VPages, Unmap(pg, t)[v] # Unmapped
             PROVE  \E e \in es \ ToSet(t) : v \in PagesOf(e) /\ Unmap(pg, t)[v] = PhysAt(e, v)
  BY DEF MapsTo
<1>1. Covering(t, v) = {} /\ Unmap(pg, t)[v] = pg[v]
  BY DEF Unmap
<1>2. PICK e \in es : v \in PagesOf(e) /\ pg[v] = PhysAt(e, v)
  BY <1>1 DEF MapsTo
<1>3. e \notin ToSet(t)
  BY <1>1, <1>2, ToSetOf DEF Covering
<1> QED BY <1>1, <1>2, <1>3

LEMMA MapCall ==
  ASSUME NEW pg, NEW es, MapsTo(pg, es), NEW t \in Seq(Slot)
  PROVE  MapsTo(Map(pg, t), es \cup ToSet(t))
<1> SUFFICES ASSUME NEW v \in VPages, Map(pg, t)[v] # Unmapped
             PROVE  \E e \in es \cup ToSet(t) : v \in PagesOf(e) /\ Map(pg, t)[v] = PhysAt(e, v)
  BY DEF MapsTo
<1>1. CASE Covering(t, v) = {}
  <2>1. Map(pg, t)[v] = pg[v]
    BY <1>1 DEF Map
  <2> QED BY <2>1 DEF MapsTo
<1>2. CASE Covering(t, v) # {}
  <2> DEFINE T == Covering(t, v)
  <2>1. Map(pg, t)[v] = PhysAt(t[Max(T)], v)
    BY <1>2 DEF Map
  <2>2. DOMAIN t = 1..Len(t) /\ Len(t) \in Nat /\ \A i \in 1..Len(t) : t[i] \in ToSet(t)
    BY ToSetOf
  <2>3. \A i \in T : i \in 1..Len(t) /\ v \in PagesOf(t[i])
    BY <2>2 DEF Covering
  <2> HIDE DEF T
  <2>4. T \in SUBSET Nat /\ T # {} /\ \A i \in T : i <= Len(t)
    BY <1>2, <2>2, <2>3 DEF T
  <2>5. PICK m \in T : \A x \in T : x <= m
    BY <2>2, <2>4, Assumed, P!GreatestNat
  <2>6. Max(T) \in T
    <3>1. \A x \in T : m >= x
      BY <2>4, <2>5
    <3> QED BY <3>1 DEF Max
  <2>7. t[Max(T)] \in ToSet(t) /\ v \in PagesOf(t[Max(T)])
    BY <2>2, <2>3, <2>6
  <2> QED BY <2>1, <2>7
<1> QED BY <1>1, <1>2

-----------------------------------------------------------------------------
(* The blocks of everybody, and of everybody but the table of s.             *)
Blocks(m) == UNION {Phys(Mine(m[u])) : u \in Space}
All(m, ker) == Blocks(m) \cup Phys(ker)
Others(m, ker, s) == (UNION {Phys(Mine(m[u])) : u \in Space \ {s}}) \cup Phys(ker)

(* No two owners share a block, every block has an owner, and it is as large *)
(* as its owner says.                                                        *)
Holds(c, m, ker) ==
  /\ DOMAIN m = Space /\ \A s \in Space : m[s] \in Seq(Entry) /\ Distinct(m[s])
  /\ \A s, u \in Space : s # u => Phys(Mine(m[s])) \cap Phys(Mine(m[u])) = {}
  /\ \A s \in Space : Phys(Mine(m[s])) \cap Phys(ker) = {}
  /\ ker \subseteq Box /\ \A b, d \in ker : b.phys = d.phys => b = d
  /\ Table(c, All(m, ker))
  /\ \A s \in Space : \A e \in Mine(m[s]) : Covers(c, e.phys, e.size)
  /\ \A b \in ker : Covers(c, b.phys, b.size)

LEMMA AllOf ==
  ASSUME NEW m, NEW ker, NEW s \in Space
  PROVE  All(m, ker) = Others(m, ker, s) \cup Phys(Mine(m[s]))
BY DEF All, Blocks, Others

LEMMA Split ==
  ASSUME NEW c, NEW m, NEW ker, Holds(c, m, ker), NEW s \in Space
  PROVE  Own(c, m[s], Others(m, ker, s))
<1>1. Phys(Mine(m[s])) \cap Others(m, ker, s) = {}
  BY DEF Holds, Others
<1>2. Table(c, Others(m, ker, s) \cup Phys(Mine(m[s])))
  BY AllOf DEF Holds
<1> QED BY <1>1, <1>2 DEF Holds, Own

LEMMA Replace ==
  ASSUME NEW c, NEW m, NEW ker, Holds(c, m, ker), NEW k2, k2 \subseteq ker, NEW s \in Space,
         NEW d, NEW t, Own(d, t, Others(m, k2, s)), Keeps(c, d, Others(m, k2, s))
  PROVE  Holds(d, [m EXCEPT ![s] = t], k2)
<1> DEFINE n == [m EXCEPT ![s] = t]
           O == Others(m, k2, s)
<1>1. DOMAIN n = Space /\ n[s] = t /\ \A u \in Space : u # s => n[u] = m[u]
  BY DEF Holds
<1> HIDE DEF n
<1>2. \A u \in Space : u # s => Phys(Mine(m[u])) \subseteq O
  BY DEF Others
<1>3. Phys(k2) \subseteq O /\ Phys(k2) \subseteq Phys(ker)
  BY DEF Others, Phys
<1>4. O = Others(n, k2, s)
  BY <1>1 DEF Others
<1>5. /\ t \in Seq(Entry) /\ Distinct(t) /\ Phys(Mine(t)) \cap O = {}
      /\ Table(d, O \cup Phys(Mine(t)))
      /\ \A e \in Mine(t) : Covers(d, e.phys, e.size)
  BY DEF Own
<1> HIDE DEF O
<1>6. Table(d, All(n, k2))
  <2>1. All(n, k2) = Others(n, k2, s) \cup Phys(Mine(n[s]))
    BY AllOf
  <2>2. All(n, k2) = O \cup Phys(Mine(t))
    BY <1>1, <1>4, <2>1
  <2> QED BY <1>5, <2>2
<1>7. \A u \in Space : n[u] \in Seq(Entry) /\ Distinct(n[u])
  BY <1>1, <1>5 DEF Holds
<1>8. \A u, v \in Space : u # v => Phys(Mine(n[u])) \cap Phys(Mine(n[v])) = {}
  <2> SUFFICES ASSUME NEW u \in Space, NEW v \in Space, u # v
               PROVE  Phys(Mine(n[u])) \cap Phys(Mine(n[v])) = {}
    OBVIOUS
  <2>1. CASE u = s
    BY <1>1, <1>2, <1>5, <2>1
  <2>2. CASE v = s
    BY <1>1, <1>2, <1>5, <2>2
  <2>3. CASE u # s /\ v # s
    BY <1>1, <2>3 DEF Holds
  <2> QED BY <2>1, <2>2, <2>3
<1>9. \A u \in Space : Phys(Mine(n[u])) \cap Phys(k2) = {}
  <2> TAKE u \in Space
  <2>1. CASE u = s
    BY <1>1, <1>3, <1>5, <2>1
  <2>2. CASE u # s
    BY <1>1, <1>3, <2>2 DEF Holds
  <2> QED BY <2>1, <2>2
<1>10. k2 \subseteq Box /\ \A a, b \in k2 : a.phys = b.phys => a = b
  BY DEF Holds
<1>11. ASSUME NEW u \in Space, NEW e \in Mine(n[u]) PROVE Covers(d, e.phys, e.size)
  <2>1. CASE u = s
    BY <1>1, <1>5, <1>11, <2>1
  <2>2. CASE u # s
    <3>1. e \in Mine(m[u]) /\ e.phys \in Phys(Mine(m[u]))
      BY <1>1, <1>11, <2>2 DEF Phys
    <3>2. e.phys \in O /\ Covers(c, e.phys, e.size)
      BY <1>2, <2>2, <3>1 DEF Holds
    <3> QED BY <3>2, CoversKept DEF O
  <2> QED BY <2>1, <2>2
<1>12. ASSUME NEW b \in k2 PROVE Covers(d, b.phys, b.size)
  <2>1. b.phys \in O /\ Covers(c, b.phys, b.size)
    BY <1>3, <1>12 DEF Holds, Phys
  <2> QED BY <2>1, CoversKept DEF O
<1>13. Holds(d, n, k2)
  BY <1>1, <1>6, <1>7, <1>8, <1>9, <1>10, <1>11, <1>12 DEF Holds
<1> QED BY <1>13 DEF n

(* The boxes of the kernel.                                                  *)
LEMMA BoxTaken ==
  ASSUME NEW c, NEW m, NEW ker, Holds(c, m, ker), NEW k \in Nat, NEW n \in Frames,
         M!IsAlloc(c, k, n)
  PROVE  /\ Holds(M!Taken(c, n, k), m, ker \cup {[phys |-> n, size |-> k]})
         /\ Keeps(c, M!Taken(c, n, k), Blocks(m))
<1> DEFINE d == M!Taken(c, n, k)
           b == [phys |-> n, size |-> k]
           A == All(m, ker)
<1>1. Table(c, A)
  BY DEF Holds
<1>2. n \notin A /\ k > 0 /\ Table(d, A \cup {n}) /\ Covers(d, n, k) /\ Keeps(c, d, A)
  BY <1>1, TakenTable
<1>3. b \in Box /\ b.phys = n /\ b.size = k
  BY <1>2 DEF Box
<1> HIDE DEF d, b
<1>4. Phys(ker \cup {b}) = Phys(ker) \cup {n}
  BY <1>3 DEF Phys
<1>5. All(m, ker \cup {b}) = A \cup {n}
  BY <1>4 DEF All, Blocks
<1>6. (\A s \in Space : Phys(Mine(m[s])) \subseteq A) /\ Phys(ker) \subseteq A
  BY DEF All, Blocks
<1>7. \A s \in Space : \A e \in Mine(m[s]) : e.phys \in A /\ Covers(c, e.phys, e.size)
  <2> TAKE s \in Space
  <2> TAKE e \in Mine(m[s])
  <2>1. e.phys \in Phys(Mine(m[s]))
    BY DEF Phys
  <2> QED BY <1>6, <2>1 DEF Holds
<1>8. \A x \in ker : x.phys \in A /\ Covers(c, x.phys, x.size)
  BY <1>6 DEF Holds, Phys
<1> HIDE DEF A
<1>9. \A s \in Space : \A e \in Mine(m[s]) : Covers(d, e.phys, e.size)
  BY <1>2, <1>7, CoversKept
<1>10. \A x \in ker \cup {b} : Covers(d, x.phys, x.size)
  BY <1>2, <1>3, <1>8, CoversKept
<1>11. ASSUME NEW s \in Space PROVE Phys(Mine(m[s])) \cap Phys(ker \cup {b}) = {}
  <2>1. n \notin Phys(Mine(m[s])) /\ Phys(Mine(m[s])) \cap Phys(ker) = {}
    BY <1>2, <1>6, <1>11 DEF Holds
  <2> QED BY <1>4, <2>1
<1>12. \A x, y \in ker \cup {b} : x.phys = y.phys => x = y
  BY <1>2, <1>3, <1>8 DEF Holds
<1>13. Holds(d, m, ker \cup {b})
  BY <1>2, <1>3, <1>5, <1>9, <1>10, <1>11, <1>12 DEF Holds
<1>14. Keeps(c, d, Blocks(m))
  <2>1. Blocks(m) \subseteq A
    BY DEF A, All
  <2> QED BY <1>2, <2>1, KeepsFewer
<1> QED BY <1>13, <1>14 DEF d, b

LEMMA BoxFreed ==
  ASSUME NEW c, NEW m, NEW ker, Holds(c, m, ker), NEW b \in ker
  PROVE  Holds(M!Unalloc(c, b.phys), m, ker \ {b}) /\ Keeps(c, M!Unalloc(c, b.phys), Blocks(m))
<1> DEFINE A == All(m, ker)
           d == M!Unalloc(c, b.phys)
           x == [phys |-> b.phys, allocated |-> TRUE]
           G == {e.phys : e \in Allocated({x})}
<1>0. b.phys \in Frames /\ b.phys # M!NULL /\ G = {b.phys} /\ Allocated({x}) = {x}
  <2>1. b.phys \in Frames /\ b.phys # M!NULL
    BY Numbers DEF Holds, Box
  <2>2. x.phys = b.phys /\ x.allocated
    OBVIOUS
  <2> HIDE DEF x
  <2>3. Allocated({x}) = {x}
    BY <2>2 DEF Allocated
  <2> QED BY <2>1, <2>2, <2>3
<1>1. d = Dropped(c, {x})
  <2>1. \A i \in M!Clusters : (\E e \in Allocated({x}) : i \in M!Block(c, e.phys))
                              <=> i \in M!Block(c, b.phys)
    BY <1>0
  <2> QED BY <1>0, <2>1 DEF Dropped, M!Unalloc
<1>2. Table(d, A \ {b.phys}) /\ Keeps(c, d, A \ {b.phys})
  <2>1. Table(c, A) /\ \A e \in {x} : e.phys \in Frames
    BY <1>0 DEF Holds
  <2> HIDE DEF A, d, x
  <2>2. Table(d, A \ G) /\ Keeps(c, d, A \ G)
    BY <1>1, <2>1, DroppedTable
  <2> QED BY <1>0, <2>2
<1> HIDE DEF d, G, x
<1>3. Phys(ker \ {b}) = Phys(ker) \ {b.phys}
  BY DEF Phys, Holds
<1>4. \A s \in Space : b.phys \notin Phys(Mine(m[s]))
  <2>1. b.phys \in Phys(ker)
    BY DEF Phys
  <2> QED BY <2>1 DEF Holds
<1>5. All(m, ker \ {b}) = A \ {b.phys}
  BY <1>3, <1>4 DEF All, Blocks
<1>6. (\A s \in Space : Phys(Mine(m[s])) \subseteq A \ {b.phys}) /\ Phys(ker \ {b}) \subseteq A \ {b.phys}
  BY <1>3, <1>4 DEF All, Blocks
<1>7. \A s \in Space : \A e \in Mine(m[s]) :
        e.phys \in A \ {b.phys} /\ Covers(c, e.phys, e.size)
  <2> TAKE s \in Space
  <2> TAKE e \in Mine(m[s])
  <2>1. e.phys \in Phys(Mine(m[s]))
    BY DEF Phys
  <2> QED BY <1>6, <2>1 DEF Holds
<1>8. \A z \in ker \ {b} : z.phys \in A \ {b.phys} /\ Covers(c, z.phys, z.size)
  BY <1>6 DEF Holds, Phys
<1> HIDE DEF A
<1>9. \A s \in Space : \A e \in Mine(m[s]) : Covers(d, e.phys, e.size)
  BY <1>2, <1>7, CoversKept
<1>10. \A z \in ker \ {b} : Covers(d, z.phys, z.size)
  BY <1>2, <1>8, CoversKept
<1>11. \A s \in Space : Phys(Mine(m[s])) \cap Phys(ker \ {b}) = {}
  BY <1>3 DEF Holds
<1>12. Holds(d, m, ker \ {b})
  BY <1>2, <1>5, <1>9, <1>10, <1>11 DEF Holds
<1>13. Keeps(c, d, Blocks(m))
  <2>1. Blocks(m) \subseteq A \ {b.phys}
    BY <1>6 DEF Blocks
  <2> QED BY <1>2, <2>1, KeepsFewer
<1> QED BY <1>12, <1>13 DEF d

(* An entry of somebody else's memory is no owner.                           *)
LEMMA OwnBorrows ==
  ASSUME NEW c, NEW t, NEW D, Own(c, t, D), NEW e \in Entry, ~ e.allocated
  PROVE  Own(c, Append(t, e), D) /\ ToSet(Append(t, e)) = ToSet(t) \cup {e}
<1>1. t \in Seq(Entry) /\ Distinct(t)
  BY DEF Own
<1>2. Append(t, e) \in Seq(Entry) /\ Distinct(Append(t, e))
  BY <1>1, DistinctMore
<1>3. ToSet(Append(t, e)) = ToSet(t) \cup {e}
  BY <1>1, AppendOf
<1>4. Mine(Append(t, e)) = Mine(t)
  BY <1>3, MineOf
<1> QED BY <1>2, <1>3, <1>4 DEF Own

-----------------------------------------------------------------------------
(* An entry y lies in the block at a.                                        *)
Inside(c, y, a) == \A p \in y.phys..(y.phys + y.size - 1) : p \in Frames /\ c[p] = a

(* What is lent lies in a block that a program owns.                         *)
LentIn(c, m) == \A u \in Space : \A y \in ToSet(m[u]) :
  ~ y.allocated => \E a \in Blocks(m) : Inside(c, y, a)

(* The block of y is the same in d.                                          *)
Safe(c, d, m, y) == \E a \in Blocks(m) :
  Inside(c, y, a) /\ \A i \in Frames : c[i] = a => d[i] = a

(* So is what is lent in the tables n.                                       *)
SafeLent(c, m, d, n) == \A u \in Space : \A y \in ToSet(n[u]) :
  ~ y.allocated => Safe(c, d, m, y)

LEMMA LentAfter ==
  ASSUME NEW c, NEW m, NEW ker, Holds(c, m, ker),
         NEW d, NEW n, NEW k2, Holds(d, n, k2), Phys(k2) \cap Blocks(m) = {},
         SafeLent(c, m, d, n)
  PROVE  LentIn(d, n)
<1> SUFFICES ASSUME NEW u \in Space, NEW y \in ToSet(n[u]), ~ y.allocated
             PROVE  \E a \in Blocks(n) : Inside(d, y, a)
  BY DEF LentIn
<1>1. PICK a \in Blocks(m) : Inside(c, y, a) /\ \A i \in Frames : c[i] = a => d[i] = a
  BY DEF Safe, SafeLent
<1>2. Inside(d, y, a)
  BY <1>1 DEF Inside
<1>3. y \in Entry
  BY ToSetOf DEF Holds
<1>4. y.phys \in Nat /\ y.size \in Nat /\ y.size > 0
  BY <1>3, Numbers DEF Entry
<1>5. y.phys \in Frames /\ d[y.phys] = a
  <2>1. y.phys \in y.phys..(y.phys + y.size - 1)
    BY <1>4
  <2> QED BY <1>2, <2>1 DEF Inside
<1>6. a \in Frames /\ a >= 0
  <2>1. a \in All(m, ker)
    BY DEF All
  <2> QED BY <2>1, Numbers DEF Holds, Table
<1>7. a \in All(n, k2)
  BY <1>5, <1>6 DEF Holds, Table
<1>8. a \in Blocks(n)
  BY <1>7 DEF All
<1> QED BY <1>2, <1>8

-----------------------------------------------------------------------------
STypes ==
  /\ alive \subseteq Space /\ \A s \in Space \ alive : mem[s] = <<>>
  /\ execing \subseteq alive \X kernel
  /\ \A x, y \in execing : x[2] = y[2] => x = y
  /\ cur \in alive \cup {Kernel}
  /\ \A c \in calls : c.from \in Space /\ c.to \in alive /\ c.from # c.to

(* The inductive invariant.                                                  *)
SInv ==
  /\ STypes /\ Holds(frames, mem, kernel) /\ LentIn(frames, mem)
  /\ MapsTo(page, ToSet(TableOf(cur)))

LEMMA TablesOf ==
  ASSUME SInv, NEW s \in Space
  PROVE  /\ mem[s] \in Seq(Entry) /\ mem[s] \in Seq(Slot) /\ Len(mem[s]) \in Nat
         /\ DOMAIN mem[s] = 1..Len(mem[s]) /\ DOMAIN mem = Space
         /\ TableOf(s) = mem[s] /\ \A i \in 1..Len(mem[s]) : mem[s][i] \in Entry
         /\ Own(frames, mem[s], Others(mem, kernel, s))
         /\ TableOf(Kernel) = <<>> /\ s # Kernel
<1>1. mem[s] \in Seq(Entry) /\ DOMAIN mem = Space
  BY DEF SInv, Holds
<1>2. mem[s] \in Seq(Slot)
  BY <1>1, EntriesAreSlots
<1>3. Len(mem[s]) \in Nat /\ DOMAIN mem[s] = 1..Len(mem[s]) /\ \A i \in 1..Len(mem[s]) : mem[s][i] \in Entry
  BY <1>1
<1>4. Own(frames, mem[s], Others(mem, kernel, s))
  BY Split DEF SInv
<1>5. TableOf(s) = mem[s] /\ TableOf(Kernel) = <<>> /\ s # Kernel
  BY SpaceAssumption DEF TableOf, Kernel
<1> QED BY <1>1, <1>2, <1>3, <1>4, <1>5

NoTable == /\ ToSet(<<>>) = {} /\ Mine(<<>>) = {} /\ Phys(Mine(<<>>)) = {} /\ Phys({}) = {}
           /\ <<>> \in Seq(Entry) /\ Distinct(<<>>)

LEMMA EmptyTable == NoTable
BY DEF NoTable, ToSet, Phys, Distinct, Mine, Allocated

LEMMA InitInv == SpaceInit => SInv
<1> SUFFICES ASSUME SpaceInit PROVE SInv
  OBVIOUS
<1> DEFINE free == [i \in M!Clusters |-> IF i \in Usable THEN M!FREE ELSE M!ABSENT]
           a == FirstFit(free, 1)
           e == SegmentAt(a, TRUE)
           t == <<e>>
           m0 == [s \in Space |-> <<>>]
<1>1. Table(free, {})
  BY Numbers, SpaceAssumption DEF Table
<1>2. PICK z \in Usable : TRUE
  BY SpaceAssumption
<1>3. z \in Frames /\ M!Fits(free, z, 1)
  BY <1>2, Numbers, SpaceAssumption DEF M!Fits
<1>4. a \in Frames \cup {Unmapped} /\ M!IsAlloc(free, 1, a)
  BY FirstFitDefined
<1>5. a \in Frames
  BY <1>3, <1>4, Numbers DEF M!IsAlloc
<1> HIDE DEF free, a
<1>6. e \in Slot /\ e.phys = a /\ e.size = 1 /\ e.allocated /\ t \in Seq(Slot)
  BY <1>5, SpaceAssumption DEF SegmentAt, Slot
<1> HIDE DEF e
<1>7. NoTable
  BY EmptyTable
<1>8. (\A s \in Space : m0[s] = <<>>) /\ DOMAIN m0 = Space
  OBVIOUS
<1> HIDE DEF m0
<1>9. All(m0, {}) = {} /\ Others(m0, {}, First) = {}
  BY <1>7, <1>8 DEF All, Blocks, Others, NoTable
<1>10. Holds(free, m0, {})
  BY <1>1, <1>7, <1>8, <1>9 DEF Holds, NoTable
<1>11. Own(free, <<>>, {}) /\ Append(<<>>, e) = t
  <2>1. Own(free, m0[First], Others(m0, {}, First))
    BY <1>10, Split, SpaceAssumption
  <2>2. Append(<<>>, e) = t
    OBVIOUS
  <2>3. m0[First] = <<>>
    BY <1>8, SpaceAssumption
  <2> HIDE DEF t
  <2> QED BY <1>9, <2>1, <2>2, <2>3
<1> HIDE DEF t
<1>12. Own(M!Taken(free, a, 1), t, {}) /\ Keeps(free, M!Taken(free, a, 1), {})
  BY <1>4, <1>5, <1>6, <1>11, OwnMore
<1>13. /\ frames = M!Taken(free, a, 1) /\ kernel = {} /\ alive = {First} /\ execing = {} /\ cur = First
       /\ calls = {}
       /\ mem = [s \in Space |-> IF s = First THEN t ELSE <<>>]
       /\ page = Map([v \in VPages |-> Unmapped], t)
  BY DEF SpaceInit, free, a, e, t
<1>14. mem = [m0 EXCEPT ![First] = t]
  BY <1>13, SpaceAssumption DEF m0
<1>15. Holds(frames, mem, kernel)
  <2> DEFINE none == {}
             d == M!Taken(free, a, 1)
  <2>1. Holds(free, m0, none) /\ none \subseteq none /\ First \in Space
    BY <1>10, SpaceAssumption
  <2>2. Own(d, t, Others(m0, none, First)) /\ Keeps(free, d, Others(m0, none, First))
    BY <1>9, <1>12
  <2> HIDE DEF none, d
  <2>3. Holds(d, [m0 EXCEPT ![First] = t], none)
    BY <2>1, <2>2, Replace
  <2> QED BY <1>13, <1>14, <2>3 DEF none, d
<1>16. STypes
  BY <1>13, SpaceAssumption DEF STypes
<1>17. MapsTo(page, ToSet(TableOf(cur)))
  <2> DEFINE none == [v \in VPages |-> Unmapped]
  <2>1. MapsTo(none, {})
    BY DEF MapsTo
  <2> HIDE DEF none
  <2>2. MapsTo(Map(none, t), {} \cup ToSet(t))
    BY <1>6, <2>1, MapCall
  <2>3. TableOf(cur) = t /\ {} \cup ToSet(t) = ToSet(t)
    BY <1>13, SpaceAssumption DEF TableOf
  <2> QED BY <1>13, <2>2, <2>3 DEF none
<1>18. LentIn(frames, mem)
  <2>1. \A u \in Space : \A y \in ToSet(mem[u]) : y.allocated
    <3>1. ToSet(t) = {e}
      BY DEF t, ToSet
    <3> QED BY <1>6, <1>7, <1>13, <3>1 DEF NoTable
  <2> QED BY <2>1 DEF LentIn
<1> QED BY <1>15, <1>16, <1>17, <1>18 DEF SInv

(* Every entry, allocated or lent, lies in one block of a program.           *)
LEMMA InsideOf ==
  ASSUME SInv, NEW u \in Space, NEW y \in ToSet(mem[u])
  PROVE  /\ y \in Entry /\ y.phys \in Frames /\ y.size > 0
         /\ frames[y.phys] \in Blocks(mem) /\ Inside(frames, y, frames[y.phys])
         /\ u \in alive
         /\ ~ y.allocated => y \in Lent
<1>1. y \in Entry /\ (y.allocated => y \in Mine(mem[u]))
  BY TablesOf, MineIs
<1>2. y.phys \in Nat /\ y.size \in Nat /\ y.size > 0 /\ y.phys \in Frames
  BY <1>1, Numbers DEF Entry
<1>3. y.phys \in y.phys..(y.phys + y.size - 1)
  BY <1>2
<1>4. u \in alive
  BY EmptyTable DEF SInv, STypes, NoTable
<1>5. ~ y.allocated => y \in Lent
  BY <1>4 DEF Lent, Entries, Tables
<1>6. \E a \in Blocks(mem) : Inside(frames, y, a)
  <2>1. CASE y.allocated
    <3>1. y.phys \in Blocks(mem)
      BY <1>1, <2>1 DEF Blocks, Phys
    <3>2. Covers(frames, y.phys, y.size)
      BY <1>1, <2>1 DEF SInv, Holds
    <3> QED BY <3>1, <3>2 DEF Covers, Inside
  <2>2. CASE ~ y.allocated
    BY <2>2 DEF SInv, LentIn
  <2> QED BY <2>1, <2>2
<1>7. PICK a \in Blocks(mem) : Inside(frames, y, a)
  BY <1>6
<1>8. frames[y.phys] = a
  BY <1>3, <1>7 DEF Inside
<1> QED BY <1>1, <1>2, <1>4, <1>5, <1>7, <1>8

LEMMA SafeOf ==
  ASSUME SInv, NEW u \in Space, NEW y \in ToSet(mem[u]), NEW d,
         \A i \in Frames : frames[i] = frames[y.phys] => d[i] = frames[i]
  PROVE  Safe(frames, d, mem, y)
<1>1. frames[y.phys] \in Blocks(mem) /\ Inside(frames, y, frames[y.phys])
  BY InsideOf
<1> QED BY <1>1 DEF Safe

(* The blocks of the programs are kept and nothing is lent.                  *)
LEMMA SafeMore ==
  ASSUME SInv, NEW s \in Space, NEW t, NEW d, Keeps(frames, d, Blocks(mem)),
         \A y \in ToSet(t) : y.allocated \/ \E u \in Space : y \in ToSet(mem[u])
  PROVE  SafeLent(frames, mem, d, [mem EXCEPT ![s] = t])
<1> SUFFICES ASSUME NEW w \in Space, NEW y \in ToSet([mem EXCEPT ![s] = t][w]), ~ y.allocated
             PROVE  Safe(frames, d, mem, y)
  BY DEF SafeLent
<1>1. PICK u \in Space : y \in ToSet(mem[u])
  <2>1. DOMAIN mem = Space
    BY TablesOf
  <2> QED BY <2>1
<1>2. frames[y.phys] \in Blocks(mem)
  BY <1>1, InsideOf
<1>3. \A i \in Frames : frames[i] = frames[y.phys] => d[i] = frames[i]
  BY <1>2 DEF Keeps
<1> QED BY <1>1, <1>3, SafeOf

(* A table goes, whose memory is not lent to others.                         *)
LEMMA SafeDropped ==
  ASSUME SInv, NEW s \in Space, ~ GivesBackLent(s), NEW t, \A y \in ToSet(t) : y.allocated,
         NEW d, Keeps(frames, d, Others(mem, kernel, s))
  PROVE  SafeLent(frames, mem, d, [mem EXCEPT ![s] = t])
<1> SUFFICES ASSUME NEW w \in Space, NEW y \in ToSet([mem EXCEPT ![s] = t][w]), ~ y.allocated
             PROVE  Safe(frames, d, mem, y)
  BY DEF SafeLent
<1>1. w # s /\ y \in ToSet(mem[w])
  <2>1. DOMAIN mem = Space
    BY TablesOf
  <2> QED BY <2>1
<1> DEFINE a == frames[y.phys]
<1>2. a \in Blocks(mem) /\ w \in alive /\ y.phys \in Frames
  BY <1>1, InsideOf
<1>3. \A e \in Mine(mem[s]) : y.phys \notin M!Block(frames, e.phys)
  BY <1>1, <1>2 DEF GivesBackLent, Mine
<1>4. a \notin Phys(Mine(mem[s]))
  <2>1. \A e \in Mine(mem[s]) : e.phys \in Frames
    BY InsideOf DEF Mine, Allocated
  <2>2. Table(frames, All(mem, kernel))
    BY DEF SInv, Holds
  <2>3. \A e \in Mine(mem[s]) : a # e.phys
    BY <1>2, <1>3, <2>1, <2>2, BlockClusters
  <2> QED BY <2>3 DEF Phys
<1>5. a \in Others(mem, kernel, s)
  <2>1. a \in All(mem, kernel)
    BY <1>2 DEF All
  <2> QED BY <1>4, <2>1, AllOf
<1>6. \A i \in Frames : frames[i] = a => d[i] = frames[i]
  BY <1>5 DEF Keeps
<1> QED BY <1>1, <1>6, SafeOf

(* An entry is resized, and if it is of a call nothing is freed or moved.    *)
LEMMA SafeResized ==
  ASSUME SInv, NEW s \in Space, NEW i \in 1..Len(mem[s]), NEW e, NEW c,
         Resizes(frames, mem[s], Others(mem, kernel, s), i, e, c),
         NEW d, d = CleanClusters(c, [mem[s] EXCEPT ![i] = e]),
         ~ (OfACall(mem[s][i]) /\ d # frames),
         mem[s][i].allocated \/ e.size = 0 \/ Inside(frames, e, frames[mem[s][i].phys])
  PROVE  SafeLent(frames, mem, d, [mem EXCEPT ![s] = clean_mem([mem[s] EXCEPT ![i] = e])])
<1> DEFINE x == mem[s][i]
           O == Others(mem, kernel, s)
           t == clean_mem([mem[s] EXCEPT ![i] = e])
<1> SUFFICES ASSUME NEW w \in Space, NEW y \in ToSet([mem EXCEPT ![s] = t][w]), ~ y.allocated
             PROVE  Safe(frames, d, mem, y)
  BY DEF SafeLent
<1>1. /\ Keeps(frames, d, Stays(mem[s], O, i)) /\ (e.allocated <=> x.allocated) /\ e \in Slot
      /\ ToSet(mem[s]) = Rest(mem[s], i) \cup {x}
      /\ ToSet(t) = {z \in Rest(mem[s], i) \cup {e} : z.size > 0}
  BY DEF Resizes
<1> HIDE DEF t
<1>2. x \in ToSet(mem[s]) /\ DOMAIN mem = Space
  BY <1>1, TablesOf
<1> HIDE DEF x
<1>3. (y = e /\ e.size > 0) \/ \E u \in Space : y \in ToSet(mem[u])
  BY <1>1, <1>2
<1>4. ASSUME y = e, e.size > 0 PROVE Safe(frames, d, mem, y)
  <2>1. ~ x.allocated
    BY <1>1, <1>4
  <2>2. OfACall(x)
    BY <2>1 DEF OfACall
  <2>3. d = frames /\ Inside(frames, e, frames[x.phys])
    <3>1. e.size # 0
      BY <1>4
    <3> QED BY <2>1, <2>2, <3>1 DEF x
  <2>4. frames[x.phys] \in Blocks(mem)
    BY <1>2, InsideOf
  <2> QED BY <1>4, <2>3, <2>4 DEF Safe
<1>5. ASSUME NEW u \in Space, y \in ToSet(mem[u]) PROVE Safe(frames, d, mem, y)
  <2> DEFINE a == frames[y.phys]
  <2>1. CASE OfACall(x)
    BY <1>5, <2>1, SafeOf DEF x
  <2>2. CASE ~ OfACall(x)
    <3>1. x.allocated /\ y \in Lent /\ y.phys \in Frames /\ a \in Blocks(mem)
      BY <1>5, <2>2, InsideOf DEF OfACall
    <3>2. y.phys \notin M!Block(frames, x.phys)
      BY <2>2, <3>1 DEF OfACall
    <3>3. a # x.phys
      <4>1. Table(frames, All(mem, kernel)) /\ x.phys \in Frames
        BY <1>2, InsideOf DEF SInv, Holds
      <4> QED BY <3>1, <3>2, <4>1, BlockClusters
    <3>4. a \in Stays(mem[s], O, i)
      <4>1. a \in All(mem, kernel)
        BY <3>1 DEF All
      <4>2. a \in O \cup Phys(Mine(mem[s]))
        BY <4>1, AllOf
      <4> QED BY <3>1, <3>3, <4>2 DEF Stays, x
    <3> HIDE DEF O
    <3>5. \A j \in Frames : frames[j] = a => d[j] = frames[j]
      BY <1>1, <3>4 DEF Keeps
    <3> QED BY <1>5, <3>5, SafeOf
  <2> QED BY <2>1, <2>2
<1> QED BY <1>3, <1>4, <1>5

LEMMA KernelApart ==
  ASSUME SInv, NEW k, k \subseteq kernel
  PROVE  Phys(k) \cap Blocks(mem) = {}
<1>1. Phys(k) \subseteq Phys(kernel)
  BY DEF Phys
<1> QED BY <1>1 DEF SInv, Holds, Blocks

(* The steps that change one table, that of the running space.               *)
LEMMA OneTable ==
  ASSUME SInv, NEW s \in alive, NEW t, NEW d,
         Own(d, t, Others(mem, kernel, s)), Keeps(frames, d, Others(mem, kernel, s)),
         SafeLent(frames, mem, d, [mem EXCEPT ![s] = t]),
         frames' = d, mem' = [mem EXCEPT ![s] = t], kernel' = kernel, alive' = alive, cur' = cur,
         calls' = calls, cur = s, MapsTo(page', ToSet(t)),
         execing' \subseteq alive \X kernel, \A x, y \in execing' : x[2] = y[2] => x = y
  PROVE  SInv'
<1>0. s \in Space
  BY DEF SInv, STypes
<1>1. Holds(frames', mem', kernel')
  BY <1>0, Replace DEF SInv
<1>2. mem'[s] = t /\ \A u \in Space : u # s => mem'[u] = mem[u]
  BY <1>0, TablesOf
<1>3. STypes'
  BY <1>0, <1>2 DEF SInv, STypes
<1>4. TableOf(cur)' = t
  BY <1>0, <1>2 DEF TableOf
<1>5. MapsTo(page, ToSet(TableOf(cur)))'
  BY <1>4 DEF MapsTo, Unmapped, M!NULL
<1>6. LentIn(frames', mem')
  <2>1. Phys(kernel') \cap Blocks(mem) = {}
    BY KernelApart
  <2>2. Holds(frames, mem, kernel) /\ SafeLent(frames, mem, frames', mem')
    BY DEF SInv
  <2> QED BY <1>1, <2>1, <2>2, LentAfter
<1> QED BY <1>1, <1>3, <1>5, <1>6 DEF SInv

LEMMA AllocInv ==
  ASSUME SInv, NEW s \in Space, NEW k \in 1..MaxPages, SysAlloc(s, k)
  PROVE  SInv'
<1> DEFINE a == FirstFit(frames, k)
           e == [phys |-> a, virt |-> next_mem(mem[s]), size |-> k, writeable |-> TRUE,
                 allocated |-> TRUE]
           O == Others(mem, kernel, s)
<1>1. /\ a # Unmapped /\ Running(s) /\ frames' = M!Taken(frames, a, k)
      /\ mem' = [mem EXCEPT ![s] = Append(mem[s], e)] /\ page' = Map(page, <<e>>)
      /\ kernel' = kernel /\ alive' = alive /\ execing' = execing /\ cur' = cur /\ calls' = calls
  BY TablesOf DEF SysAlloc
<1>2. k \in Nat /\ a \in Frames /\ M!IsAlloc(frames, k, a)
  BY <1>1, FirstFitDefined, SpaceAssumption
<1> HIDE DEF a
<1>3. e \in Slot /\ e.phys = a /\ e.size = k /\ e.allocated
  BY <1>2, NextMem, TablesOf DEF Slot
<1> HIDE DEF e
<1>4. Own(M!Taken(frames, a, k), Append(mem[s], e), O) /\ Keeps(frames, M!Taken(frames, a, k), O)
  BY <1>2, <1>3, OwnMore, TablesOf
<1>5. cur = s /\ s \in alive /\ <<e>> \in Seq(Slot) /\ ToSet(<<e>>) = {e}
  BY <1>1, <1>3 DEF Running, ToSet
<1>8. ToSet(Append(mem[s], e)) = ToSet(mem[s]) \cup {e}
  BY <1>3, TablesOf, AppendOf
<1>6. MapsTo(page', ToSet(Append(mem[s], e)))
  <2>1. MapsTo(page, ToSet(mem[s]))
    BY <1>5, TablesOf DEF SInv
  <2>2. MapsTo(Map(page, <<e>>), ToSet(mem[s]) \cup ToSet(<<e>>))
    BY <1>5, <2>1, MapCall
  <2> QED BY <1>1, <1>5, <1>8, <2>2
<1>7. execing' \subseteq alive \X kernel /\ \A x, y \in execing' : x[2] = y[2] => x = y
  BY <1>1 DEF SInv, STypes
<1>9. SafeLent(frames, mem, M!Taken(frames, a, k), [mem EXCEPT ![s] = Append(mem[s], e)])
  <2>1. Table(frames, All(mem, kernel)) /\ Blocks(mem) \subseteq All(mem, kernel)
    BY DEF SInv, Holds, All
  <2>2. Keeps(frames, M!Taken(frames, a, k), Blocks(mem))
    BY <1>2, <2>1, TakenTable, KeepsFewer
  <2>3. \A y \in ToSet(Append(mem[s], e)) : y.allocated \/ \E u \in Space : y \in ToSet(mem[u])
    BY <1>3, <1>8
  <2> QED BY <2>2, <2>3, SafeMore
<1> QED BY <1>1, <1>4, <1>5, <1>6, <1>7, <1>9, OneTable

(* An entry that keeps its block and n of its clusters.                      *)
LEMMA OwnKept ==
  ASSUME NEW c, NEW t, NEW D, Own(c, t, D), NEW i \in 1..Len(t), NEW n \in Nat,
         t[i].allocated, n <= AllocSize(c, t[i].phys)
  PROVE  Resizes(c, t, D, i, [t[i] EXCEPT !.size = n], c)
<1> DEFINE a == t[i].phys
           B == D \cup Phys(Mine(t))
           A == B \ {a}
           e == [t[i] EXCEPT !.size = n]
           E == {a}
<1>1. t \in Seq(Entry) /\ Table(c, B) /\ t[i] \in Entry /\ t[i] \in Mine(t)
  BY MineIs DEF Own
<1>2. a \in B
  BY <1>1 DEF Phys
<1>3. e \in Slot /\ e.phys = a /\ e.size = n /\ e.allocated
  BY <1>1 DEF Slot, Entry
<1>4. A \cup E = B /\ E \subseteq {e.phys} /\ e.phys \notin A /\ e.phys \in E
  BY <1>2, <1>3
<1> HIDE DEF B, e, a
<1>5. AllocSize(c, a) \in Nat /\ Covers(c, a, AllocSize(c, a)) /\ a \in Nat
  BY <1>1, <1>2, AllocSizeDefined, Numbers DEF Table
<1>6. Covers(c, a, n)
  <2>1. \A j \in a..(a + n - 1) : j \in a..(a + AllocSize(c, a) - 1)
    BY <1>5 DEF a
  <2> QED BY <1>5, <2>1 DEF Covers
<1>7. Keeps(c, c, A)
  BY DEF Keeps
<1>8. Table(c, A \cup E)
  BY <1>1, <1>4
<1>9. A = (D \cup Phys(Mine(t))) \ {t[i].phys}
  BY DEF B, a
<1> HIDE DEF A, E
<1>10. Resizes(c, t, D, i, e, c)
  BY <1>3, <1>4, <1>6, <1>7, <1>8, <1>9, OwnResized
<1> QED BY <1>10 DEF e

LEMMA ResizedInv ==
  ASSUME SInv, NEW s \in Space, Running(s), NEW i \in 1..Len(mem[s]), NEW e, NEW c,
         Resized(s, i, e, c), Resizes(frames, mem[s], Others(mem, kernel, s), i, e, c),
         ~ misused',
         mem[s][i].allocated \/ e.size = 0 \/ Inside(frames, e, frames[mem[s][i].phys])
  PROVE  SInv'
<1> DEFINE x == mem[s][i]
           rest == Rest(mem[s], i)
           u == [mem[s] EXCEPT ![i] = e]
           O == Others(mem, kernel, s)
<1>0. /\ e \in Slot /\ Own(CleanClusters(c, u), clean_mem(u), O)
      /\ Keeps(frames, CleanClusters(c, u), O)
      /\ ToSet(mem[s]) = rest \cup {x}
      /\ ToSet(clean_mem(u)) = {y \in rest \cup {e} : y.size > 0}
  BY DEF Resizes
<1>1. /\ frames' = CleanClusters(c, u) /\ mem' = [mem EXCEPT ![s] = clean_mem(u)]
      /\ page' = Map(Unmap(page, <<x>>), <<e>>) /\ ~ (OfACall(x) /\ frames' # frames)
      /\ kernel' = kernel /\ alive' = alive /\ execing' = execing /\ cur' = cur /\ calls' = calls
  BY DEF Resized
<1>2. cur = s /\ s \in alive
  BY DEF Running
<1>12. SafeLent(frames, mem, CleanClusters(c, u), [mem EXCEPT ![s] = clean_mem(u)])
  BY <1>1, SafeResized
<1> HIDE DEF u
<1>3. x \in Slot /\ <<x>> \in Seq(Slot) /\ <<e>> \in Seq(Slot)
  BY <1>0, TablesOf, EntriesAreSlots
<1>4. ToSet(<<x>>) = {x} /\ ToSet(<<e>>) = {e}
  BY DEF ToSet
<1>5. MapsTo(page, ToSet(mem[s])) /\ ToSet(mem[s]) \subseteq Slot
  BY <1>2, TablesOf, ToSetOf DEF SInv
<1> HIDE DEF x
<1>6. MapsTo(Unmap(page, <<x>>), rest)
  <2>1. MapsTo(Unmap(page, <<x>>), ToSet(mem[s]) \ {x})
    BY <1>3, <1>4, <1>5, Unmaps
  <2>2. ToSet(mem[s]) \ {x} \subseteq rest
    BY <1>0
  <2> QED BY <2>1, <2>2, MapsMore
<1> HIDE DEF rest
<1>7. MapsTo(page', rest \cup {e})
  BY <1>1, <1>3, <1>4, <1>6, MapCall
<1>8. rest \cup {e} \subseteq Slot
  BY <1>0, <1>5
<1>9. MapsTo(page', {y \in rest \cup {e} : y.size > 0})
  BY <1>7, <1>8, MapsWithPages
<1>10. MapsTo(page', ToSet(clean_mem(u)))
  BY <1>0, <1>9
<1>11. execing' \subseteq alive \X kernel /\ \A y, z \in execing' : y[2] = z[2] => y = z
  BY <1>1 DEF SInv, STypes
<1> QED BY <1>0, <1>1, <1>2, <1>10, <1>11, <1>12, OneTable

(* Of a page of a block, alloc_size is the size of the block or nothing.     *)
LEMMA LentSize ==
  ASSUME NEW c, NEW D, Table(c, D), NEW a \in Frames, c[a] \in D
  PROVE  /\ AllocSize(c, a) \in Nat
         /\ \A n \in Nat : n <= AllocSize(c, a) =>
              \A p \in a..(a + n - 1) : p \in Frames /\ c[p] = c[a]
<1> DEFINE S == AllocSize(c, a)
<1>0. a \in Nat
  BY Numbers
<1>1. CASE c[a] = a
  <2>1. S \in Nat /\ Covers(c, a, S)
    BY <1>1, AllocSizeDefined
  <2> HIDE DEF S
  <2> QED BY <1>0, <1>1, <2>1 DEF Covers, S
<1>2. CASE c[a] # a
  <2>1. M!Block(c, a) = {}
    <3>1. \A i \in M!Block(c, a) : a \in a..i /\ c[a] = a
      BY <1>0, Numbers DEF M!Block
    <3> QED BY <1>2, <3>1
  <2>2. 0 \in 0..PageCount /\ M!IsAllocSize(c, a, 0)
    <3>1. a..(a + 0 - 1) = {}
      BY <1>0
    <3> QED BY <2>1, <3>1, Numbers DEF M!IsAllocSize
  <2>3. ASSUME NEW n \in 0..PageCount, M!IsAllocSize(c, a, n) PROVE n = 0
    <3>1. a..(a + n - 1) = {}
      BY <2>1, <2>3 DEF M!IsAllocSize
    <3>2. n \in Nat /\ (n > 0 => a \in a..(a + n - 1))
      BY <1>0, <2>3, Numbers
    <3> QED BY <3>1, <3>2
  <2>4. S = 0
    BY <2>2, <2>3 DEF AllocSize
  <2> HIDE DEF S
  <2>5. \A n \in Nat : n <= 0 => a..(a + n - 1) = {}
    BY <1>0
  <2> QED BY <2>4, <2>5 DEF S
<1> QED BY <1>1, <1>2

(* realloc of memory in use that is not moved or freed.                      *)
LEMMA ReallocLent ==
  ASSUME NEW c, NEW D, Table(c, D), NEW a \in Frames, c[a] \in D, NEW k \in Nat,
         NEW r \in Frames \cup {Unmapped}, c \in ReallocTables(c, a, k, r)
  PROVE  r = Unmapped \/ (r = a /\ \A p \in a..(a + k - 1) : p \in Frames /\ c[p] = c[a])
<1>0. a \in Nat /\ a # M!NULL /\ c[a] # M!FREE /\ c[a] \in Nat
  BY Numbers DEF Table
<1>1. M!IsRealloc(c, a, k, r, c)
  BY DEF ReallocTables
<1> SUFFICES ASSUME r # Unmapped
             PROVE  r = a /\ \A p \in a..(a + k - 1) : p \in Frames /\ c[p] = c[a]
  OBVIOUS
<1>2. PICK n \in 0..PageCount :
        /\ k > 0 /\ M!IsAllocSize(c, a, n)
        /\ \/ k <= n /\ r = a
           \/ k > n /\ M!IsAlloc(c, k, r) /\ c = M!Unalloc(M!Taken(c, r, k), a)
  BY <1>0, <1>1, Numbers DEF M!IsRealloc
<1>3. CASE k <= n /\ r = a
  <2>1. M!Block(c, a) = a..(a + n - 1) /\ n \in Nat
    BY <1>2 DEF M!IsAllocSize
  <2>2. \A p \in a..(a + k - 1) : p \in a..(a + n - 1)
    BY <1>0, <1>3, <2>1
  <2>3. \A p \in a..(a + k - 1) : p \in M!Block(c, a)
    BY <2>1, <2>2
  <2>4. \A p \in M!Block(c, a) : p \in Frames /\ c[p] = a
    <3>1. \A p \in M!Block(c, a) : p \in Frames /\ p \in a..p /\ \A q \in a..p : c[q] = a
      BY <1>0, Numbers DEF M!Block
    <3> QED BY <3>1
  <2>5. a \in a..(a + k - 1)
    BY <1>0, <1>2
  <2> QED BY <1>3, <2>3, <2>4, <2>5
<1>4. CASE k > n /\ M!IsAlloc(c, k, r) /\ c = M!Unalloc(M!Taken(c, r, k), a)
  <2> DEFINE d == M!Taken(c, r, k)
  <2>1. r \in Frames /\ r \in Nat /\ r \in r..(r + k - 1) /\ c[r] = M!FREE /\ r # M!NULL
    BY <1>2, <1>4, Numbers DEF M!IsAlloc, M!Fits
  <2>2. d[r] = r
    BY <2>1, Numbers DEF M!Taken
  <2>3. r # a
    BY <1>0, <2>1
  <2>4. r \notin M!Block(d, a)
    <3>1. \A q \in M!Block(d, a) : q \in a..q /\ d[q] = a
      BY <1>0, Numbers DEF M!Block
    <3> QED BY <2>2, <2>3, <3>1
  <2> HIDE DEF d
  <2>5. M!Unalloc(d, a)[r] = d[r]
    BY <2>1, <2>4, Numbers DEF M!Unalloc
  <2>6. c = M!Unalloc(d, a)
    BY <1>4 DEF d
  <2> QED BY <2>1, <2>2, <2>5, <2>6, Numbers
<1> QED BY <1>2, <1>3, <1>4

(* Nothing of a table is freed when an entry that is lent is resized.        *)
LEMMA CleanedLent ==
  ASSUME NEW t \in Seq(Entry), Distinct(t), NEW i \in 1..Len(t), NEW e \in Slot,
         ~ t[i].allocated, ~ e.allocated, NEW d \in [Frames -> Int]
  PROVE  CleanClusters(d, [t EXCEPT ![i] = e]) = d
<1> DEFINE u == [t EXCEPT ![i] = e]
<1>1. t[i] \in Entry /\ t[i].allocated \in BOOLEAN /\ e.allocated \in BOOLEAN
  BY MineIs DEF Slot
<1>2. e.allocated <=> t[i].allocated
  BY <1>1
<1>7. e.allocated => \A x \in Allocated(Rest(t, i)) : x.phys # e.phys
  OBVIOUS
<1> DEFINE v == [t EXCEPT ![i] = e]
<1>8. ToSet(v) = Rest(t, i) \cup {e} /\ ToSet(t) = Rest(t, i) \cup {t[i]}
  BY <1>2, <1>7, Replaced
<1>3. ToSet(u) = Rest(t, i) \cup {e} /\ ToSet(t) = Rest(t, i) \cup {t[i]}
  BY <1>8
<1> HIDE DEF u, v
<1>4. \A x \in Rest(t, i) : x.size > 0 /\ x.size # 0
  <2>1. \A k \in 1..Len(t) : t[k].size > 0 /\ t[k] \in Entry
    BY MineIs
  <2> QED BY <2>1 DEF Rest, Entry
<1>5. Allocated({x \in ToSet(u) : x.size = 0}) = {}
  BY <1>3, <1>4 DEF Allocated
<1>6. CleanClusters(d, u) = [j \in Frames |-> d[j]]
  <2> DEFINE dead == {x \in ToSet(u) : x.size = 0}
  <2> HIDE DEF dead
  <2>1. Dropped(d, dead) = [j \in Frames |-> d[j]]
    BY <1>5, Numbers DEF Dropped, dead
  <2> QED BY <2>1 DEF CleanClusters, dead
<1> QED BY <1>6 DEF u

LEMMA ReallocInv ==
  ASSUME SInv, NEW s \in Space, NEW i, NEW k \in Nat, SysRealloc(s, i, k), ~ misused'
  PROVE  SInv'
<1> DEFINE x == mem[s][i]
           O == Others(mem, kernel, s)
           e(r) == Moved(x, r, k)
<1>1. Running(s) /\ i \in 1..Len(mem[s])
  BY TablesOf DEF SysRealloc
<1>2. PICK r \in Frames \cup {Unmapped} :
        \E c \in ReallocTables(frames, mem[s][i].phys, k, r) :
          Resized(s, i, Moved(mem[s][i], r, k), c)
  BY DEF SysRealloc, Frames
<1>5. PICK c \in ReallocTables(frames, mem[s][i].phys, k, r) :
        Resized(s, i, Moved(mem[s][i], r, k), c)
  BY <1>2
<1>3. CASE x.allocated
  <2>1. Resizes(frames, mem[s], O, i, e(r), c)
    BY <1>1, <1>3, TablesOf, OwnRealloc
  <2> HIDE DEF e
  <2> QED BY <1>1, <1>3, <1>5, <2>1, ResizedInv DEF e
<1>4. CASE ~ x.allocated
  <2> DEFINE f == e(r)
             u == [mem[s] EXCEPT ![i] = f]
  <2>1. /\ x \in ToSet(mem[s]) /\ x \in Entry /\ x.phys \in Frames
        /\ frames[x.phys] \in Blocks(mem)
    BY <1>1, TablesOf, MineIs, InsideOf
  <2>2. f \in Slot /\ ~ f.allocated /\ f.phys = (IF r = Unmapped THEN x.phys ELSE r)
        /\ f.size = (IF r = Unmapped THEN 0 ELSE k)
    BY <1>4, <2>1 DEF Moved, Slot, Entry
  <2>3. mem[s] \in Seq(Entry) /\ Distinct(mem[s]) /\ Own(frames, mem[s], O)
    BY TablesOf DEF Own
  <2>4. c \in [Frames -> Int]
    <3>1. Table(frames, All(mem, kernel))
      BY DEF SInv, Holds
    <3>2. frames \in [Frames -> Int] /\ r \in Int
      BY <3>1, Numbers DEF Table
    <3>3. M!Taken(frames, r, k) \in [Frames -> Int]
      BY <3>2, Numbers DEF M!Taken
    <3>4. \A z \in [Frames -> Int] : M!Unalloc(z, x.phys) \in [Frames -> Int]
      BY Numbers DEF M!Unalloc
    <3> QED BY <3>2, <3>3, <3>4 DEF ReallocTables
  <2>5. frames' = CleanClusters(c, u) /\ ~ (OfACall(x) /\ frames' # frames)
    BY <1>5 DEF Resized
  <2> HIDE DEF f, e
  <2>6. CleanClusters(c, u) = c
    BY <1>1, <1>4, <2>2, <2>3, <2>4, CleanedLent
  <2>7. c = frames
    BY <1>4, <2>5, <2>6 DEF OfACall
  <2>8. Resizes(frames, mem[s], O, i, f, frames)
    BY <1>1, <1>4, <2>2, <2>3, OwnLent
  <2>9. f.size = 0 \/ Inside(frames, f, frames[x.phys])
    <3>1. Table(frames, All(mem, kernel)) /\ frames[x.phys] \in All(mem, kernel)
      BY <2>1 DEF SInv, Holds, All
    <3>2. frames \in ReallocTables(frames, x.phys, k, r)
      BY <1>5, <2>7
    <3>3. r = Unmapped \/ (r = x.phys /\ \A p \in x.phys..(x.phys + k - 1) :
                                           p \in Frames /\ frames[p] = frames[x.phys])
      BY <2>1, <3>1, <3>2, ReallocLent
    <3> QED BY <2>2, <3>3 DEF Inside
  <2> QED BY <1>1, <1>5, <2>7, <2>8, <2>9, ResizedInv DEF f, e
<1> QED BY <1>3, <1>4

(* An entry keeps n pages of what is there.                                  *)
LEMMA KeepsPages ==
  ASSUME SInv, NEW s \in Space, NEW i \in 1..Len(mem[s]), NEW n \in Nat,
         n <= AllocSize(frames, mem[s][i].phys)
  PROVE  LET e == [mem[s][i] EXCEPT !.size = n] IN
           /\ Resizes(frames, mem[s], Others(mem, kernel, s), i, e, frames)
           /\ mem[s][i].allocated \/ e.size = 0 \/ Inside(frames, e, frames[mem[s][i].phys])
<1> DEFINE x == mem[s][i]
           e == [x EXCEPT !.size = n]
<1>1. x \in Entry /\ x.phys \in Frames /\ frames[x.phys] \in Blocks(mem)
  BY TablesOf, MineIs, InsideOf
<1>2. e \in Slot /\ e.phys = x.phys /\ e.size = n /\ (e.allocated <=> x.allocated)
  BY <1>1 DEF Entry, Slot
<1>3. CASE x.allocated
  BY <1>3, TablesOf, OwnKept
<1>4. CASE ~ x.allocated
  <2>1. Resizes(frames, mem[s], Others(mem, kernel, s), i, e, frames)
    <3>1. ~ e.allocated
      BY <1>2, <1>4
    <3> HIDE DEF e
    <3> QED BY <1>2, <1>4, <3>1, TablesOf, OwnLent
  <2>2. Inside(frames, e, frames[x.phys])
    <3>1. Table(frames, All(mem, kernel)) /\ frames[x.phys] \in All(mem, kernel)
      BY <1>1 DEF SInv, Holds, All
    <3>2. \A p \in x.phys..(x.phys + n - 1) : p \in Frames /\ frames[p] = frames[x.phys]
      BY <1>1, <3>1, LentSize
    <3> QED BY <1>2, <3>2 DEF Inside
  <2> QED BY <2>1, <2>2
<1> QED BY <1>3, <1>4

LEMMA KeptInv ==
  ASSUME SInv, NEW s \in Space, Running(s), NEW i \in 1..Len(mem[s]), NEW n \in Nat,
         n <= AllocSize(frames, mem[s][i].phys),
         Resized(s, i, [mem[s][i] EXCEPT !.size = n], frames), ~ misused'
  PROVE  SInv'
<1> DEFINE e == [mem[s][i] EXCEPT !.size = n]
<1>1. /\ Resizes(frames, mem[s], Others(mem, kernel, s), i, e, frames)
      /\ mem[s][i].allocated \/ e.size = 0 \/ Inside(frames, e, frames[mem[s][i].phys])
  BY KeepsPages
<1>2. Resized(s, i, e, frames)
  OBVIOUS
<1> HIDE DEF e
<1> QED BY <1>1, <1>2, ResizedInv

LEMMA SizeOfEntry ==
  ASSUME SInv, NEW s \in Space, NEW i \in 1..Len(mem[s])
  PROVE  AllocSize(frames, mem[s][i].phys) \in Nat
<1>1. mem[s][i].phys \in Frames /\ frames[mem[s][i].phys] \in Blocks(mem)
  BY TablesOf, MineIs, InsideOf
<1>2. Table(frames, All(mem, kernel)) /\ frames[mem[s][i].phys] \in All(mem, kernel)
  BY <1>1 DEF SInv, Holds, All
<1> QED BY <1>1, <1>2, LentSize

LEMMA InplaceInv ==
  ASSUME SInv, NEW s \in Space, NEW i, NEW k \in Nat, SysReallocInplace(s, i, k), ~ misused'
  PROVE  SInv'
<1> DEFINE a == AllocSize(frames, mem[s][i].phys)
           n == Min({k, a})
<1>1. Running(s) /\ i \in 1..Len(mem[s]) /\ Resized(s, i, [mem[s][i] EXCEPT !.size = n], frames)
  BY TablesOf DEF SysReallocInplace
<1>2. a \in Nat
  BY <1>1, SizeOfEntry
<1> HIDE DEF a
<1>3. n \in Nat /\ n <= a
  <2>1. \E x \in {k, a} : \A y \in {k, a} : x <= y
    BY <1>2
  <2>2. n \in {k, a} /\ \A y \in {k, a} : n <= y
    BY <2>1 DEF Min
  <2> QED BY <1>2, <2>2
<1> HIDE DEF n
<1> QED BY <1>1, <1>3, KeptInv DEF a

LEMMA UnallocInv ==
  ASSUME SInv, NEW s \in Space, NEW i, SysUnalloc(s, i), ~ misused'
  PROVE  SInv'
<1>1. Running(s) /\ i \in 1..Len(mem[s]) /\ Resized(s, i, [mem[s][i] EXCEPT !.size = 0], frames)
  BY TablesOf DEF SysUnalloc
<1>2. 0 \in Nat /\ 0 <= AllocSize(frames, mem[s][i].phys)
  BY <1>1, SizeOfEntry
<1> QED BY <1>1, <1>2, KeptInv

(* The end of brk: everything is mapped again.                               *)
LEMMA RemappedInv ==
  ASSUME SInv, NEW s \in Space, Running(s), NEW c, NEW u,
         Own(CleanClusters(c, u), clean_mem(u), Others(mem, kernel, s)),
         Keeps(frames, CleanClusters(c, u), Others(mem, kernel, s)),
         SafeLent(frames, mem, CleanClusters(c, u), [mem EXCEPT ![s] = clean_mem(u)]),
         frames' = CleanClusters(c, u), mem' = [mem EXCEPT ![s] = clean_mem(u)],
         page' = Map(Unmap(page, mem[s]), clean_mem(u)),
         UNCHANGED <<kernel, alive, execing, cur, calls>>
  PROVE  SInv'
<1>1. cur = s /\ s \in alive
  BY DEF Running
<1>2. MapsTo(page, ToSet(mem[s])) /\ mem[s] \in Seq(Slot) /\ clean_mem(u) \in Seq(Slot)
  BY <1>1, TablesOf, EntriesAreSlots DEF SInv, Own
<1>3. MapsTo(Unmap(page, mem[s]), {})
  <2>1. ToSet(mem[s]) \ ToSet(mem[s]) = {}
    OBVIOUS
  <2>2. MapsTo(Unmap(page, mem[s]), ToSet(mem[s]) \ ToSet(mem[s]))
    BY <1>2, Unmaps
  <2> QED BY <2>1, <2>2
<1>4. MapsTo(page', ToSet(clean_mem(u)))
  <2>1. {} \cup ToSet(clean_mem(u)) = ToSet(clean_mem(u))
    OBVIOUS
  <2>2. MapsTo(page', {} \cup ToSet(clean_mem(u)))
    BY <1>2, <1>3, MapCall
  <2> QED BY <2>1, <2>2
<1>5. execing' \subseteq alive \X kernel /\ \A y, z \in execing' : y[2] = z[2] => y = z
  BY DEF SInv, STypes
<1> QED BY <1>1, <1>4, <1>5, OneTable

(* A table in which nothing is empty is cleaned.                             *)
LEMMA CleanedSame ==
  ASSUME SInv, NEW s \in Space
  PROVE  LET t == mem[s]
             O == Others(mem, kernel, s)
             d == CleanClusters(frames, t)
         IN  /\ Own(d, clean_mem(t), O) /\ Keeps(frames, d, O)
             /\ SafeLent(frames, mem, d, [mem EXCEPT ![s] = clean_mem(t)])
<1> DEFINE t == mem[s]
           O == Others(mem, kernel, s)
           d == CleanClusters(frames, t)
           E == Phys(Mine(t))
<1>2. t \in Seq(Entry) /\ t \in Seq(Slot) /\ Own(frames, t, O)
  BY TablesOf
<1>3. /\ Distinct(t) /\ E \cap O = {} /\ Table(frames, O \cup E)
      /\ \A e \in Mine(t) : e.size > 0 /\ e.phys \in E /\ Covers(frames, e.phys, e.size)
  BY <1>2, MineIs DEF Own
<1>4. Blocks(mem) \subseteq O \cup E
  BY AllOf DEF All
<1>5. Phys({e \in Mine(t) : e.size > 0}) = E
  BY <1>3 DEF Phys
<1>6. ToSet(clean_mem(t)) \subseteq ToSet(t)
  BY <1>2, <1>3, Cleaned
<1> DEFINE F == E
<1>7. Phys(Mine(t)) \cap O = {} /\ F \subseteq Phys(Mine(t)) /\ F = E
  BY <1>3
<1> HIDE DEF O, t, E, F
<1>8. Own(d, clean_mem(t), O) /\ Keeps(frames, d, O) /\ Keeps(frames, d, O \cup E)
  BY <1>2, <1>3, <1>5, <1>7, OwnCleaned
<1> HIDE DEF d
<1>9. Keeps(frames, d, Blocks(mem))
  BY <1>4, <1>8, KeepsFewer
<1>10. \A y \in ToSet(clean_mem(t)) : y.allocated \/ \E u \in Space : y \in ToSet(mem[u])
  BY <1>6 DEF t
<1>11. SafeLent(frames, mem, d, [mem EXCEPT ![s] = clean_mem(t)])
  BY <1>9, <1>10, SafeMore
<1> QED BY <1>8, <1>11 DEF d, O, t

LEMMA BrkInv ==
  ASSUME SInv, NEW s \in Space, NEW addr \in VPages, SysBrk(s, addr), ~ misused'
  PROVE  SInv'
<1> DEFINE O == Others(mem, kernel, s)
           t == mem[s]
           i == Len(t)
<1>1. Running(s) /\ UNCHANGED <<kernel, alive, execing, cur, calls>>
  BY DEF SysBrk
<1>2. t \in Seq(Entry) /\ t \in Seq(Slot) /\ Own(frames, t, O) /\ i \in Nat
  BY TablesOf
<1>3. CASE ~ BrkAllowed(t, addr)
  <2>1. /\ frames' = CleanClusters(frames, t) /\ mem' = [mem EXCEPT ![s] = clean_mem(t)]
        /\ page' = Map(Unmap(page, t), clean_mem(t))
    BY <1>3 DEF SysBrk
  <2>2. /\ Own(CleanClusters(frames, t), clean_mem(t), O) /\ Keeps(frames, CleanClusters(frames, t), O)
        /\ SafeLent(frames, mem, CleanClusters(frames, t), [mem EXCEPT ![s] = clean_mem(t)])
    BY CleanedSame
  <2> QED BY <1>1, <2>1, <2>2, RemappedInv
<1>4. CASE BrkAllowed(t, addr)
  <2> DEFINE k == addr - t[i].virt
             U(r) == [t EXCEPT ![i] = Moved(t[i], r, k)]
  <2>1. i \in 1..Len(t) /\ t[i] \in Entry /\ Last(t) = t[i] /\ t[i].allocated
    BY <1>2, <1>4 DEF BrkAllowed, Last
  <2>2. k \in Nat
    <3>1. t[i].virt \in Nat /\ addr \in Nat /\ addr >= t[i].virt
      BY <1>4, <2>1, SpaceAssumption DEF BrkAllowed, Entry, VPages
    <3> QED BY <3>1
  <2>5. PICK r \in Frames \cup {Unmapped} :
          \E c \in ReallocTables(frames, t[i].phys, k, r) :
            /\ frames' = CleanClusters(c, U(r))
            /\ mem' = [mem EXCEPT ![s] = clean_mem(U(r))]
            /\ page' = Map(Unmap(page, t), clean_mem(U(r)))
            /\ ~ (OfACall(t[i]) /\ frames' # frames)
    BY <1>4, <2>1 DEF SysBrk, Frames
  <2>3. PICK c \in ReallocTables(frames, t[i].phys, k, r) :
          /\ frames' = CleanClusters(c, U(r))
          /\ mem' = [mem EXCEPT ![s] = clean_mem(U(r))]
          /\ page' = Map(Unmap(page, t), clean_mem(U(r)))
          /\ ~ (OfACall(t[i]) /\ frames' # frames)
    BY <2>5
  <2> HIDE DEF k, i, O, t
  <2>6. Resizes(frames, t, O, i, Moved(t[i], r, k), c)
    BY <1>2, <2>1, <2>2, OwnRealloc
  <2>4. /\ Own(CleanClusters(c, U(r)), clean_mem(U(r)), O)
        /\ Keeps(frames, CleanClusters(c, U(r)), O)
    BY <2>6 DEF Resizes
  <2>7. SafeLent(frames, mem, CleanClusters(c, U(r)), [mem EXCEPT ![s] = clean_mem(U(r))])
    <3> DEFINE e == Moved(t[i], r, k)
    <3>1. i \in 1..Len(mem[s]) /\ mem[s][i].allocated
      BY <2>1 DEF t
    <3>2. Resizes(frames, mem[s], Others(mem, kernel, s), i, e, c)
      BY <2>6 DEF t, O
    <3>3. ~ (OfACall(mem[s][i]) /\ CleanClusters(c, [mem[s] EXCEPT ![i] = e]) # frames)
      BY <2>3 DEF t
    <3> HIDE DEF e
    <3>4. SafeLent(frames, mem, CleanClusters(c, [mem[s] EXCEPT ![i] = e]),
                   [mem EXCEPT ![s] = clean_mem([mem[s] EXCEPT ![i] = e])])
      BY <3>1, <3>2, <3>3, SafeResized
    <3> QED BY <3>4 DEF t, e
  <2> HIDE DEF U
  <2> QED BY <1>1, <2>3, <2>4, <2>7, RemappedInv DEF O, t
<1> QED BY <1>3, <1>4

(* The steps that leave the running program's table alone.                   *)
LEMMA SameMapping ==
  ASSUME SInv, cur' = cur, page' = page, NEW s, NEW t, mem' = [mem EXCEPT ![s] = t], s # cur
  PROVE  MapsTo(page, ToSet(TableOf(cur)))'
<1>1. TableOf(cur)' = TableOf(cur)
  BY DEF TableOf, SInv, Holds
<1> QED BY <1>1 DEF SInv, MapsTo, Unmapped, M!NULL

LEMMA SwitchInv ==
  ASSUME SInv, NEW s \in Space \cup {Kernel}, SwitchSpace(s)
  PROVE  SInv'
<1>1. /\ s \in alive \cup {Kernel} /\ cur' = s
      /\ page' = Map(Unmap(page, TableOf(cur)), TableOf(s))
      /\ UNCHANGED <<frames, mem, kernel, alive, execing, calls>>
  BY DEF SwitchSpace
<1>2. TableOf(s) \in Seq(Slot) /\ TableOf(cur) \in Seq(Slot)
  <2>1. TableOf(Kernel) = <<>> /\ <<>> \in Seq(Slot)
    BY TablesOf, SpaceAssumption
  <2>2. \A x \in Space : TableOf(x) \in Seq(Slot)
    BY TablesOf
  <2>3. cur \in Space \cup {Kernel}
    BY DEF SInv, STypes
  <2> QED BY <2>1, <2>2, <2>3
<1> DEFINE t == TableOf(s)
           u == TableOf(cur)
<1>3. MapsTo(page', ToSet(t))
  <2>1. ToSet(u) \ ToSet(u) = {} /\ {} \cup ToSet(t) = ToSet(t)
    OBVIOUS
  <2>2. MapsTo(page, ToSet(u))
    BY DEF SInv
  <2> HIDE DEF t, u
  <2>3. MapsTo(Unmap(page, u), ToSet(u) \ ToSet(u))
    BY <1>2, <2>2, Unmaps DEF u
  <2>4. MapsTo(Map(Unmap(page, u), t), {} \cup ToSet(t))
    BY <1>2, <2>1, <2>3, MapCall DEF t
  <2> QED BY <1>1, <2>1, <2>4 DEF t, u
<1>4. TableOf(cur)' = t
  BY <1>1 DEF TableOf
<1>5. MapsTo(page, ToSet(TableOf(cur)))'
  BY <1>3, <1>4 DEF MapsTo, Unmapped, M!NULL
<1>6. STypes' /\ Holds(frames, mem, kernel)' /\ LentIn(frames, mem)'
  BY <1>1 DEF SInv, STypes
<1> QED BY <1>5, <1>6 DEF SInv

LEMMA LentStays ==
  ASSUME SInv, Holds(frames', mem', kernel'), SafeLent(frames, mem, frames', mem'),
         Phys(kernel') \cap Blocks(mem) = {}
  PROVE  LentIn(frames', mem')
BY LentAfter DEF SInv

LEMMA OtherTable ==
  ASSUME SInv, NEW s \in alive, s # cur, NEW t, NEW d,
         Own(d, t, Others(mem, kernel, s)), Keeps(frames, d, Others(mem, kernel, s)),
         SafeLent(frames, mem, d, [mem EXCEPT ![s] = t]),
         frames' = d, mem' = [mem EXCEPT ![s] = t],
         UNCHANGED <<kernel, alive, execing, cur, page>>,
         \A c \in calls' : c.from \in Space /\ c.to \in alive /\ c.from # c.to
  PROVE  SInv'
<1>0. s \in Space
  BY DEF SInv, STypes
<1>1. Holds(frames', mem', kernel')
  BY <1>0, Replace DEF SInv
<1>2. \A u \in Space : u # s => mem'[u] = mem[u]
  BY <1>0, TablesOf
<1>3. STypes'
  BY <1>0, <1>2 DEF SInv, STypes
<1>4. MapsTo(page, ToSet(TableOf(cur)))'
  BY SameMapping
<1>5. Phys(kernel') \cap Blocks(mem) = {}
  BY KernelApart
<1>6. LentIn(frames', mem')
  BY <1>1, <1>5, LentStays
<1> QED BY <1>1, <1>3, <1>4, <1>6 DEF SInv

LEMMA CopyInv ==
  ASSUME SInv, NEW s \in Space, NEW t \in Space, CopySpace(s, t)
  PROVE  SInv'
<1> DEFINE new == Loaded(mem[s])
           O == Others(mem, kernel, t)
<1>1. /\ Running(s) /\ t \notin alive /\ frames' = new.frames
      /\ mem' = [mem EXCEPT ![t] = new.table] /\ alive' = alive \cup {t}
      /\ UNCHANGED <<kernel, execing, cur, page, calls>>
  BY DEF CopySpace
<1>2. Entry \subseteq Wish /\ mem[s] \in Seq(Entry) /\ mem[s] \in Seq(Wish)
  <2>1. Entry \subseteq Wish
    BY DEF Entry, Wish
  <2> QED BY <2>1, TablesOf
<1>10. mem[t] = <<>>
  BY <1>1 DEF SInv, STypes
<1>3. Own(frames, <<>>, O)
  BY <1>10, TablesOf
<1>4. /\ Own(new.frames, new.table, O) /\ Keeps(frames, new.frames, O)
      /\ \A x \in ToSet(new.table) : x.allocated
  BY <1>2, <1>3, LoadedOwn
<1> HIDE DEF new
<1>5. Holds(frames', mem', kernel')
  BY <1>1, <1>4, Replace DEF SInv
<1>6. t # cur
  BY <1>1 DEF Running
<1>7. MapsTo(page, ToSet(TableOf(cur)))'
  BY <1>1, <1>6, SameMapping
<1>8. STypes'
  BY <1>1, TablesOf DEF SInv, STypes
<1>9. LentIn(frames', mem')
  <2>1. Blocks(mem) \subseteq O
    <3>1. All(mem, kernel) = O \cup Phys(Mine(mem[t])) /\ Phys(Mine(mem[t])) = {}
      BY <1>10, AllOf, EmptyTable DEF NoTable
    <3> QED BY <3>1 DEF All
  <2>2. Keeps(frames, new.frames, Blocks(mem))
    BY <1>4, <2>1, KeepsFewer
  <2>3. SafeLent(frames, mem, frames', mem')
    BY <1>1, <1>4, <2>2, SafeMore
  <2>4. Phys(kernel') \cap Blocks(mem) = {}
    BY <1>1, KernelApart
  <2> QED BY <1>5, <2>3, <2>4, LentStays
<1> QED BY <1>5, <1>7, <1>8, <1>9 DEF SInv

LEMMA ExecInv ==
  ASSUME SInv, NEW s \in Space, NEW w \in Flags, NEW b \in kernel, ExecSpace(s, w, b), ~ misused'
  PROVE  SInv'
<1> DEFINE new == Loaded(Segments(w))
           t == mem[s]
           A == All(mem, kernel)
           O == Others(mem, kernel, s)
           d == Dropped(new.frames, ToSet(t))
<1>1. /\ Running(s) /\ b \notin Arguments /\ frames' = d
      /\ mem' = [mem EXCEPT ![s] = new.table]
      /\ page' = Map(Unmap(page, t), new.table)
      /\ execing' = execing \cup {<<s, b>>} /\ UNCHANGED <<kernel, alive, cur, calls>>
      /\ ~ GivesBackLent(s)
  BY DEF ExecSpace
<1>2. Segments(w) \in Seq(Wish)
  <2>1. DOMAIN w = 1..Len(w) /\ Len(w) \in Nat /\ \A i \in 1..Len(w) : w[i] \in BOOLEAN
    <3>1. CASE w = <<TRUE>>
      <4>1. Len(w) = 1 /\ DOMAIN w = 1..1 /\ w[1] \in BOOLEAN
        BY <3>1
      <4> QED BY <4>1
    <3>2. CASE w = <<FALSE, TRUE>>
      <4>1. Len(w) = 2 /\ DOMAIN w = 1..2 /\ w[1] \in BOOLEAN /\ w[2] \in BOOLEAN
        BY <3>2
      <4> QED BY <4>1
    <3> QED BY <3>1, <3>2 DEF Flags
  <2>2. \A i \in 1..Len(w) : [phys |-> Unmapped, virt |-> LoadPage + i - 1, size |-> 1,
                              writeable |-> w[i], allocated |-> TRUE] \in Wish
    BY <2>1, SpaceAssumption DEF Wish
  <2> QED BY <2>1, <2>2 DEF Segments
<1>3. Own(frames, <<>>, A)
  <2>1. Table(frames, A \cup {})
    BY DEF SInv, Holds
  <2> QED BY <2>1, EmptyTable DEF Own, NoTable
<1>4. /\ Own(new.frames, new.table, A) /\ Keeps(frames, new.frames, A)
      /\ \A x \in ToSet(new.table) : x.allocated
  BY <1>2, <1>3, LoadedOwn
<1>5. A = O \cup Phys(Mine(t)) /\ Phys(Mine(t)) \cap O = {} /\ t \in Seq(Slot)
  BY AllOf, TablesOf DEF Own
<1>6. \A e \in ToSet(t) : e.phys \in Frames
  BY <1>5, ToSetOf, EntryOf
<1> DEFINE c == new.frames
           u == new.table
           D == A \cup Phys(Mine(u))
           G == {e.phys : e \in Allocated(ToSet(t))}
<1>7. Table(c, D)
  BY <1>4 DEF Own
<1> HIDE DEF c, u, new
<1>8. Table(d, D \ G) /\ Keeps(c, d, D \ G)
  <2> HIDE DEF D, t
  <2> QED BY <1>6, <1>7, DroppedTable DEF c
<1>9. u \in Seq(Entry) /\ Distinct(u) /\ Phys(Mine(u)) \cap A = {}
  BY <1>4 DEF Own, u
<1>10. G = Phys(Mine(t)) /\ D \ G = O \cup Phys(Mine(u)) /\ Phys(Mine(u)) \cap O = {}
  <2>1. G = Phys(Mine(t))
    BY DEF Phys, Mine
  <2> HIDE DEF G, A, O
  <2> QED BY <1>5, <1>9, <2>1
<1>11. \A e \in Mine(u) : Covers(d, e.phys, e.size)
  <2> TAKE e \in Mine(u)
  <2>1. e.phys \in D \ G
    BY <1>10 DEF Phys
  <2>2. Covers(c, e.phys, e.size)
    BY <1>4 DEF Own, u, c
  <2> HIDE DEF D, G, d
  <2> QED BY <1>8, <2>1, <2>2, CoversKept
<1> HIDE DEF d, D, G, A
<1>12. Own(d, u, O)
  BY <1>8, <1>9, <1>10, <1>11 DEF Own
<1>13. Keeps(frames, d, O)
  <2>1. Keeps(frames, c, O)
    BY <1>4, <1>5, KeepsFewer DEF c
  <2>2. Keeps(c, d, O)
    BY <1>8, <1>10, KeepsFewer
  <2> QED BY <2>1, <2>2, KeepsTwice
<1>14. cur = s /\ s \in alive
  BY <1>1 DEF Running
<1>15. MapsTo(page', ToSet(u))
  <2>1. ToSet(t) \ ToSet(t) = {} /\ {} \cup ToSet(u) = ToSet(u) /\ u \in Seq(Slot)
    BY <1>9, EntriesAreSlots
  <2>2. MapsTo(page, ToSet(t))
    BY <1>14, TablesOf DEF SInv
  <2> HIDE DEF t
  <2>3. MapsTo(Unmap(page, t), ToSet(t) \ ToSet(t))
    BY <1>5, <2>2, Unmaps
  <2>4. MapsTo(Map(Unmap(page, t), u), {} \cup ToSet(u))
    BY <2>1, <2>3, MapCall
  <2> QED BY <1>1, <2>1, <2>4 DEF u
<1>16. execing' \subseteq alive \X kernel /\ \A x, y \in execing' : x[2] = y[2] => x = y
  <2>1. \A x \in execing : x[2] # b /\ x \in alive \X kernel
    BY <1>1 DEF Arguments, SInv, STypes
  <2>2. <<s, b>> \in alive \X kernel /\ <<s, b>>[2] = b
    BY <1>14
  <2> QED BY <1>1, <2>1, <2>2 DEF SInv, STypes
<1>17. SafeLent(frames, mem, d, [mem EXCEPT ![s] = u])
  <2>1. \A y \in ToSet(u) : y.allocated
    BY <1>4 DEF u
  <2> QED BY <1>1, <1>13, <2>1, SafeDropped DEF O
<1> QED BY <1>1, <1>12, <1>13, <1>14, <1>15, <1>16, <1>17, OneTable DEF u

LEMMA FinishInv ==
  ASSUME SInv, NEW s \in Space, NEW b \in kernel, ExecFinish(s, b)
  PROVE  SInv'
<1> DEFINE arg == [phys |-> b.phys, virt |-> next_mem(mem[s]), size |-> b.size,
                   writeable |-> FALSE, allocated |-> TRUE]
           t == Append(mem[s], arg)
           heap == [phys |-> Unmapped, virt |-> next_mem(t), size |-> 1, writeable |-> TRUE,
                    allocated |-> TRUE]
           new == Load([frames |-> frames, table |-> t], heap)
           k2 == kernel \ {b}
           O == Others(mem, k2, s)
<1>1. /\ <<s, b>> \in execing /\ cur = Kernel /\ frames' = new.frames
      /\ mem' = [mem EXCEPT ![s] = new.table] /\ kernel' = k2
      /\ execing' = execing \ {<<s, b>>} /\ UNCHANGED <<alive, cur, page, calls>>
  BY DEF ExecFinish
<1>2. b \in Box /\ Covers(frames, b.phys, b.size) /\ \A x \in kernel : x.phys = b.phys => x = b
  BY DEF SInv, Holds
<1>3. arg \in Entry /\ arg.phys = b.phys /\ arg.size = b.size /\ arg.allocated
  BY <1>2, NextMem, TablesOf DEF Entry, Box
<1>4. /\ mem[s] \in Seq(Entry) /\ Distinct(mem[s])
      /\ Phys(Mine(mem[s])) \cap Others(mem, kernel, s) = {}
      /\ \A e \in Mine(mem[s]) : Covers(frames, e.phys, e.size)
  BY TablesOf DEF Own
<1> HIDE DEF arg
<1>5. Phys(kernel) = Phys(k2) \cup {b.phys} /\ b.phys \notin Phys(k2)
  BY <1>2 DEF Phys
<1>6. Others(mem, kernel, s) = O \cup {b.phys}
  BY <1>5 DEF Others
<1>7. b.phys \notin O
  <2>1. \A u \in Space : b.phys \notin Phys(Mine(mem[u]))
    BY <1>5 DEF SInv, Holds
  <2> QED BY <1>5, <2>1 DEF Others
<1> HIDE DEF O, k2
<1>8. ToSet(t) = ToSet(mem[s]) \cup {arg}
  BY <1>3, <1>4, AppendOf
<1>22. Mine(t) = Mine(mem[s]) \cup {arg}
  BY <1>3, <1>8, MineOf
<1>9. Phys(Mine(t)) = Phys(Mine(mem[s])) \cup {b.phys}
  BY <1>3, <1>22 DEF Phys
<1>10. t \in Seq(Entry) /\ Distinct(t)
  <2>1. arg.phys \notin Phys(Mine(mem[s]))
    BY <1>3, <1>4, <1>6
  <2> QED BY <1>3, <1>4, <2>1, DistinctMore
<1>11. Table(frames, O \cup Phys(Mine(t)))
  <2>1. Table(frames, Others(mem, kernel, s) \cup Phys(Mine(mem[s])))
    BY TablesOf DEF Own
  <2>2. Others(mem, kernel, s) \cup Phys(Mine(mem[s])) = O \cup Phys(Mine(t))
    BY <1>6, <1>9
  <2> QED BY <2>1, <2>2
<1>12. \A e \in Mine(t) : Covers(frames, e.phys, e.size)
  BY <1>2, <1>3, <1>4, <1>22
<1>13. Phys(Mine(t)) \cap O = {}
  BY <1>4, <1>6, <1>7, <1>9
<1> HIDE DEF t
<1>14. Own(frames, t, O)
  BY <1>10, <1>11, <1>12, <1>13 DEF Own
<1>15. heap \in Wish
  BY <1>10, NextMem, EntriesAreSlots DEF Wish
<1> HIDE DEF heap
<1>16. /\ Own(new.frames, new.table, O) /\ Keeps(frames, new.frames, O)
       /\ Keeps(frames, new.frames, O \cup Phys(Mine(t)))
       /\ \A x \in ToSet(new.table) : x.allocated \/ x \in ToSet(t)
  BY <1>14, <1>15, LoadStep
<1> HIDE DEF new
<1>17. k2 \subseteq kernel
  BY DEF k2
<1>18. Holds(frames', mem', kernel')
  BY <1>1, <1>16, <1>17, Replace DEF SInv, O
<1>19. s \in alive /\ s # cur
  BY <1>1, TablesOf DEF SInv, STypes
<1>20. MapsTo(page, ToSet(TableOf(cur)))'
  BY <1>1, <1>19, SameMapping
<1>21. STypes'
  <2>1. \A u \in Space : u # s => mem'[u] = mem[u]
    BY <1>1, TablesOf
  <2>2. \A x \in execing' : x \in alive \X k2
    <3> TAKE x \in execing'
    <3>1. x \in execing /\ x # <<s, b>> /\ x \in alive \X kernel /\ <<s, b>>[2] = b
      BY <1>1 DEF SInv, STypes
    <3>2. x[2] # b
      BY <1>1, <3>1 DEF SInv, STypes
    <3> QED BY <3>1, <3>2 DEF k2
  <2> QED BY <1>1, <1>19, <2>1, <2>2 DEF SInv, STypes
<1>23. LentIn(frames', mem')
  <2>1. Blocks(mem) \subseteq O \cup Phys(Mine(t))
    <3>1. All(mem, kernel) = Others(mem, kernel, s) \cup Phys(Mine(mem[s]))
      BY AllOf
    <3> QED BY <1>6, <1>9, <3>1 DEF All
  <2>2. Keeps(frames, new.frames, Blocks(mem))
    BY <1>16, <2>1, KeepsFewer
  <2>3. \A y \in ToSet(new.table) : y.allocated \/ \E u \in Space : y \in ToSet(mem[u])
    BY <1>3, <1>8, <1>16
  <2>4. SafeLent(frames, mem, frames', mem')
    BY <1>1, <2>2, <2>3, SafeMore
  <2>5. Phys(kernel') \cap Blocks(mem) = {}
    BY <1>1, <1>17, KernelApart
  <2> QED BY <1>18, <2>4, <2>5, LentStays
<1> QED BY <1>18, <1>20, <1>21, <1>23 DEF SInv

LEMMA DropInv ==
  ASSUME SInv, NEW s \in Space, DropSpace(s), ~ misused'
  PROVE  SInv'
<1> DEFINE t == mem[s]
           O == Others(mem, kernel, s)
           D == O \cup Phys(Mine(t))
           G == {e.phys : e \in Allocated(ToSet(t))}
           d == Dropped(frames, ToSet(t))
<1>1. /\ s \in alive \ Execing /\ cur # s /\ frames' = d
      /\ mem' = [mem EXCEPT ![s] = <<>>] /\ alive' = alive \ {s}
      /\ UNCHANGED <<kernel, execing, cur, page>> /\ ~ GivesBackLent(s)
      /\ calls' = {c \in calls : c.to # s}
  BY DEF DropSpace
<1>2. Table(frames, D) /\ Phys(Mine(t)) \cap O = {} /\ \A e \in ToSet(t) : e.phys \in Frames
  BY TablesOf, ToSetOf, EntryOf DEF Own
<1>3. Table(d, D \ G) /\ Keeps(frames, d, D \ G)
  <2> HIDE DEF D, t
  <2> QED BY <1>2, DroppedTable
<1>4. D \ G = O
  <2>1. G = Phys(Mine(t))
    BY DEF Phys, Mine
  <2> HIDE DEF G, O
  <2> QED BY <1>2, <2>1
<1> HIDE DEF D, G, d
<1>5. Own(d, <<>>, O)
  <2>1. Table(d, O \cup {})
    BY <1>3, <1>4
  <2> QED BY <2>1, EmptyTable DEF Own, NoTable
<1>6. Holds(frames', mem', kernel')
  BY <1>1, <1>3, <1>4, <1>5, Replace DEF SInv
<1>7. MapsTo(page, ToSet(TableOf(cur)))'
  BY <1>1, SameMapping
<1>8. STypes'
  <2>1. mem'[s] = <<>> /\ \A u \in Space : u # s => mem'[u] = mem[u]
    BY <1>1, TablesOf
  <2>2. \A x \in execing : x[1] # s /\ x \in alive \X kernel
    BY <1>1 DEF Execing, SInv, STypes
  <2> QED BY <1>1, <2>1, <2>2 DEF SInv, STypes
<1>9. LentIn(frames', mem')
  <2>1. Keeps(frames, d, O) /\ \A y \in ToSet(<<>>) : y.allocated
    BY <1>3, <1>4, EmptyTable DEF NoTable
  <2>2. SafeLent(frames, mem, d, [mem EXCEPT ![s] = <<>>])
    BY <1>1, <2>1, SafeDropped
  <2>3. Phys(kernel') \cap Blocks(mem) = {}
    BY <1>1, KernelApart
  <2> QED BY <1>1, <1>6, <2>2, <2>3, LentStays
<1> QED BY <1>6, <1>7, <1>8, <1>9 DEF SInv

(* A buffer in an entry is lent: its pages lie where those of the entry do.  *)
LEMMA LendInv ==
  ASSUME SInv, NEW s \in Space, NEW t \in Space, NEW v \in VPages, NEW k \in 1..MaxPages,
         Lend(s, t, v, k)
  PROVE  SInv'
<1> DEFINE at == Covering(mem[s], v)
           x == mem[s][Min(at)]
           e == [phys |-> PhysAt(x, v), virt |-> next_mem(mem[t]), size |-> k,
                 writeable |-> TRUE, allocated |-> FALSE]
           O == Others(mem, kernel, t)
<1>1. /\ cur = s /\ t \in alive /\ t # s /\ at # {} /\ v + k - 1 \in PagesOf(x)
      /\ mem' = [mem EXCEPT ![t] = Append(mem[t], e)] /\ frames' = frames
      /\ UNCHANGED <<kernel, alive, execing, cur, page>>
  BY TablesOf DEF Lend, Running
<1>2. x \in ToSet(mem[s]) /\ v \in PagesOf(x)
  <2>1. at \in SUBSET Nat /\ \A i \in at : i \in 1..Len(mem[s]) /\ v \in PagesOf(mem[s][i])
    BY TablesOf DEF Covering
  <2> HIDE DEF at
  <2>2. PICK m \in at : \A i \in at : m <= i
    BY <1>1, <2>1, Assumed, P!LeastNat
  <2>3. Min(at) \in at
    BY <2>2 DEF Min
  <2> QED BY <2>1, <2>3, TablesOf, MineIs
<1> HIDE DEF at, x
<1>3. /\ x \in Entry /\ frames[x.phys] \in Blocks(mem) /\ Inside(frames, x, frames[x.phys])
  BY <1>2, InsideOf
<1>4. /\ x.phys \in Nat /\ x.virt \in Nat /\ x.size \in Nat /\ v \in Nat /\ k \in Nat /\ k > 0
      /\ x.virt <= v /\ v + k - 1 <= x.virt + x.size - 1
  BY <1>1, <1>2, <1>3, Numbers, SpaceAssumption DEF Entry, VPages, PagesOf
<1>5. Inside(frames, e, frames[x.phys]) /\ e.phys \in Frames
  <2>1. e.phys = x.phys + (v - x.virt) /\ e.size = k
    BY DEF PhysAt
  <2> HIDE DEF e
  <2>2. \A p \in e.phys..(e.phys + e.size - 1) : p \in x.phys..(x.phys + x.size - 1)
    BY <1>4, <2>1
  <2>3. e.phys \in e.phys..(e.phys + e.size - 1)
    BY <1>4, <2>1
  <2> QED BY <1>3, <2>2, <2>3 DEF Inside
<1>6. e \in Entry /\ ~ e.allocated
  <2>1. next_mem(mem[t]) \in Nat
    BY NextMem, TablesOf
  <2> QED BY <1>4, <1>5, <2>1 DEF Entry
<1> HIDE DEF e
<1>7. Own(frames, Append(mem[t], e), O) /\ ToSet(Append(mem[t], e)) = ToSet(mem[t]) \cup {e}
  BY <1>6, TablesOf, OwnBorrows
<1>8. Keeps(frames, frames, O)
  BY DEF Keeps
<1>9. SafeLent(frames, mem, frames, [mem EXCEPT ![t] = Append(mem[t], e)])
  <2> SUFFICES ASSUME NEW w \in Space, NEW y \in ToSet([mem EXCEPT ![t] = Append(mem[t], e)][w])
               PROVE  Safe(frames, frames, mem, y)
    BY DEF SafeLent
  <2>1. y = e \/ \E u \in Space : y \in ToSet(mem[u])
    <3>1. DOMAIN mem = Space
      BY TablesOf
    <3> QED BY <1>7, <3>1
  <2>2. CASE y = e
    BY <1>3, <1>5, <2>2 DEF Safe
  <2>3. CASE \E u \in Space : y \in ToSet(mem[u])
    BY <2>3, SafeOf
  <2> QED BY <2>1, <2>2, <2>3
<1>10. \A c \in calls' : c.from \in Space /\ c.to \in alive /\ c.from # c.to
  BY <1>1 DEF Lend, SInv, STypes
<1> QED BY <1>1, <1>7, <1>8, <1>9, <1>10, OtherTable

LEMMA TakeBackInv ==
  ASSUME SInv, NEW c \in calls, TakeBack(c), ~ misused'
  PROVE  SInv'
<1> DEFINE s == c.to
           at == {i \in DOMAIN mem[s] : mem[s][i].virt = c.virt}
           i == Min(at)
           e == [mem[s][i] EXCEPT !.size = 0]
           t == IF at = {} THEN mem[s] ELSE [mem[s] EXCEPT ![i] = e]
           O == Others(mem, kernel, s)
<1>1. s \in alive /\ s \in Space /\ s # cur
  BY DEF TakeBack, SInv, STypes
<1>6. ASSUME at # {} PROVE i \in 1..Len(mem[s])
  <2>1. at \in SUBSET Nat /\ \A j \in at : j \in 1..Len(mem[s])
    BY <1>1, TablesOf
  <2> HIDE DEF at
  <2>2. PICK m \in at : \A j \in at : m <= j
    BY <1>6, <2>1, Assumed, P!LeastNat
  <2>3. Min(at) \in at
    BY <2>2 DEF Min
  <2> QED BY <2>1, <2>3
<1>2. /\ frames' = CleanClusters(frames, t) /\ mem' = [mem EXCEPT ![s] = clean_mem(t)]
      /\ UNCHANGED <<kernel, alive, execing, cur, page>>
      /\ ~ (at # {} /\ OfACall(mem[s][i]) /\ frames' # frames)
  BY DEF TakeBack
<1>3. \A x \in calls' : x.from \in Space /\ x.to \in alive /\ x.from # x.to
  BY DEF TakeBack, SInv, STypes
<1> HIDE DEF at, i
<1>4. CASE at = {}
  <2>1. /\ Own(CleanClusters(frames, mem[s]), clean_mem(mem[s]), O)
        /\ Keeps(frames, CleanClusters(frames, mem[s]), O)
        /\ SafeLent(frames, mem, CleanClusters(frames, mem[s]), [mem EXCEPT ![s] = clean_mem(mem[s])])
    BY <1>1, CleanedSame
  <2>2. t = mem[s]
    BY <1>4
  <2> HIDE DEF t, s
  <2> QED BY <1>1, <1>2, <1>3, <2>1, <2>2, OtherTable
<1>5. CASE at # {}
  <2>1. i \in 1..Len(mem[s]) /\ t = [mem[s] EXCEPT ![i] = e]
    BY <1>5, <1>6
  <2> HIDE DEF s
  <2>2. 0 \in Nat /\ 0 <= AllocSize(frames, mem[s][i].phys)
    BY <1>1, <2>1, SizeOfEntry
  <2>3. /\ Resizes(frames, mem[s], O, i, e, frames)
        /\ mem[s][i].allocated \/ e.size = 0 \/ Inside(frames, e, frames[mem[s][i].phys])
    BY <1>1, <2>1, <2>2, KeepsPages
  <2>4. ~ (OfACall(mem[s][i]) /\ CleanClusters(frames, t) # frames)
    BY <1>2, <1>5
  <2> HIDE DEF e, t
  <2>5. SafeLent(frames, mem, CleanClusters(frames, t), [mem EXCEPT ![s] = clean_mem(t)])
    BY <1>1, <2>1, <2>3, <2>4, SafeResized
  <2>6. Own(CleanClusters(frames, t), clean_mem(t), O) /\ Keeps(frames, CleanClusters(frames, t), O)
    BY <2>1, <2>3 DEF Resizes
  <2> QED BY <1>1, <1>2, <1>3, <2>5, <2>6, OtherTable
<1> QED BY <1>4, <1>5

LEMMA KernelInv ==
  ASSUME SInv, KernelAlloc(1) \/ \E b \in kernel : KernelFree(b)
  PROVE  SInv'
<1>1. UNCHANGED <<mem, alive, execing, cur, page, calls>>
  BY DEF KernelAlloc, KernelFree
<1>2. MapsTo(page, ToSet(TableOf(cur)))'
  BY <1>1 DEF SInv, MapsTo, TableOf, Unmapped, M!NULL
<1>5. ASSUME Holds(frames', mem', kernel'), Keeps(frames, frames', Blocks(mem))
      PROVE  LentIn(frames', mem')
  <2>1. SafeLent(frames, mem, frames', mem')
    <3> SUFFICES ASSUME NEW u \in Space, NEW y \in ToSet(mem[u])
                 PROVE  Safe(frames, frames', mem, y)
      BY <1>1 DEF SafeLent
    <3>1. frames[y.phys] \in Blocks(mem)
      BY InsideOf
    <3> QED BY <1>5, <3>1, SafeOf DEF Keeps
  <2>2. Phys(kernel') \cap Blocks(mem) = {}
    BY <1>1, <1>5 DEF Holds, Blocks
  <2> QED BY <1>5, <2>1, <2>2, LentStays
<1>3. CASE KernelAlloc(1)
  <2> DEFINE a == FirstFit(frames, 1)
  <2>1. a # Unmapped /\ frames' = M!Taken(frames, a, 1) /\ kernel' = kernel \cup {[phys |-> a, size |-> 1]}
    BY <1>3 DEF KernelAlloc
  <2>2. a \in Frames /\ M!IsAlloc(frames, 1, a)
    BY <2>1, FirstFitDefined
  <2> HIDE DEF a
  <2>3. Holds(frames', mem', kernel') /\ Keeps(frames, frames', Blocks(mem))
    BY <1>1, <2>1, <2>2, BoxTaken DEF SInv
  <2>4. STypes'
    BY <1>1, <2>1 DEF SInv, STypes
  <2> QED BY <1>2, <1>5, <2>3, <2>4 DEF SInv
<1>4. ASSUME NEW b \in kernel, KernelFree(b) PROVE SInv'
  <2>1. b \notin Arguments /\ frames' = M!Unalloc(frames, b.phys) /\ kernel' = kernel \ {b}
    BY <1>4 DEF KernelFree
  <2>2. Holds(frames', mem', kernel') /\ Keeps(frames, frames', Blocks(mem))
    BY <1>1, <2>1, BoxFreed DEF SInv
  <2>3. \A x \in execing : x[2] # b
    BY <2>1 DEF Arguments
  <2>4. STypes'
    BY <1>1, <2>1, <2>3 DEF SInv, STypes
  <2> QED BY <1>2, <1>5, <2>2, <2>4 DEF SInv
<1> QED BY <1>3, <1>4

LEMMA NextInv == SInv /\ [SpaceNext]_spaceVars /\ ~ misused' => SInv'
<1> SUFFICES ASSUME SInv, [SpaceNext]_spaceVars, ~ misused' PROVE SInv'
  OBVIOUS
<1>1. MaxPages \in Nat /\ \A k \in 0..MaxPages : k \in Nat
  BY SpaceAssumption
<1>2. ASSUME NEW s \in Space, NEW k \in 1..MaxPages, SysAlloc(s, k) PROVE SInv'
  BY <1>2, AllocInv
<1>3. ASSUME NEW s \in Space, NEW i \in 1..MaxEntries, NEW k \in 0..MaxPages, SysRealloc(s, i, k)
      PROVE  SInv'
  BY <1>1, <1>3, ReallocInv
<1>4. ASSUME NEW s \in Space, NEW i \in 1..MaxEntries, NEW k \in 0..MaxPages,
             SysReallocInplace(s, i, k)
      PROVE  SInv'
  BY <1>1, <1>4, InplaceInv
<1>5. ASSUME NEW s \in Space, NEW i \in 1..MaxEntries, SysUnalloc(s, i) PROVE SInv'
  BY <1>5, UnallocInv
<1>6. ASSUME NEW s \in Space, NEW addr \in VPages, SysBrk(s, addr) PROVE SInv'
  BY <1>6, BrkInv
<1>7. ASSUME NEW s \in Space, NEW t \in Space, CopySpace(s, t) PROVE SInv'
  BY <1>7, CopyInv
<1>8. ASSUME NEW s \in Space, NEW w \in Flags, NEW b \in kernel, ExecSpace(s, w, b) PROVE SInv'
  BY <1>8, ExecInv
<1>9. ASSUME NEW s \in Space, NEW b \in kernel, ExecFinish(s, b) PROVE SInv'
  BY <1>9, FinishInv
<1>10. ASSUME NEW s \in Space, DropSpace(s) PROVE SInv'
  BY <1>10, DropInv
<1>11. ASSUME NEW s \in Space \cup {Kernel}, SwitchSpace(s) PROVE SInv'
  BY <1>11, SwitchInv
<1>12. CASE KernelAlloc(1) \/ \E b \in kernel : KernelFree(b)
  BY <1>12, KernelInv
<1>14. ASSUME NEW s \in Space, NEW t \in Space, NEW v \in VPages, NEW k \in 1..MaxPages,
              Lend(s, t, v, k)
       PROVE  SInv'
  BY <1>14, LendInv
<1>15. ASSUME NEW c \in calls, TakeBack(c) PROVE SInv'
  BY <1>15, TakeBackInv
<1>13. CASE UNCHANGED spaceVars
  <2>1. UNCHANGED <<frames, mem, kernel, alive, execing, cur, page, calls>>
    BY <1>13 DEF spaceVars
  <2> QED BY <2>1 DEF SInv, STypes, MapsTo, TableOf, Unmapped, M!NULL
<1> QED BY <1>2, <1>3, <1>4, <1>5, <1>6, <1>7, <1>8, <1>9, <1>10, <1>11, <1>12, <1>13, <1>14,
           <1>15 DEF SpaceNext, SpaceStep

LEMMA MisusedEnds == misused /\ [SpaceNext]_spaceVars => misused'
BY DEF SpaceNext, spaceVars

(* After any number of calls that allocate, lend, map, free or fail, the     *)
(* frame table is a table of whole blocks, each with one owner, an allocated *)
(* entry of a program or the kernel; what is lent lies in a block that a     *)
(* program owns, and a page mapped is one of an entry of the program that    *)
(* runs (SInv), until memory is resized or given back that is lent.          *)
THEOREM SpaceInvariance == SpaceSpec => [](misused \/ SInv)
<1>1. SpaceInit => misused \/ SInv
  BY InitInv
<1>2. (misused \/ SInv) /\ [SpaceNext]_spaceVars => (misused \/ SInv)'
  BY NextInv, MisusedEnds
<1> QED BY <1>1, <1>2, PTL DEF SpaceSpec

-----------------------------------------------------------------------------
(* What the processor maps is memory of the running program.                 *)
LEMMA MappingsAreOwn == SInv => NoStaleMapping
<1> SUFFICES ASSUME SInv, NEW v \in VPages, page[v] # Unmapped
             PROVE  /\ page[v] \in M!Clusters /\ frames[page[v]] >= 0
                    /\ \E e \in ToSet(TableOf(cur)) : frames[page[v]] = frames[e.phys]
  BY DEF NoStaleMapping
<1>1. PICK e \in ToSet(TableOf(cur)) : v \in PagesOf(e) /\ page[v] = PhysAt(e, v)
  BY DEF SInv, MapsTo
<1>2. cur \in Space
  <2>1. TableOf(Kernel) = <<>> /\ ToSet(<<>>) = {}
    BY TablesOf, SpaceAssumption DEF ToSet
  <2>2. cur # Kernel
    BY <1>1, <2>1
  <2> QED BY <2>2 DEF SInv, STypes
<1>3. /\ e \in Entry /\ frames[e.phys] \in Blocks(mem) /\ Inside(frames, e, frames[e.phys])
  BY <1>1, <1>2, TablesOf, InsideOf
<1>4. e.phys \in Nat /\ e.virt \in Nat /\ e.size \in Nat /\ v \in Nat
  BY <1>3, Numbers, SpaceAssumption DEF Entry, VPages
<1>5. page[v] \in e.phys..(e.phys + e.size - 1)
  BY <1>1, <1>4 DEF PagesOf, PhysAt
<1>6. page[v] \in Frames /\ frames[page[v]] = frames[e.phys]
  BY <1>3, <1>5 DEF Inside
<1>7. frames[e.phys] >= 0
  <2>1. frames[e.phys] \in All(mem, kernel) /\ All(mem, kernel) \subseteq Frames
    BY <1>3 DEF All, SInv, Holds, Table
  <2> QED BY <2>1, Numbers
<1> QED BY <1>1, <1>6, <1>7, Numbers

(* The blocks and their owners.                                              *)
LEMMA EntriesOf ==
  ASSUME SInv
  PROVE  /\ \A e : e \in Entries <=> \E s \in Space : e \in ToSet(mem[s])
         /\ \A e : e \in Allocated(Entries) <=> \E s \in Space : e \in Mine(mem[s])
         /\ \A e \in Allocated(Entries) : e \in Entry /\ Covers(frames, e.phys, e.size)
         /\ \A b \in kernel : b \in Box /\ Covers(frames, b.phys, b.size)
         /\ \A e \in Allocated(Entries), b \in kernel : e.phys # b.phys
         /\ \A e, x \in Allocated(Entries) : e.phys = x.phys => e = x
         /\ \A e, x \in kernel : e.phys = x.phys => e = x
<1>1. \A s \in Space : s \notin alive => ToSet(mem[s]) = {}
  BY DEF SInv, STypes, ToSet
<1>2. \A e : e \in Entries <=> \E s \in Space : e \in ToSet(mem[s])
  BY <1>1 DEF Entries, Tables, SInv, STypes
<1>8. \A e : e \in Allocated(Entries) <=> \E s \in Space : e \in Mine(mem[s])
  BY <1>2 DEF Allocated, Mine
<1>3. \A e \in Allocated(Entries) : e \in Entry /\ Covers(frames, e.phys, e.size)
  <2> TAKE e \in Allocated(Entries)
  <2>1. PICK s \in Space : e \in Mine(mem[s])
    BY <1>8
  <2>2. e \in Entry
    BY <2>1, TablesOf, MineIs
  <2> QED BY <2>1, <2>2 DEF SInv, Holds
<1>4. \A b \in kernel : b \in Box /\ Covers(frames, b.phys, b.size)
  BY DEF SInv, Holds
<1>5. ASSUME NEW e \in Allocated(Entries), NEW b \in kernel PROVE e.phys # b.phys
  <2>1. PICK s \in Space : e \in Mine(mem[s])
    BY <1>8, <1>5
  <2>2. e.phys \in Phys(Mine(mem[s])) /\ b.phys \in Phys(kernel)
    BY <2>1 DEF Phys
  <2> QED BY <2>2 DEF SInv, Holds
<1>6. ASSUME NEW e \in Allocated(Entries), NEW x \in Allocated(Entries), e.phys = x.phys PROVE e = x
  <2>1. PICK s \in Space : e \in Mine(mem[s])
    BY <1>8, <1>6
  <2>2. PICK u \in Space : x \in Mine(mem[u])
    BY <1>8, <1>6
  <2>3. e.phys \in Phys(Mine(mem[s])) /\ e.phys \in Phys(Mine(mem[u]))
    BY <1>6, <2>1, <2>2 DEF Phys
  <2>4. s = u
    BY <2>3 DEF SInv, Holds
  <2>5. Distinct(mem[s]) /\ mem[s] \in Seq(Slot)
    BY TablesOf DEF SInv, Holds
  <2> QED BY <1>6, <2>1, <2>2, <2>4, <2>5, ToSetOf DEF Distinct, Mine, Allocated
<1>7. \A e, x \in kernel : e.phys = x.phys => e = x
  BY DEF SInv, Holds
<1> QED BY <1>2, <1>3, <1>4, <1>5, <1>6, <1>7, <1>8

LEMMA OwnedIs ==
  ASSUME SInv
  PROVE  /\ DOMAIN Owned = All(mem, kernel)
         /\ \A a \in DOMAIN Owned : Owned[a] \in Nat /\ Covers(frames, a, Owned[a])
<1>1. DOMAIN Owned = All(mem, kernel)
  <2>1. DOMAIN Owned = {e.phys : e \in Allocated(Entries)} \cup {b.phys : b \in kernel}
    BY DEF Owned
  <2>2. \A a : a \in All(mem, kernel) <=>
              (\E s \in Space : \E e \in Mine(mem[s]) : a = e.phys) \/ (\E b \in kernel : a = b.phys)
    BY DEF All, Blocks, Phys
  <2> QED BY <2>1, <2>2, EntriesOf
<1>2. ASSUME NEW a \in DOMAIN Owned PROVE Owned[a] \in Nat /\ Covers(frames, a, Owned[a])
  <2> DEFINE X == {x \in Allocated(Entries) \cup kernel : x.phys = a}
  <2>1. PICK e \in X : TRUE
    BY <1>2 DEF Owned
  <2>2. \A x \in X : x = e
    BY <2>1, EntriesOf
  <2>3. {x.size : x \in X} = {e.size}
    BY <2>2
  <2>4. e.size \in Nat /\ Covers(frames, a, e.size)
    BY <2>1, EntriesOf DEF Entry, Box
  <2>5. Owned[a] = Max({x.size : x \in X})
    BY <1>2 DEF Owned
  <2>6. Max({e.size}) = e.size
    BY <2>4 DEF Max
  <2> QED BY <2>3, <2>4, <2>5, <2>6
<1> QED BY <1>1, <1>2

LEMMA LentIsInUse == SInv => LentInUse
<1> SUFFICES ASSUME SInv, NEW e \in Lent
             PROVE  \E x \in Allocated(Entries) :
                      \A p \in e.phys..(e.phys + e.size - 1) : p \in M!Clusters /\ frames[p] = x.phys
  BY DEF LentInUse
<1>1. PICK s \in Space : e \in ToSet(mem[s])
  BY EntriesOf DEF Lent
<1>2. frames[e.phys] \in Blocks(mem) /\ Inside(frames, e, frames[e.phys])
  BY <1>1, InsideOf
<1>3. PICK x : x.phys = frames[e.phys] /\ \E u \in Space : x \in Mine(mem[u])
  BY <1>2 DEF Blocks, Phys
<1>4. x \in Allocated(Entries)
  BY <1>3, EntriesOf
<1> QED BY <1>2, <1>3, <1>4, Numbers DEF Inside

LEMMA SoundOfInv == SInv => SpacesSound
<1> SUFFICES ASSUME SInv PROVE SpacesSound
  OBVIOUS
<1>1. Table(frames, DOMAIN Owned)
  BY OwnedIs DEF SInv, Holds
<1>2. M!BlocksWhole
  BY OwnedIs DEF M!BlocksWhole, Covers, Frames
<1>3. M!NothingLeaks
  BY <1>1 DEF M!NothingLeaks, Table, Frames
<1>4. M!BlocksAreRuns
  BY <1>1 DEF M!BlocksAreRuns, Table, Frames
<1>5. ASSUME NEW x \in Owners, NEW y \in Owners, x # y
      PROVE  mem[x[1]][x[2]].phys # mem[y[1]][y[2]].phys
  <2> SUFFICES ASSUME mem[x[1]][x[2]].phys = mem[y[1]][y[2]].phys PROVE FALSE
    OBVIOUS
  <2> DEFINE s == x[1]
             u == y[1]
             i == x[2]
             j == y[2]
  <2>1. /\ s \in Space /\ u \in Space /\ i \in DOMAIN mem[s] /\ j \in DOMAIN mem[u]
        /\ x = <<s, i>> /\ y = <<u, j>> /\ mem[s][i].allocated /\ mem[u][j].allocated
    BY DEF Owners, SInv, STypes
  <2>5. mem[s][i].phys = mem[u][j].phys
    OBVIOUS
  <2> HIDE DEF s, u, i, j
  <2>2. i \in 1..Len(mem[s]) /\ j \in 1..Len(mem[u])
    BY <2>1, TablesOf
  <2>3. mem[s][i] \in Mine(mem[s]) /\ mem[u][j] \in Mine(mem[u])
    BY <2>1, <2>2, TablesOf, MineIs
  <2>4. mem[s][i].phys \in Phys(Mine(mem[s])) /\ mem[u][j].phys \in Phys(Mine(mem[u]))
    BY <2>3 DEF Phys
  <2>6. s = u
    BY <2>1, <2>4, <2>5 DEF SInv, Holds
  <2>7. i = j
    BY <2>1, <2>2, <2>5, <2>6 DEF SInv, Holds, Distinct
  <2> QED BY <1>5, <2>1, <2>6, <2>7
<1>6. OwnedOnce
  BY <1>2, <1>5, EntriesOf DEF OwnedOnce
<1> QED BY <1>3, <1>4, <1>6, LentIsInUse, MappingsAreOwn DEF SpacesSound, NoBlockLeaks

(* Memory is safe from one program to another and none of it is lost, for    *)
(* any number of programs, pages and entries, through alloc, realloc, brk,   *)
(* clone, execve, exit and memory lent to schemes, also where they fail, as  *)
(* long as no program resizes memory that is lent: SpacesSound.              *)
THEOREM SpacesAreSound == SpaceSpec => []SpacesSound
<1>1. misused \/ SInv => SpacesSound
  BY SoundOfInv DEF SpacesSound
<1> QED BY <1>1, SpaceInvariance, PTL

-----------------------------------------------------------------------------
(* A behaviour of the kernel's composition is one of each of its parts.      *)
LEMMA KernelParts == KernelSpec => MemorySpec /\ SpaceSpec
<1>1. KernelInit => MemoryInit /\ SpaceInit
  BY DEF KernelInit
<1>2. [KernelNext]_<<which, pipeVars, memoryVars, spaceVars>>
        => [MemoryNext]_memoryVars /\ [SpaceNext]_spaceVars
  BY DEF KernelNext
<1> QED BY <1>1, <1>2, PTL DEF KernelSpec, MemorySpec, SpaceSpec

(* The loops of kernel/arch/memory.rs compute what Memory says they do, for  *)
(* any number and size of clusters, any memory map and any alignment.        *)
THEOREM KernelLoops == KernelSpec => []LoopsRight
<1>1. LoopsAsSpecified => LoopsRight
  BY DEF LoopsRight
<1> QED BY <1>1, KernelParts, LoopsAreAsSpecified, PTL

(* No block of a program or of the kernel has two owners, is lost or stays   *)
(* mapped where it is no longer owned (env and memory of contexts).          *)
THEOREM KernelSpaces == KernelSpec => []SpacesRight
<1>1. SpacesSound => SpacesRight
  BY DEF SpacesRight
<1> QED BY <1>1, KernelParts, SpacesAreSound, PTL
=============================================================================
