---------------------------- MODULE MemoryLoops ----------------------------
(***************************************************************************)
(* The loops of kernel/arch/memory.rs over the table of addresses, with    *)
(* sizes in bytes, compared in every reachable state of Memory with the    *)
(* operators that Memory defines without loops.                            *)
(***************************************************************************)
EXTENDS Memory

CONSTANTS CLUSTER_SIZE,
          BASE,     \* the address of the first cluster
          Align     \* the alignment that alloc_aligned is asked for

ASSUME LoopsAssumption ==
  CLUSTER_SIZE \in Nat \ {0} /\ BASE \in Nat \ {0} /\ Align \in Nat \ {0}

NOT_PRESENT == -1   \* 0xFFFFFFFF, which no cluster starts at

cluster_to_address(n) == BASE + n * CLUSTER_SIZE

address_to_cluster(a) == IF a >= BASE THEN (a - BASE) \div CLUSTER_SIZE ELSE 0

(* The table in memory for the table of the model.                           *)
Words(c) == [i \in Clusters |->
  IF c[i] = FREE THEN 0
  ELSE IF c[i] = ABSENT THEN NOT_PRESENT ELSE cluster_to_address(c[i])]

Unwords(t) == [i \in Clusters |->
  IF t[i] = 0 THEN FREE
  ELSE IF t[i] = NOT_PRESENT THEN ABSENT ELSE address_to_cluster(t[i])]

(* Mutant: a cluster in use does not end the run.                            *)
Turn_NoReset(s, word, i, size, mayStart) ==
  IF s.done \/ word # 0 THEN s
  ELSE [number |-> IF s.count = 0 THEN i ELSE s.number,
        count |-> s.count + 1,
        done |-> (s.count + 1) * CLUSTER_SIZE >= size]

(* One turn of the loop of alloc, where i may start a run if mayStart.       *)
Turn(s, word, i, size, mayStart) ==
  IF s.done THEN s
  ELSE IF word = 0 /\ (s.count > 0 \/ mayStart)
  THEN [number |-> IF s.count = 0 THEN i ELSE s.number,
        count |-> s.count + 1,
        done |-> (s.count + 1) * CLUSTER_SIZE >= size]
  ELSE [s EXCEPT !.count = 0]

Scan(t, size, align) ==
  LET after[i \in 0..CLUSTER_COUNT] ==
        IF i = 0 THEN [number |-> 0, count |-> 0, done |-> FALSE]
        ELSE Turn(after[i - 1], t[i - 1], i - 1, size,
                  cluster_to_address(i - 1) % align = 0)
  IN  after[CLUSTER_COUNT]

(* alloc_aligned; alloc is the same loop with every address aligned.         *)
alloc_aligned(t, size, align) ==
  LET s == Scan(t, size, align) IN
    IF size > 0 /\ s.count * CLUSTER_SIZE >= size
    THEN [ret |-> cluster_to_address(s.number),
          table |-> [i \in Clusters |->
                       IF i \in s.number..(s.number + s.count - 1)
                       THEN cluster_to_address(s.number) ELSE t[i]]]
    ELSE [ret |-> 0, table |-> t]

alloc(t, size) == alloc_aligned(t, size, 1)

(* The number of turns of the loops of alloc_size and unalloc.               *)
Matching(t, ptr) ==
  LET turns[i \in 0..CLUSTER_COUNT] ==
        IF i < CLUSTER_COUNT /\ t[i] = ptr THEN 1 + turns[i + 1] ELSE 0
  IN  IF ptr = 0 THEN 0 ELSE turns[address_to_cluster(ptr)]

alloc_size(t, ptr) == Matching(t, ptr) * CLUSTER_SIZE

unalloc(t, ptr) ==
  LET a == address_to_cluster(ptr) IN
    [i \in Clusters |-> IF i \in a..(a + Matching(t, ptr) - 1) THEN 0 ELSE t[i]]

realloc(t, ptr, size) ==
  IF size = 0 THEN [ret |-> 0, table |-> unalloc(t, ptr)]
  ELSE IF size <= alloc_size(t, ptr) THEN [ret |-> ptr, table |-> t]
  ELSE LET new == alloc(t, size) IN
         [ret |-> new.ret,
          table |-> IF ptr > 0 THEN unalloc(new.table, ptr) ELSE new.table]

realloc_inplace(t, ptr, size) ==
  IF size <= alloc_size(t, ptr) THEN size ELSE alloc_size(t, ptr)

-----------------------------------------------------------------------------
Pages(size) == (size + CLUSTER_SIZE - 1) \div CLUSTER_SIZE
Address(n) == IF n = NULL THEN 0 ELSE cluster_to_address(n)
Sizes == 0..((CLUSTER_COUNT + 1) * CLUSTER_SIZE)

(* alloc returns zero only when no run of clusters is long enough, and       *)
(* otherwise takes just the clusters needed, at the first place that fits.   *)
AllocIsFirstFit == \A size \in Sizes :
  LET a == alloc(Words(cluster), size) IN
    \E n \in Clusters \cup {NULL} :
      /\ IsAlloc(cluster, Pages(size), n)
      /\ a.ret = Address(n)
      /\ a.table = Words(Taken(cluster, n, Pages(size)))

(* alloc_aligned finds an aligned place whenever there is one.               *)
AlignedIsFirstAligned == \A size \in Sizes \ {0} :
  LET a == alloc_aligned(Words(cluster), size, Align)
      places == {n \in Clusters : /\ cluster_to_address(n) % Align = 0
                                  /\ Fits(cluster, n, Pages(size))}
  IN  IF places = {} THEN a.ret = 0 /\ a.table = Words(cluster)
      ELSE \E n \in places :
             /\ \A m \in places : n <= m
             /\ a.ret = cluster_to_address(n)
             /\ a.table = Words(Taken(cluster, n, Pages(size)))

(* realloc and unalloc of any address, in use or not, do to the table what   *)
(* Memory says, and a block grown in place is never given bytes it has not.  *)
ReallocAsSpecified == \A a \in Clusters, size \in Sizes :
  LET t == Words(cluster)
      r == realloc(t, cluster_to_address(a), size)
  IN  /\ \E n \in Clusters \cup {NULL} :
           /\ IsRealloc(cluster, a, Pages(size), n, Unwords(r.table))
           /\ r.ret = Address(n)
      /\ Unwords(unalloc(t, cluster_to_address(a))) = Unalloc(cluster, a)
      /\ realloc_inplace(t, cluster_to_address(a), size) <= alloc_size(t, cluster_to_address(a))

(* The loops compute what Memory says they do.                               *)
LoopsAsSpecified == AllocIsFirstFit /\ AlignedIsFirstAligned /\ ReallocAsSpecified
=============================================================================
