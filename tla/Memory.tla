------------------------------- MODULE Memory -------------------------------
(***************************************************************************)
(* The cluster allocator of the kernel (kernel/arch/memory.rs), which      *)
(* serves kernel boxes, stacks, page tables and the memory of programs.    *)
(*                                                                         *)
(* Sizes are counted in clusters (module MemoryLoops has the loops over    *)
(* bytes and compares them with the operators of this module), and an      *)
(* address is the number of the cluster it starts at.  A table entry is    *)
(* FREE (0 in the code), ABSENT (0xFFFFFFFF) or the address of a block.    *)
(***************************************************************************)
EXTENDS Integers

CONSTANTS CLUSTER_COUNT,
          Present          \* the clusters that the memory map declares usable

NULL == -1
FREE == -1
ABSENT == -2
Clusters == 0..(CLUSTER_COUNT - 1)

ASSUME MemoryAssumption == CLUSTER_COUNT \in Nat /\ Present \subseteq Clusters

VARIABLES cluster,  \* the table at CLUSTER_ADDRESS
          held      \* history: the blocks handed out, with the size asked for

memoryVars == <<cluster, held>>

-----------------------------------------------------------------------------
(* The k clusters from n on are free.                                        *)
Fits(c, n, k) == n + k <= CLUSTER_COUNT /\ \A i \in n..(n + k - 1) : c[i] = FREE

(* alloc returns n: the first place that fits, or no address.                *)
IsAlloc(c, k, n) ==
  \/ n \in Clusters /\ k > 0 /\ Fits(c, n, k) /\ \A m \in 0..(n - 1) : ~ Fits(c, m, k)
  \/ n = NULL /\ (k = 0 \/ \A m \in Clusters : ~ Fits(c, m, k))

Taken(c, n, k) ==
  IF n = NULL THEN c
  ELSE [i \in Clusters |-> IF i \in n..(n + k - 1) THEN n ELSE c[i]]

(* The clusters that alloc_size counts and unalloc clears: from the address  *)
(* on, as long as the entry is the address.                                  *)
Block(c, a) == {i \in Clusters : a <= i /\ \A j \in a..i : c[j] = a}

IsAllocSize(c, a, s) == /\ s \in 0..CLUSTER_COUNT
                        /\ Block(c, a) = a..(a + s - 1)

Unalloc(c, a) ==
  [i \in Clusters |-> IF a # NULL /\ i \in Block(c, a) THEN FREE ELSE c[i]]

(* Mutants: the block in use is grown over what follows it; the old block is *)
(* kept when it moves.                                                       *)
IsRealloc_Grow(c, a, k, r, c2) ==
  /\ k > 0 /\ a + k <= CLUSTER_COUNT
  /\ r = a
  /\ c2 = [i \in Clusters |-> IF i \in a..(a + k - 1) THEN a ELSE c[i]]

IsRealloc_Leak(c, a, k, r, c2) ==
  \E s \in 0..CLUSTER_COUNT :
    /\ a # NULL /\ IsAllocSize(c, a, s)
    /\ k > s /\ IsAlloc(c, k, r) /\ c2 = Taken(c, r, k)

(* realloc of a to k returns r and leaves the table c2.  A block that cannot *)
(* move is freed all the same.                                               *)
IsRealloc(c, a, k, r, c2) ==
  \/ k = 0 /\ r = NULL /\ c2 = Unalloc(c, a)
  \/ \E s \in 0..CLUSTER_COUNT :
       /\ k > 0 /\ IF a = NULL THEN s = 0 ELSE IsAllocSize(c, a, s)
       /\ \/ k <= s /\ r = a /\ c2 = c
          \/ k > s /\ IsAlloc(c, k, r) /\ c2 = Unalloc(Taken(c, r, k), a)

-----------------------------------------------------------------------------
(* cluster_init.                                                             *)
MemoryInit ==
  /\ cluster = [i \in Clusters |-> IF i \in Present THEN FREE ELSE ABSENT]
  /\ held = [a \in {} |-> 0]

Given(h, n, k) ==
  IF n = NULL THEN h
  ELSE [a \in DOMAIN h \cup {n} |-> IF a = n THEN k ELSE h[a]]

Without(h, a) == [b \in DOMAIN h \ {a} |-> h[b]]

Alloc(k) == \E n \in Clusters \cup {NULL} :
  /\ IsAlloc(cluster, k, n)
  /\ cluster' = Taken(cluster, n, k)
  /\ held' = Given(held, n, k)

(* By the holder; or once more, as Drop for ContextMemory does after a       *)
(* failed realloc has freed the block.                                       *)
Free(a) ==
  /\ cluster' = Unalloc(cluster, a)
  /\ held' = Without(held, a)

Realloc(a, k) == \E r \in Clusters \cup {NULL} :
  /\ a \in DOMAIN held
  /\ IsRealloc(cluster, a, k, r, cluster')
  /\ held' = Given(Without(held, a), r, k)

MemoryNext ==
  \/ \E k \in 0..CLUSTER_COUNT : Alloc(k)
  \/ \E a \in Clusters : Free(a)
  \/ \E a \in Clusters, k \in 0..CLUSTER_COUNT : Realloc(a, k)

MemorySpec == MemoryInit /\ [][MemoryNext]_memoryVars
-----------------------------------------------------------------------------
MemoryTypeOK ==
  /\ cluster \in [Clusters -> Clusters \cup {FREE, ABSENT}]
  /\ DOMAIN held \subseteq Clusters
  /\ held = [a \in DOMAIN held |-> held[a]]
  /\ \A a \in DOMAIN held : held[a] \in 1..CLUSTER_COUNT

(* Clusters that do not exist are never handed out.                          *)
AbsentStays == \A i \in Clusters : cluster[i] = ABSENT <=> i \notin Present

(* Every block handed out covers the size asked for, until it is given back. *)
BlocksWhole == \A a \in DOMAIN held : \A i \in a..(a + held[a] - 1) :
  i \in Clusters /\ cluster[i] = a

(* Nothing leaks: a cluster in use belongs to a block that somebody holds.   *)
NothingLeaks == \A i \in Clusters : cluster[i] >= 0 => cluster[i] \in DOMAIN held

(* A block is one run of clusters from its address on.                       *)
BlocksAreRuns == \A i \in Clusters :
  cluster[i] >= 0 => cluster[i] <= i /\ \A j \in cluster[i]..i : cluster[j] = cluster[i]

(* A step on one block leaves the clusters of every other block as they are. *)
OthersUntouched ==
  [][\A a \in DOMAIN held :
       (a \in DOMAIN held' /\ held'[a] = held[a])
         => \A i \in Clusters : cluster[i] = a <=> cluster'[i] = a]_memoryVars
=============================================================================
