----------------------------- MODULE HashTable -----------------------------
(***************************************************************************)
(* The Robin Hood hash table of libstd/src/collections/hash_map.rs: the    *)
(* raw table and the algorithms on it, as operators from tables to tables. *)
(* A bucket index grows past the capacity while a probe runs, as in the    *)
(* code; the bucket it names is the index modulo the capacity.             *)
(***************************************************************************)
EXTENDS Integers, Sequences, FiniteSets, FiniteSetsExt, SequencesExt

CONSTANTS InitialCapacity,   \* INITIAL_CAPACITY, a power of two
          MinNum, MinDen,    \* min_capacity is size * MinNum / MinDen
          HighBit            \* the bit make_hash sets, so that no hash is 0

EMPTY_BUCKET == 0
EmptyBucket == [hash |-> EMPTY_BUCKET]
NoIndex == -1

\* The hash of a key with the bit that tells it from an empty bucket.
MakeHash(h) == HighBit + h

NewTable(capacity) ==
  [capacity |-> capacity, size |-> 0,
   buckets |-> [i \in 0 .. capacity - 1 |-> EmptyBucket]]

\* Bucket::at_index and Bucket::next: the pointer wraps where the index passes the capacity.
At(t, idx) == t.buckets[idx % t.capacity]

Ideal(t, hash) == hash % t.capacity

IsFull(t, idx) == At(t, idx).hash # EMPTY_BUCKET

Distance(t, idx) == (idx - At(t, idx).hash) % t.capacity

Holds(t, idx, hash, k) == At(t, idx).hash = hash /\ At(t, idx).key = k

Put(t, idx, b) ==
  [t EXCEPT !.size = @ + 1, !.buckets[idx % t.capacity] = b]

SetVal(t, idx, v) == [t EXCEPT !.buckets[idx % t.capacity].val = v]

\* The first index at or after `from` where a probe stops; `within` buckets are looked at.
ProbeUntil(from, within, Stops(_)) ==
  CHOOSE i \in from .. from + within :
    (i = from + within \/ Stops(i)) /\ \A j \in from .. i - 1 : ~Stops(j)

\* search_hashed: the index of the key, or NoIndex.
SearchHashed(t, hash, k) ==
  IF t.capacity = 0 THEN NoIndex
  ELSE LET ib == Ideal(t, hash)
           Poorer(i) == Distance(t, i) + ib < i
           idx == ProbeUntil(ib, t.size, LAMBDA i :
                    ~IsFull(t, i) \/ Poorer(i) \/ Holds(t, i, hash, k))
       IN IF idx < ib + t.size /\ Holds(t, idx, hash, k) /\ ~Poorer(idx)
          THEN idx ELSE NoIndex

\* Mutant: the buckets behind are left where they are.
PopInternal_NoShift(t, idx) ==
  [t EXCEPT !.size = @ - 1, !.buckets[idx % t.capacity] = EmptyBucket]

\* pop_internal: take the bucket and shift the ones behind it back until a hole or a
\* bucket in its ideal place.
PopInternal(t, idx) ==
  LET gap == ProbeUntil(idx + 1, t.capacity, LAMBDA i :
               ~IsFull(t, i) \/ Distance(t, i) = 0) - 1
      Behind(b) == (b - idx) % t.capacity
  IN [t EXCEPT !.size = @ - 1,
               !.buckets = [b \in DOMAIN @ |->
                  IF Behind(b) < gap - idx THEN At(t, b + 1)
                  ELSE IF Behind(b) = gap - idx THEN EmptyBucket ELSE @[b]]]

\* Where robin_hood stops: the first hole behind the bucket it steals.
NextHole(t, idx) == ProbeUntil(idx + 1, t.capacity, LAMBDA i : ~IsFull(t, i))

\* robin_hood: the entry takes the bucket; the old one moves on and takes the bucket of the
\* first entry that is nearer to its ideal place, and so on to the next hole.
RobinHood(t, start, new) ==
  LET hole == NextHole(t, start)
      first == [t |-> [t EXCEPT !.buckets[start % t.capacity] = new],
                carried |-> At(t, start), ib |-> start - Distance(t, start)]
      Pass(acc, i) ==
        LET probe_ib == i - Distance(t, i) IN
        IF acc.ib < probe_ib
        THEN [t |-> [acc.t EXCEPT !.buckets[i % t.capacity] = acc.carried],
              carried |-> At(t, i), ib |-> probe_ib]
        ELSE acc
      last == FoldLeft(Pass, first, [j \in 1 .. hole - start - 1 |-> start + j])
  IN Put(last.t, hole, last.carried)

\* Where insert_or_replace_with and search_entry_hashed stop: at a hole, the key, or a
\* bucket nearer to its ideal place than the new entry would be.
InsertProbe(t, hash, k) ==
  LET ib == Ideal(t, hash) IN
  ProbeUntil(ib, t.capacity, LAMBDA i :
    ~IsFull(t, i) \/ Holds(t, i, hash, k) \/ ib < i - Distance(t, i))

\* VacantEntry::insert, and the same two cases of insert_or_replace_with.
PlaceAt(t, idx, b) == IF IsFull(t, idx) THEN RobinHood(t, idx, b) ELSE Put(t, idx, b)

\* found_existing replaces the value, or leaves it.
InsertOrReplace(t, b, replace) ==
  LET idx == InsertProbe(t, b.hash, b.key) IN
  IF ~(IsFull(t, idx) /\ Holds(t, idx, b.hash, b.key)) THEN PlaceAt(t, idx, b)
  ELSE IF replace THEN SetVal(t, idx, b.val) ELSE t

InsertHashedNocheck(t, b) == InsertOrReplace(t, b, FALSE)

\* insert_hashed_ordered: the first hole, without a look at the distances.
InsertHashedOrdered(t, b) ==
  Put(t, ProbeUntil(Ideal(t, b.hash), t.capacity, LAMBDA i : ~IsFull(t, i)), b)

\* The buckets of a whole round from `from` that are full, in the order of RawBuckets.
FullFrom(t, from) ==
  SelectSeq([j \in 1 .. t.capacity |-> from + j - 1], LAMBDA i : IsFull(t, i))

\* resize: from the first bucket in its ideal place once round the old table.
Resize(t, new_capacity) ==
  IF t.capacity = 0 \/ t.size = 0 THEN NewTable(new_capacity)
  ELSE LET start == Min({i \in 0 .. t.capacity - 1 : IsFull(t, i) /\ Distance(t, i) = 0})
       IN FoldLeft(LAMBDA new, i : InsertHashedOrdered(new, At(t, i)),
                   NewTable(new_capacity), FullFrom(t, start))

min_capacity(usable_size) == (usable_size * MinNum) \div MinDen
usable_capacity(cap) == (cap * MinDen) \div MinNum

NextPowerOfTwo(n) == Min({m \in {2^e : e \in 0 .. n} : m >= n})
MaxOf(a, b) == IF a > b THEN a ELSE b

Reserve(t, additional) ==
  LET min_cap == min_capacity(t.size + additional) IN
  IF t.capacity < min_cap
  THEN Resize(t, MaxOf(NextPowerOfTwo(min_cap), InitialCapacity)) ELSE t

\* shrink_to_fit: every bucket from the first, each inserted as a new entry.
ShrinkToFit(t) ==
  LET cap == MaxOf(NextPowerOfTwo(min_capacity(t.size)), InitialCapacity) IN
  IF t.capacity = cap THEN t
  ELSE FoldLeft(LAMBDA new, i : InsertHashedNocheck(new, At(t, i)), NewTable(cap), FullFrom(t, 0))

WithCapacity(capacity) ==
  NewTable(NextPowerOfTwo(MaxOf(InitialCapacity, min_capacity(capacity))))
=============================================================================
