------------------------------ MODULE HashMap ------------------------------
(***************************************************************************)
(* std::collections::HashMap over HashTable: one map, its operations, its  *)
(* entries, and the two iterators that move entries out and may be dropped *)
(* half-way.  The hash function is any one.                                *)
(***************************************************************************)
EXTENDS HashTable, TLC

CONSTANTS Keys, Vals, None,
          Hashes             \* the values a hash may have below the high bit

VARIABLES hash,              \* what the hasher makes of each key
          table,             \* the RawTable
          iter,              \* the iterator that moves entries out, if there is one
          ret,               \* what the last operation answered
          dict, due          \* the map and the answer that Dictionary promises

mapVars == <<hash, table, iter, ret>>

Dict == INSTANCE Dictionary WITH m <- dict

NoIter == [kind |-> "none"]

MapInit ==
  /\ hash \in [Keys -> Hashes]
  /\ table = NewTable(0)
  /\ iter = NoIter
  /\ ret = None
  /\ Dict!DictInit

Bucket(k, v) == [hash |-> MakeHash(hash[k]), key |-> k, val |-> v]

Search(k) == SearchHashed(table, MakeHash(hash[k]), k)

ValAt(t, idx) == IF idx = NoIndex THEN None ELSE At(t, idx).val

Idle == iter.kind = "none"

Answer(t, v) == table' = t /\ ret' = v /\ UNCHANGED <<hash, iter>>

Get(k) == Idle /\ Answer(table, ValAt(table, Search(k))) /\ Dict!Ask(k)

GetMut(k, v) ==
  /\ Idle
  /\ LET idx == Search(k) IN
     /\ idx # NoIndex
     /\ Answer(SetVal(table, idx, v), ValAt(table, idx))
  /\ Dict!Store(k, v)

InsertInto(t, k, v) == InsertOrReplace(Reserve(t, 1), Bucket(k, v), TRUE)

Insert(k, v) ==
  Idle /\ Answer(InsertInto(table, k, v), ValAt(table, Search(k))) /\ Dict!Store(k, v)

RemoveKey(k) ==
  /\ Idle
  /\ LET idx == IF table.size = 0 THEN NoIndex ELSE Search(k) IN
     Answer(IF idx = NoIndex THEN table ELSE PopInternal(table, idx), ValAt(table, idx))
  /\ Dict!Take(k)

\* entry(): room is made first, whatever becomes of the entry.
EntryOf(k) ==
  LET t == Reserve(table, 1)
      idx == InsertProbe(t, MakeHash(hash[k]), k)
  IN [t |-> t, idx |-> idx,
      occupied |-> IsFull(t, idx) /\ Holds(t, idx, MakeHash(hash[k]), k)]

EntryDropped(k) == Idle /\ Answer(EntryOf(k).t, ret) /\ UNCHANGED <<dict, due>>

OrInsert(k, v) ==
  /\ Idle
  /\ LET e == EntryOf(k) IN
     IF e.occupied THEN Answer(e.t, ValAt(e.t, e.idx))
     ELSE Answer(PlaceAt(e.t, e.idx, Bucket(k, v)), None)
  /\ Dict!StoreIfAbsent(k, v)

OccupiedInsert(k, v) ==
  /\ Idle
  /\ LET e == EntryOf(k) IN e.occupied /\ Answer(SetVal(e.t, e.idx, v), ValAt(e.t, e.idx))
  /\ Dict!Store(k, v)

OccupiedRemove(k) ==
  /\ Idle
  /\ LET e == EntryOf(k) IN e.occupied /\ Answer(PopInternal(e.t, e.idx), ValAt(e.t, e.idx))
  /\ Dict!Take(k)

ReserveMore(n) == Idle /\ Answer(Reserve(table, n), ret) /\ UNCHANGED <<dict, due>>

Shrink == Idle /\ Answer(ShrinkToFit(table), ret) /\ UNCHANGED <<dict, due>>

\* clear(): a drain that is dropped at once.
Clear == Idle /\ Answer(NewTable(table.capacity), None) /\ Dict!Empty

\* drain() and into_iter(): both walk the raw buckets from the first.
StartIter(kind) ==
  /\ Idle
  /\ iter' = [kind |-> kind, pos |-> 0, out |-> << >>, all |-> FullFrom(table, 0)]
  /\ UNCHANGED <<hash, table, ret, dict, due>>

NextFull ==
  Min({i \in iter.pos .. table.capacity : i = table.capacity \/ IsFull(table, i)})

\* Drain::next empties the bucket, IntoIter::next leaves it as it was; both count down.
IterNext ==
  /\ ~Idle /\ NextFull < table.capacity
  /\ table' = [table EXCEPT !.size = @ - 1,
                            !.buckets[NextFull] = IF iter.kind = "drain" THEN EmptyBucket ELSE @]
  /\ ret' = At(table, NextFull).val
  /\ iter' = [iter EXCEPT !.pos = NextFull + 1, !.out = Append(@, NextFull)]
  /\ Dict!Take(At(table, NextFull).key)
  /\ UNCHANGED hash

\* Drain::drop runs to the end; RawTable::drop moves as many entries as are left, from the back.
LeftToDrop ==
  IF iter.kind = "drain"
  THEN SelectSeq(FullFrom(table, 0), LAMBDA i : i >= iter.pos)
  ELSE LET full == Reverse(FullFrom(table, 0)) IN SubSeq(full, 1, IF table.size < Len(full) THEN table.size ELSE Len(full))

IterDrop ==
  /\ ~Idle
  /\ table' = NewTable(IF iter.kind = "drain" THEN table.capacity ELSE 0)
  /\ iter' = NoIter
  /\ ret' = None
  /\ Dict!Empty
  /\ UNCHANGED hash

MapNext ==
  \/ \E k \in Keys : Get(k) \/ RemoveKey(k) \/ EntryDropped(k) \/ OccupiedRemove(k)
  \/ \E k \in Keys, v \in Vals : GetMut(k, v) \/ Insert(k, v) \/ OrInsert(k, v) \/ OccupiedInsert(k, v)
  \/ ReserveMore(Cardinality(Keys)) \/ Shrink \/ Clear
  \/ \E kind \in {"drain", "into"} : StartIter(kind)
  \/ IterNext \/ IterDrop

MapSpec == MapInit /\ [][MapNext]_<<mapVars, dict, due>>

-----------------------------------------------------------------------------
\* The entries in the buckets that still belong to the map.
Contents ==
  LET left == IF Idle THEN {i \in DOMAIN table.buckets : IsFull(table, i)} ELSE ToSet(LeftToDrop)
  IN [k \in {At(table, i).key : i \in left} |->
        At(table, CHOOSE i \in left : At(table, i).key = k).val]

\* Through probing, stealing, shifting back, resizing and iterators dropped half-way, the map
\* answers as a finite map does, and holds what that map holds: no entry is lost, doubled,
\* revived or given another's value.
AnswersAsDictionary == Contents = dict /\ ret = due

\* search_hashed finds an entry exactly where one is, once: its early end rests on the Robin
\* Hood order, in which an entry away from its ideal place follows a full bucket whose entry
\* is at most one step nearer to its own.
EntriesReachable ==
  Idle /\ table.capacity > 0 =>
    /\ table.size = Cardinality({i \in DOMAIN table.buckets : IsFull(table, i)})
    /\ \A i \in 1 .. table.capacity : IsFull(table, i) =>
         /\ LET idx == Search(At(table, i).key) IN
            idx # NoIndex /\ idx % table.capacity = i % table.capacity
         /\ Distance(table, i) > 0 =>
              IsFull(table, i - 1) /\ Distance(table, i) <= Distance(table, i - 1) + 1
    /\ \A k \in Keys \ DOMAIN Contents : Search(k) = NoIndex

\* No call can fail an assertion of the code: the probe of an insertion ends within size + 1
\* buckets, robin_hood finds a hole before idx_end, and resize finds a bucket to start from.
\* And a map with fewer entries than capacity() promises takes one more where it is.
AssertionsHold ==
  Idle =>
    /\ \A k \in Keys :
         LET e == EntryOf(k)
             ib == Ideal(e.t, MakeHash(hash[k]))
         IN /\ e.idx <= ib + e.t.size
            /\ IsFull(e.t, e.idx) /\ ~e.occupied =>
                 e.idx + e.t.size - Distance(e.t, e.idx) \notin e.idx + 1 .. NextHole(e.t, e.idx)
    /\ table.size > 0 => \E i \in 0 .. table.capacity - 1 : IsFull(table, i) /\ Distance(table, i) = 0
    /\ table.size < usable_capacity(table.capacity) => Reserve(table, 1) = table

\* An iterator dropped at any point has moved every entry out exactly once, the yielded ones
\* and the dropped ones together, and its length is what is left.
MovedOutOnce ==
  ~Idle =>
    /\ IsInjective(iter.out \o LeftToDrop)
    /\ ToSet(iter.out \o LeftToDrop) = ToSet(iter.all)
    /\ table.size = Len(LeftToDrop)
=============================================================================
