------------------------------ MODULE HashSet ------------------------------
(***************************************************************************)
(* std::collections::HashSet: a HashMap whose values are all the unit      *)
(* value.  The set operations are lazy iterators over one table that ask   *)
(* another; the operators |, &, ^ and - collect them into a new set.       *)
(***************************************************************************)
EXTENDS HashMap

CONSTANT Unit                \* the value ()

IterKeys(t) == [j \in DOMAIN FullFrom(t, 0) |-> At(t, FullFrom(t, 0)[j]).key]

ContainsKey(t, k) == SearchHashed(t, MakeHash(hash[k]), k) # NoIndex

\* Intersection::next and Difference::next skip what the other set has not, or has.
KeepIf(t, other, has) == SelectSeq(IterKeys(t), LAMBDA k : ContainsKey(other, k) = has)

difference(t, other) == KeepIf(t, other, FALSE)
intersection(t, other) == KeepIf(t, other, TRUE)
symmetric_difference(t, other) == difference(t, other) \o difference(other, t)
union(t, other) == IterKeys(t) \o difference(other, t)

is_disjoint(t, other) == \A k \in ToSet(IterKeys(t)) : ~ContainsKey(other, k)
is_subset(t, other) == \A k \in ToSet(IterKeys(t)) : ContainsKey(other, k)
is_superset(t, other) == is_subset(other, t)
set_eq(t, other) == t.size = other.size /\ is_subset(t, other)

extend(t, ks) == FoldLeft(LAMBDA u, k : InsertInto(u, k, Unit), t, ks)

\* from_iter makes room for the lower size hint: 0 for an iterator that filters.
from_iter(lower, ks) == extend(WithCapacity(lower), ks)

bitor(t, other) == from_iter(t.size, union(t, other))
bitand(t, other) == from_iter(0, intersection(t, other))
bitxor(t, other) == from_iter(0, symmetric_difference(t, other))
sub(t, other) == from_iter(0, difference(t, other))

-----------------------------------------------------------------------------
\* The operators and comparisons on a set with any history of insertions, removals and resizes,
\* and a set collected from any keys, are those of sets, and a collected set equals one that
\* holds the same keys by another route, whatever the layout of the two tables.
SetAlgebra ==
  Idle /\ ret = None /\ (\A k \in DOMAIN Contents : Contents[k] = Unit) =>
    LET a == DOMAIN Contents IN
    \A b \in SUBSET Keys :
      LET other == from_iter(Cardinality(b), SetToSeq(b))
          Is(t, s) == ToSet(IterKeys(t)) = s /\ t.size = Cardinality(s)
      IN /\ Is(bitor(table, other), a \cup b)
         /\ Is(bitand(table, other), a \cap b)
         /\ Is(bitxor(table, other), (a \ b) \cup (b \ a))
         /\ Is(sub(table, other), a \ b)
         /\ is_disjoint(table, other) = (a \cap b = {})
         /\ is_subset(table, other) = (a \subseteq b)
         /\ is_superset(table, other) = (b \subseteq a)
         /\ set_eq(table, other) = (a = b)
=============================================================================
