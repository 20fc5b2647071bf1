----------------------------- MODULE Dictionary -----------------------------
(* What a HashMap promises: a finite map, and the answer due to each operation. *)
EXTENDS TLC

CONSTANT None
VARIABLES m, due

DictInit == m = << >> /\ due = None

Lookup(k) == IF k \in DOMAIN m THEN m[k] ELSE None

Store(k, v) == m' = (k :> v) @@ m /\ due' = Lookup(k)

StoreIfAbsent(k, v) == m' = m @@ (k :> v) /\ due' = Lookup(k)

Ask(k) == due' = Lookup(k) /\ UNCHANGED m

Take(k) == m' = [x \in DOMAIN m \ {k} |-> m[x]] /\ due' = Lookup(k)

Empty == m' = << >> /\ due' = None
=============================================================================
