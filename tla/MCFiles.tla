------------------------------ MODULE MCFiles ------------------------------
(* A disk of seven blocks with two files, one of them in a directory; what is free
   holds what was there before. *)
EXTENDS Files, TLC

CONSTANTS h1, h2

Symmetry == Permutations({h1, h2})

No == [block |-> 0, length |-> 0]
MCNodes == <<[block |-> 1, name |-> <<"a">>, extents |-> <<[block |-> 3, length |-> 2], No>>],
             [block |-> 2, name |-> <<"d", "b">>, extents |-> <<No, No>>]>>
MCDisk == [b \in 3..7 |-> IF b = 3 THEN <<1, 1>> ELSE <<3, 3>>]
MCFree == [block |-> 4, length |-> 8]
MCPaths == {<<"a">>, <<"d">>, <<"d", "b">>, <<"d", "c">>}

============================================================================
