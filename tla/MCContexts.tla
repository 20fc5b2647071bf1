----------------------------- MODULE MCContexts -----------------------------
(* Small instances of Contexts for TLC.                                      *)
EXTENDS Contexts, TLC

(* The addresses other than those of kidle and kinit are interchangeable.    *)
Spare == Permutations(Ptr \ {KIdle, KInit})
=============================================================================
