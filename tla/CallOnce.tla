------------------------------ MODULE CallOnce ------------------------------
(***************************************************************************)
(* What Once promises its callers (libstd/src/sync/once.rs): one routine   *)
(* is run, once, and no call returns before it has completed.              *)
(***************************************************************************)
CONSTANT Thread

VARIABLES phase,     \* "new", "running" or "done"
          returned   \* the threads that a call has returned to

callVars == <<phase, returned>>

CallInit == phase = "new" /\ returned = {}

Start == phase = "new" /\ phase' = "running" /\ UNCHANGED returned

Complete == phase = "running" /\ phase' = "done" /\ UNCHANGED returned

Return(t) == phase = "done" /\ returned' = returned \cup {t} /\ UNCHANGED phase

CallNext == Start \/ Complete \/ \E t \in Thread : Return(t)

CallSpec == CallInit /\ [][CallNext]_callVars
=============================================================================
