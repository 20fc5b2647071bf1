-------------------------------- MODULE Once --------------------------------
(***************************************************************************)
(* Once::call_once (libstd/src/sync/once.rs) on the spinning StaticMutex   *)
(* (libstd/src/sync/mutex.rs).  Every access to an atomic is a step of its *)
(* own: user threads are switched between any two instructions.            *)
(***************************************************************************)
EXTENDS Integers, FiniteSets

CONSTANTS Thread,
          ISIZE_MIN   \* the "very negative" count

(* "we'll never have isize::MIN simultaneous calls to call_once".            *)
ASSUME OnceAssumption == /\ IsFiniteSet(Thread)
                         /\ ISIZE_MIN \in Int
                         /\ ISIZE_MIN + Cardinality(Thread) < 0

VARIABLES cnt, lock_cnt,  \* the counters of the Once
          lock,           \* its mutex
          pc,             \* per thread, the next step of call_once
          prev,           \* per thread, the local of that name
          runs,           \* history: how often a routine was started
          phase,          \* history: how far the routine is
          returned        \* history: threads that a call has returned to

onceVars == <<cnt, lock_cnt, lock, pc, prev, runs, phase, returned>>

Idle == "idle"   \* not in a call
Holding == {"check", "init", "swap", "store", "unlock"}
Inside == {"lock", "leave", "destroy"} \cup Holding

OnceInit ==
  /\ cnt = 0 /\ lock_cnt = 0 /\ lock = FALSE
  /\ pc = [t \in Thread |-> Idle] /\ prev = [t \in Thread |-> 0]
  /\ runs = 0 /\ phase = "new" /\ returned = {}

-----------------------------------------------------------------------------
Goto(t, from, to) == pc[t] = from /\ pc' = [pc EXCEPT ![t] = to]
Back(t) == returned' = returned \cup {t}

(* Mutant: a call returns when another one is under way.                     *)
Enter_Early(t) ==
  /\ IF cnt # 0 THEN Goto(t, Idle, Idle) /\ Back(t)
                ELSE Goto(t, Idle, "add") /\ UNCHANGED returned
  /\ UNCHANGED <<cnt, lock_cnt, lock, prev, runs, phase>>

(* The load that most calls end with.                                        *)
Enter(t) ==
  /\ IF cnt < 0 THEN Goto(t, Idle, Idle) /\ Back(t)
                ELSE Goto(t, Idle, "add") /\ UNCHANGED returned
  /\ UNCHANGED <<cnt, lock_cnt, lock, prev, runs, phase>>

Add(t) ==
  /\ Goto(t, "add", IF cnt < 0 THEN "reset" ELSE "lock")
  /\ cnt' = cnt + 1
  /\ UNCHANGED <<lock_cnt, lock, prev, runs, phase, returned>>

Reset(t) ==
  /\ Goto(t, "reset", Idle) /\ Back(t)
  /\ cnt' = ISIZE_MIN
  /\ UNCHANGED <<lock_cnt, lock, prev, runs, phase>>

(* StaticMutex::lock; a failed compare_and_swap changes nothing.             *)
Lock(t) ==
  /\ Goto(t, "lock", "check")
  /\ ~ lock /\ lock' = TRUE
  /\ UNCHANGED <<cnt, lock_cnt, prev, runs, phase, returned>>

Check(t) ==
  /\ IF cnt > 0
     THEN /\ Goto(t, "check", "init")
          /\ runs' = runs + 1 /\ phase' = "running"
     ELSE Goto(t, "check", "unlock") /\ UNCHANGED <<runs, phase>>
  /\ UNCHANGED <<cnt, lock_cnt, lock, prev, returned>>

(* The routine f ends.                                                       *)
Routine(t) ==
  /\ Goto(t, "init", "swap")
  /\ phase' = "done"
  /\ UNCHANGED <<cnt, lock_cnt, lock, prev, runs, returned>>

Swap(t) ==
  /\ Goto(t, "swap", "store")
  /\ cnt' = ISIZE_MIN
  /\ prev' = [prev EXCEPT ![t] = cnt]
  /\ UNCHANGED <<lock_cnt, lock, runs, phase, returned>>

(* Mutant: the thread that ran the routine is not counted.                   *)
Store_Short(t) ==
  /\ Goto(t, "store", "unlock")
  /\ lock_cnt' = prev[t] - 1
  /\ UNCHANGED <<cnt, lock, prev, runs, phase, returned>>

Store(t) ==
  /\ Goto(t, "store", "unlock")
  /\ lock_cnt' = prev[t]
  /\ UNCHANGED <<cnt, lock, prev, runs, phase, returned>>

(* Mutant: the guard is forgotten.                                           *)
Unlock_Not(t) ==
  /\ Goto(t, "unlock", "leave")
  /\ UNCHANGED <<cnt, lock_cnt, lock, prev, runs, phase, returned>>

(* MutexGuard::drop.                                                         *)
Unlock(t) ==
  /\ Goto(t, "unlock", "leave")
  /\ lock' = FALSE
  /\ UNCHANGED <<cnt, lock_cnt, prev, runs, phase, returned>>

Leave(t) ==
  /\ IF lock_cnt = 1 THEN Goto(t, "leave", "destroy") /\ UNCHANGED returned
                     ELSE Goto(t, "leave", Idle) /\ Back(t)
  /\ lock_cnt' = lock_cnt - 1
  /\ UNCHANGED <<cnt, lock, prev, runs, phase>>

(* StaticMutex::destroy.                                                     *)
Destroy(t) ==
  /\ Goto(t, "destroy", Idle) /\ Back(t)
  /\ lock' = FALSE
  /\ UNCHANGED <<cnt, lock_cnt, prev, runs, phase>>

Step(t) ==
  \/ Add(t) \/ Reset(t) \/ Lock(t) \/ Check(t) \/ Routine(t) \/ Swap(t)
  \/ Store(t) \/ Unlock(t) \/ Leave(t) \/ Destroy(t)

OnceNext == \E t \in Thread : Enter(t) \/ Step(t)

OnceSpec == OnceInit /\ [][OnceNext]_onceVars

(* A thread in a call is scheduled again, and the routine ends.              *)
FairOnceSpec == OnceSpec /\ \A t \in Thread : WF_onceVars(Step(t))
-----------------------------------------------------------------------------
OnceTypeOK ==
  /\ cnt \in ISIZE_MIN..Cardinality(Thread) /\ lock_cnt \in Nat /\ lock \in BOOLEAN
  /\ pc \in [Thread -> {Idle, "add", "reset"} \cup Inside]
  /\ prev \in [Thread -> Int] /\ runs \in Nat
  /\ phase \in {"new", "running", "done"} /\ returned \subseteq Thread

(* Once is implemented: call_once runs one routine, and returns only when    *)
(* the routine has completed.                                                *)
Call == INSTANCE CallOnce
ImplementsCallOnce == Call!CallSpec

(* The routine is run by at most one thread and at most once.                *)
RunOnce == runs <= 1

(* lock_cnt, once stored, is the number of the calls that still have to get  *)
(* out of the mutex: "the last person on the way out of the mutex is then    *)
(* responsible for destroying the mutex".                                    *)
Leaving == {t \in Thread : pc[t] \in {"lock", "check", "unlock", "leave"}}
CountsLeaving ==
  (phase = "done" /\ \A t \in Thread : pc[t] \notin {"swap", "store"})
    => lock_cnt = Cardinality(Leaving)

(* When the mutex is destroyed "everyone else is done with the mutex": its   *)
(* lock is not taken away from under a holder.                               *)
DestroyedLast == \A t, u \in Thread :
  pc[t] = "destroy" => (u = t \/ pc[u] \notin Inside)

(* "Make sure we never overflow": once the routine has run the count stays   *)
(* negative, whatever late calls add to it.                                  *)
Gate == phase = "done" /\ (\A t \in Thread : pc[t] # "swap")
StaysShut == Gate => cnt < 0

(* Every call returns.                                                       *)
CallsReturn == \A t \in Thread : (pc[t] # Idle) ~> (pc[t] = Idle)
=============================================================================
