------------------------------ MODULE Threads ------------------------------
(***************************************************************************)
(* Threads (libstd/src/thread.rs) that share a value behind an RwLock      *)
(* (libstd/src/sync/rwlock.rs).  Each section under the lock's own Mutex   *)
(* is one step; the accesses to the value are not, and a thread that       *)
(* panics exits with its guards still held.                                *)
(***************************************************************************)
EXTENDS Integers, FiniteSets

CONSTANTS Worker,      \* threads the program may spawn
          MaxGuards    \* read guards one thread holds at a time

ASSUME ThreadsAssumption == IsFiniteSet(Worker) /\ MaxGuards \in Nat

VARIABLES writer, readers,  \* RwLockInner
          value,            \* what the lock guards
          task,             \* per thread: where it is, its guards and what it has read
          result,           \* per thread, the box that result_ptr points to
          joined,           \* per thread, what join returned
          stores            \* history: writes to the value

threadVars == <<writer, readers, value, task, result, joined, stores>>

Nothing == -1
Unjoined == -2

ThreadsInit ==
  /\ writer = FALSE /\ readers = 0 /\ value = 0
  /\ task = [t \in Worker |-> [at |-> "new", role |-> "reader", guards |-> 0, seen |-> Nothing]]
  /\ result = [t \in Worker |-> Nothing] /\ joined = [t \in Worker |-> Unjoined]
  /\ stores = 0

-----------------------------------------------------------------------------
At(t, place) == task[t].at = place
Go(t, place) == task' = [task EXCEPT ![t].at = place]

(* spawn: the new thread shares the memory and starts with the closure.      *)
spawn_thread(t, role) ==
  /\ At(t, "new")
  /\ task' = [task EXCEPT ![t].at = "start", ![t].role = role]
  /\ UNCHANGED <<writer, readers, value, result, joined, stores>>

Granted(t, place) == task' = [task EXCEPT ![t].guards = @ + 1, ![t].at = place]

(* Mutant: a reader does not look at the writer.                             *)
read_lock_Any(t) ==
  /\ task[t].role = "reader" /\ task[t].at \in {"start", "seen"} /\ task[t].guards < MaxGuards
  /\ readers' = readers + 1
  /\ Granted(t, IF At(t, "start") THEN "locked" ELSE "seen")
  /\ UNCHANGED <<writer, value, result, joined, stores>>

(* RwLock::read; while there is a writer the loop changes nothing.  A reader *)
(* may take another guard while it holds one.                                *)
read_lock(t) ==
  /\ task[t].role = "reader" /\ task[t].at \in {"start", "seen"} /\ task[t].guards < MaxGuards
  /\ ~ writer
  /\ readers' = readers + 1
  /\ Granted(t, IF At(t, "start") THEN "locked" ELSE "seen")
  /\ UNCHANGED <<writer, value, result, joined, stores>>

(* RwLock::write.                                                            *)
write_lock(t) ==
  /\ task[t].role = "writer" /\ At(t, "start")
  /\ ~ writer /\ readers = 0
  /\ writer' = TRUE
  /\ Granted(t, "locked")
  /\ UNCHANGED <<readers, value, result, joined, stores>>

(* The guard's deref.                                                        *)
deref(t) ==
  /\ At(t, "locked")
  /\ task' = [task EXCEPT ![t].at = "seen", ![t].seen = value]
  /\ UNCHANGED <<writer, readers, value, result, joined, stores>>

(* The write guard's deref_mut: the value grows by one.                      *)
deref_mut(t) ==
  /\ task[t].role = "writer" /\ At(t, "seen")
  /\ value' = task[t].seen + 1 /\ stores' = stores + 1
  /\ Go(t, "stored")
  /\ UNCHANGED <<writer, readers, result, joined>>

Released(t) == task[t].guards > 0 /\ task' = [task EXCEPT ![t].guards = @ - 1,
                                                        ![t].at = IF task[t].guards = 1 THEN "done" ELSE @]

drop_read(t) ==
  /\ task[t].role = "reader" /\ At(t, "seen")
  /\ Released(t)
  /\ readers' = readers - 1
  /\ UNCHANGED <<writer, value, result, joined, stores>>

drop_write(t) ==
  /\ task[t].role = "writer" /\ task[t].at \in {"seen", "stored"}
  /\ Released(t)
  /\ writer' = FALSE
  /\ UNCHANGED <<readers, value, result, joined, stores>>

(* The closure's value is stored, then the thread exits.                     *)
Finish(t) ==
  /\ \/ At(t, "done") /\ Go(t, "exiting") /\ result' = [result EXCEPT ![t] = task[t].seen]
     \/ At(t, "exiting") /\ Go(t, "exited") /\ UNCHANGED result
  /\ UNCHANGED <<writer, readers, value, joined, stores>>

(* panic_impl: the thread exits where it is, with its guards.                *)
panic_impl(t) ==
  /\ task[t].at \in {"start", "locked", "seen", "stored"}
  /\ Go(t, "panicked")
  /\ UNCHANGED <<writer, readers, value, result, joined, stores>>

(* JoinHandle::join: waitpid, then the box is taken, which is empty if the   *)
(* closure has not returned.                                                 *)
join(t) ==
  /\ task[t].at \in {"exited", "panicked"} /\ joined[t] = Unjoined
  /\ joined' = [joined EXCEPT ![t] = result[t]]
  /\ UNCHANGED <<writer, readers, value, task, result, stores>>

ThreadsNext ==
  \E t \in Worker :
    \/ \E role \in {"reader", "writer"} : spawn_thread(t, role)
    \/ read_lock(t) \/ write_lock(t) \/ deref(t) \/ deref_mut(t)
    \/ drop_read(t) \/ drop_write(t) \/ Finish(t) \/ panic_impl(t) \/ join(t)

ThreadsSpec == ThreadsInit /\ [][ThreadsNext]_threadVars

-----------------------------------------------------------------------------
(* What a thread has read through its guard is still the value while it      *)
(* holds the guard, no write is lost, and join gives the value of a closure  *)
(* that returned and of no other: a thread that panicked, with the lock or   *)
(* without, has no value to give (RwLock and JoinHandle).  The comment of    *)
(* spawn promises the panic's argument there, which the code does not keep.  *)
SharedSafely ==
  /\ value = stores
  /\ \A t \in Worker :
       /\ At(t, "seen") => task[t].seen = value
       /\ joined[t] # Unjoined => joined[t] = IF At(t, "panicked") THEN Nothing ELSE task[t].seen
=============================================================================
