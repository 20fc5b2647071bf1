------------------------------ MODULE StdProofs ------------------------------
(***************************************************************************)
(* Proofs about four modules of libstd, for every value of their           *)
(* constants: Once, Threads, Process and Durations.                        *)
(***************************************************************************)
EXTENDS Once, Threads, Process, Durations, FiniteSetTheorems, WellFoundedInduction, TLAPS

(***************************************************************************)
(* Once, for every number of threads.  The counters are tied to the sets   *)
(* of threads at each stage: before the gate shuts, cnt counts the threads *)
(* queued for the mutex; after it, lock_cnt counts those that have to      *)
(* leave it.                                                               *)
(***************************************************************************)

Queue == {t \in Thread : pc[t] \in {"lock", "check", "init", "swap"}}
Adding == {t \in Thread : pc[t] = "add"}
Open == phase # "done" \/ \E t \in Thread : pc[t] = "swap"
Stored == ~ Open /\ \A t \in Thread : pc[t] # "store"

(* The mutex has at most one holder, and is locked when it has one.          *)
MutexHeld ==
  /\ \A t \in Thread : pc[t] \in Holding => lock
  /\ \A t, u \in Thread : pc[t] \in Holding /\ pc[u] \in Holding => t = u

(* How far the routine is, is where the thread that runs it is.              *)
PhaseKnown ==
  /\ phase = "new" => runs = 0 /\ returned = {}
  /\ phase # "new" => runs = 1
  /\ phase = "running" => returned = {} /\ \E t \in Thread : pc[t] = "init"
  /\ \A t \in Thread : /\ pc[t] = "init" => phase = "running"
                       /\ pc[t] \in {"swap", "store"} => phase = "done"

(* While the gate is open nobody is past it, and cnt is the queue.           *)
OpenQueue == Open =>
  /\ cnt = Cardinality(Queue) /\ lock_cnt = 0 /\ returned = {}
  /\ \A t \in Thread : pc[t] \notin {"store", "unlock", "leave", "destroy", "reset"}

(* Once shut, the threads still on their way cannot lift the count to 0.     *)
ShutCount == ~ Open =>
  /\ cnt >= ISIZE_MIN
  /\ cnt + Cardinality(Adding) <= ISIZE_MIN + Cardinality(Thread)

(* The count taken by swap is the queue with the thread itself; nobody has   *)
(* left while it is not stored.                                              *)
StoreCount == \A t \in Thread : pc[t] = "store" =>
  /\ lock_cnt = 0
  /\ prev[t] = Cardinality(Leaving \cup {t})
  /\ \A u \in Thread : pc[u] \notin {"leave", "destroy"}

(* After that lock_cnt counts the threads to leave.                          *)
LeaveCount == Stored => lock_cnt = Cardinality(Leaving)

DestroyAlone == \A t \in Thread : pc[t] = "destroy" =>
  Leaving = {} /\ \A u \in Thread : pc[u] = "destroy" => u = t

OTypes ==
  /\ cnt \in Int /\ lock_cnt \in Int /\ lock \in BOOLEAN
  /\ pc \in [Thread -> {Idle, "add", "reset"} \cup Inside]
  /\ prev \in [Thread -> Int] /\ runs \in Nat
  /\ phase \in {"new", "running", "done"} /\ returned \subseteq Thread

OInv ==
  /\ OTypes /\ MutexHeld /\ PhaseKnown /\ OpenQueue /\ ShutCount
  /\ StoreCount /\ LeaveCount /\ DestroyAlone

-----------------------------------------------------------------------------
(* Counting sets of threads when one thread moves.                           *)
LEMMA Counting ==
  ASSUME NEW S, S \subseteq Thread, NEW t \in Thread
  PROVE  /\ IsFiniteSet(S) /\ Cardinality(S) \in Nat
         /\ Cardinality(S) <= Cardinality(Thread)
         /\ t \notin S => Cardinality(S \cup {t}) = Cardinality(S) + 1
         /\ t \in S => Cardinality(S \ {t}) = Cardinality(S) - 1
         /\ t \in S => Cardinality(S) > 0
<1>1. IsFiniteSet(S) /\ Cardinality(S) <= Cardinality(Thread)
  BY OnceAssumption, FS_Subset
<1>2. Cardinality(S) \in Nat
  BY <1>1, FS_CardinalityType
<1>3. t \notin S => Cardinality(S \cup {t}) = Cardinality(S) + 1
  BY <1>1, FS_AddElement
<1>4. t \in S => Cardinality(S \ {t}) = Cardinality(S) - 1
  BY <1>1, FS_RemoveElement
<1>5. t \in S => Cardinality(S) > 0
  BY <1>1, <1>2, FS_EmptySet
<1> QED BY <1>1, <1>2, <1>3, <1>4, <1>5

(* The numbers of the assumption are numbers.                                *)
LEMMA Numbers ==
  /\ Cardinality(Thread) \in Nat /\ ISIZE_MIN \in Int
  /\ ISIZE_MIN + Cardinality(Thread) < 0
BY OnceAssumption, FS_CardinalityType

(* A step of call_once moves one thread.                                     *)
LEMMA OneMoves ==
  ASSUME OTypes, NEW t \in Thread, NEW from, NEW to, Goto(t, from, to),
         to \in {Idle, "add", "reset"} \cup Inside
  PROVE  /\ pc' \in [Thread -> {Idle, "add", "reset"} \cup Inside]
         /\ pc[t] = from /\ pc'[t] = to
         /\ \A u \in Thread : u # t => pc'[u] = pc[u]
BY DEF OTypes, Goto

(* What a set of the threads at some stages becomes when one moves.          *)
LEMMA SetMoves ==
  ASSUME NEW t \in Thread, NEW at,
         \A u \in Thread : u # t => pc'[u] = pc[u]
  PROVE  LET S == {u \in Thread : pc[u] \in at}
             T == {u \in Thread : pc'[u] \in at}
         IN /\ pc[t] \in at /\ pc'[t] \in at => T = S
            /\ pc[t] \notin at /\ pc'[t] \notin at => T = S
            /\ pc[t] \notin at /\ pc'[t] \in at => T = S \cup {t} /\ t \notin S
            /\ pc[t] \in at /\ pc'[t] \notin at => T = S \ {t} /\ t \in S
OBVIOUS

(* The three sets in the primed state, and their sizes.                      *)
LEMMA SetsMove ==
  ASSUME NEW t \in Thread,
         \A u \in Thread : u # t => pc'[u] = pc[u]
  PROVE  /\ pc[t] \in {"lock", "check", "init", "swap"}
              /\ pc'[t] \in {"lock", "check", "init", "swap"} => Queue' = Queue
         /\ pc[t] \notin {"lock", "check", "init", "swap"}
              /\ pc'[t] \notin {"lock", "check", "init", "swap"} => Queue' = Queue
         /\ pc[t] \notin {"lock", "check", "init", "swap"}
              /\ pc'[t] \in {"lock", "check", "init", "swap"}
                => Cardinality(Queue') = Cardinality(Queue) + 1
         /\ pc[t] \in {"lock", "check", "unlock", "leave"}
              /\ pc'[t] \in {"lock", "check", "unlock", "leave"} => Leaving' = Leaving
         /\ pc[t] \notin {"lock", "check", "unlock", "leave"}
              /\ pc'[t] \notin {"lock", "check", "unlock", "leave"} => Leaving' = Leaving
         /\ pc[t] \notin {"lock", "check", "unlock", "leave"}
              /\ pc'[t] \in {"lock", "check", "unlock", "leave"}
                => Leaving' = Leaving \cup {t}
         /\ pc[t] \in {"lock", "check", "unlock", "leave"}
              /\ pc'[t] \notin {"lock", "check", "unlock", "leave"}
                => Leaving' = Leaving \ {t} /\ Cardinality(Leaving') = Cardinality(Leaving) - 1
         /\ pc[t] # "add" /\ pc'[t] # "add" => Adding' = Adding
         /\ pc[t] = "add" /\ pc'[t] # "add"
                => Cardinality(Adding') = Cardinality(Adding) - 1
         /\ pc[t] # "add" /\ pc'[t] = "add"
                => Cardinality(Adding') = Cardinality(Adding) + 1
<1>1. Queue \subseteq Thread /\ Leaving \subseteq Thread /\ Adding \subseteq Thread
  BY DEF Queue, Leaving, Adding
<1>2. /\ Queue = {u \in Thread : pc[u] \in {"lock", "check", "init", "swap"}}
      /\ Queue' = {u \in Thread : pc'[u] \in {"lock", "check", "init", "swap"}}
      /\ Leaving = {u \in Thread : pc[u] \in {"lock", "check", "unlock", "leave"}}
      /\ Leaving' = {u \in Thread : pc'[u] \in {"lock", "check", "unlock", "leave"}}
      /\ Adding = {u \in Thread : pc[u] \in {"add"}}
      /\ Adding' = {u \in Thread : pc'[u] \in {"add"}}
  BY DEF Queue, Leaving, Adding
<1>3. /\ t \notin Queue => Cardinality(Queue \cup {t}) = Cardinality(Queue) + 1
      /\ t \in Leaving => Cardinality(Leaving \ {t}) = Cardinality(Leaving) - 1
      /\ t \notin Adding => Cardinality(Adding \cup {t}) = Cardinality(Adding) + 1
      /\ t \in Adding => Cardinality(Adding \ {t}) = Cardinality(Adding) - 1
  BY <1>1, Counting
<1>4. /\ pc[t] \in {"lock", "check", "init", "swap"}
         /\ pc'[t] \in {"lock", "check", "init", "swap"} => Queue' = Queue
      /\ pc[t] \notin {"lock", "check", "init", "swap"}
         /\ pc'[t] \notin {"lock", "check", "init", "swap"} => Queue' = Queue
      /\ pc[t] \notin {"lock", "check", "init", "swap"}
         /\ pc'[t] \in {"lock", "check", "init", "swap"}
           => Queue' = Queue \cup {t} /\ t \notin Queue
  BY <1>2, SetMoves, Zenon
<1>5. /\ pc[t] \in {"lock", "check", "unlock", "leave"}
         /\ pc'[t] \in {"lock", "check", "unlock", "leave"} => Leaving' = Leaving
      /\ pc[t] \notin {"lock", "check", "unlock", "leave"}
         /\ pc'[t] \notin {"lock", "check", "unlock", "leave"} => Leaving' = Leaving
      /\ pc[t] \notin {"lock", "check", "unlock", "leave"}
         /\ pc'[t] \in {"lock", "check", "unlock", "leave"} => Leaving' = Leaving \cup {t}
      /\ pc[t] \in {"lock", "check", "unlock", "leave"}
         /\ pc'[t] \notin {"lock", "check", "unlock", "leave"}
           => Leaving' = Leaving \ {t} /\ t \in Leaving
  BY <1>2, SetMoves, Zenon
<1>6. /\ pc[t] # "add" /\ pc'[t] # "add" => Adding' = Adding
      /\ pc[t] = "add" /\ pc'[t] # "add" => Adding' = Adding \ {t} /\ t \in Adding
      /\ pc[t] # "add" /\ pc'[t] = "add" => Adding' = Adding \cup {t} /\ t \notin Adding
  BY <1>2, SetMoves
<1> QED BY <1>3, <1>4, <1>5, <1>6

(* Every step of call_once keeps the invariant.                              *)
LEMMA StepKeeps ==
  ASSUME OInv, NEW t \in Thread, Enter(t) \/ Step(t)
  PROVE  OInv'
<1>0. /\ OTypes /\ MutexHeld /\ PhaseKnown /\ OpenQueue /\ ShutCount
      /\ StoreCount /\ LeaveCount /\ DestroyAlone
  BY DEF OInv
<1>n. /\ Cardinality(Queue) \in Nat /\ Cardinality(Leaving) \in Nat
      /\ Cardinality(Adding) \in Nat
      /\ Cardinality(Adding) <= Cardinality(Thread)
      /\ t \in Queue => Cardinality(Queue) > 0
      /\ Leaving \subseteq Thread
      /\ Cardinality(Thread) \in Nat /\ ISIZE_MIN \in Int
      /\ ISIZE_MIN + Cardinality(Thread) < 0
  <2>1. Queue \subseteq Thread /\ Leaving \subseteq Thread /\ Adding \subseteq Thread
    BY DEF Queue, Leaving, Adding
  <2> QED BY <2>1, Counting, Numbers
<1>p. Adding' \subseteq Thread /\ Cardinality(Adding') <= Cardinality(Thread)
      /\ Cardinality(Adding') \in Nat
  <2>1. Adding' \subseteq Thread
    BY DEF Adding
  <2> QED BY <2>1, Counting
<1>1. CASE Enter(t) /\ cnt < 0
  <2>1. Goto(t, Idle, Idle)
    BY <1>1 DEF Enter
  <2>2. /\ pc' \in [Thread -> {Idle, "add", "reset"} \cup Inside]
        /\ pc[t] = Idle /\ pc'[t] = Idle
        /\ \A u \in Thread : u # t => pc'[u] = pc[u]
    BY <1>0, <2>1, OneMoves DEF Inside, Holding
  <2>3. /\ returned' = returned \cup {t}
        /\ UNCHANGED <<cnt, lock_cnt, lock, prev, runs, phase>>
    BY <1>1 DEF Enter, Back
  <2>g. cnt < 0
    BY <1>1 DEF Enter
  <2>4. /\ Queue' = Queue
        /\ Leaving' = Leaving
        /\ Adding' = Adding
    BY <2>2, SetsMove DEF Idle
  <2>5. OTypes'
    BY <1>0, <1>n, <2>2, <2>3 DEF OTypes
  <2>6. MutexHeld'
    BY <1>0, <2>2, <2>3, <2>g DEF MutexHeld, Holding, OTypes, Idle
  <2>7. PhaseKnown'
    BY <1>0, <2>2, <2>3, <2>g, <1>n, <2>4 DEF PhaseKnown, OpenQueue, Open,
       OTypes, Idle, MutexHeld, Holding
  <2>8. OpenQueue'
    BY <1>0, <2>2, <2>3, <2>g, <1>n, <2>4 DEF OpenQueue, PhaseKnown, Open,
       OTypes, Idle, MutexHeld, Holding, StoreCount
  <2>9. ShutCount'
    BY <1>0, <2>2, <2>3, <2>g, <1>n, <1>p, <2>4 DEF ShutCount, OpenQueue,
       PhaseKnown, Open, OTypes, Idle
  <2>10. StoreCount'
    BY <1>0, <2>2, <2>3, <2>g, <1>n, <2>4 DEF StoreCount, OpenQueue,
       PhaseKnown, Open, OTypes, Idle, MutexHeld, Holding, Leaving, Queue
  <2>11. LeaveCount'
    BY <1>0, <2>2, <2>3, <2>g, <1>n, <2>4 DEF LeaveCount, Stored,
       StoreCount, OpenQueue, PhaseKnown, Open, OTypes, Idle, MutexHeld,
       Holding
  <2>12. DestroyAlone'
    BY <1>0, <2>2, <2>3, <2>g, <1>n, <2>4 DEF DestroyAlone, Leaving,
       OpenQueue, Open, PhaseKnown, StoreCount, OTypes, Idle, MutexHeld,
       Holding
  <2> QED BY <2>5, <2>6, <2>7, <2>8, <2>9, <2>10, <2>11, <2>12 DEF OInv
<1>2. CASE Enter(t) /\ ~ (cnt < 0)
  <2>1. Goto(t, Idle, "add")
    BY <1>2 DEF Enter
  <2>2. /\ pc' \in [Thread -> {Idle, "add", "reset"} \cup Inside]
        /\ pc[t] = Idle /\ pc'[t] = "add"
        /\ \A u \in Thread : u # t => pc'[u] = pc[u]
    BY <1>0, <2>1, OneMoves DEF Inside, Holding
  <2>3. /\ UNCHANGED <<cnt, lock_cnt, lock, prev, runs, phase, returned>>
    BY <1>2 DEF Enter
  <2>g. ~ (cnt < 0)
    BY <1>2 DEF Enter
  <2>4. /\ Queue' = Queue
        /\ Leaving' = Leaving
        /\ Cardinality(Adding') = Cardinality(Adding) + 1
    BY <2>2, SetsMove DEF Idle
  <2>5. OTypes'
    BY <1>0, <1>n, <2>2, <2>3 DEF OTypes
  <2>6. MutexHeld'
    BY <1>0, <2>2, <2>3, <2>g DEF MutexHeld, Holding, OTypes, Idle
  <2>7. PhaseKnown'
    BY <1>0, <2>2, <2>3, <2>g, <1>n, <2>4 DEF PhaseKnown, OpenQueue, Open,
       OTypes, Idle, MutexHeld, Holding
  <2>8. OpenQueue'
    BY <1>0, <2>2, <2>3, <2>g, <1>n, <2>4 DEF OpenQueue, PhaseKnown, Open,
       OTypes, Idle, MutexHeld, Holding, StoreCount
  <2>9. ShutCount'
    BY <1>0, <2>2, <2>3, <2>g, <1>n, <1>p, <2>4 DEF ShutCount, OpenQueue,
       PhaseKnown, Open, OTypes, Idle
  <2>10. StoreCount'
    BY <1>0, <2>2, <2>3, <2>g, <1>n, <2>4 DEF StoreCount, OpenQueue,
       PhaseKnown, Open, OTypes, Idle, MutexHeld, Holding, Leaving, Queue
  <2>11. LeaveCount'
    BY <1>0, <2>2, <2>3, <2>g, <1>n, <2>4 DEF LeaveCount, Stored,
       StoreCount, OpenQueue, PhaseKnown, Open, OTypes, Idle, MutexHeld,
       Holding
  <2>12. DestroyAlone'
    BY <1>0, <2>2, <2>3, <2>g, <1>n, <2>4 DEF DestroyAlone, Leaving,
       OpenQueue, Open, PhaseKnown, StoreCount, OTypes, Idle, MutexHeld,
       Holding
  <2> QED BY <2>5, <2>6, <2>7, <2>8, <2>9, <2>10, <2>11, <2>12 DEF OInv
<1>3. CASE Add(t) /\ cnt < 0
  <2>1. Goto(t, "add", "reset")
    BY <1>3 DEF Add
  <2>2. /\ pc' \in [Thread -> {Idle, "add", "reset"} \cup Inside]
        /\ pc[t] = "add" /\ pc'[t] = "reset"
        /\ \A u \in Thread : u # t => pc'[u] = pc[u]
    BY <1>0, <2>1, OneMoves DEF Inside, Holding
  <2>3. /\ cnt' = cnt + 1
        /\ UNCHANGED <<lock_cnt, lock, prev, runs, phase, returned>>
    BY <1>3 DEF Add
  <2>g. cnt < 0
    BY <1>3 DEF Add
  <2>4. /\ Queue' = Queue
        /\ Leaving' = Leaving
        /\ Cardinality(Adding') = Cardinality(Adding) - 1
    BY <2>2, SetsMove DEF Idle
  <2>5. OTypes'
    BY <1>0, <1>n, <2>2, <2>3 DEF OTypes
  <2>6. MutexHeld'
    BY <1>0, <2>2, <2>3, <2>g DEF MutexHeld, Holding, OTypes, Idle
  <2>7. PhaseKnown'
    BY <1>0, <2>2, <2>3, <2>g, <1>n, <2>4 DEF PhaseKnown, OpenQueue, Open,
       OTypes, Idle, MutexHeld, Holding
  <2>8. OpenQueue'
    BY <1>0, <2>2, <2>3, <2>g, <1>n, <2>4 DEF OpenQueue, PhaseKnown, Open,
       OTypes, Idle, MutexHeld, Holding, StoreCount
  <2>9. ShutCount'
    BY <1>0, <2>2, <2>3, <2>g, <1>n, <1>p, <2>4 DEF ShutCount, OpenQueue,
       PhaseKnown, Open, OTypes, Idle
  <2>10. StoreCount'
    BY <1>0, <2>2, <2>3, <2>g, <1>n, <2>4 DEF StoreCount, OpenQueue,
       PhaseKnown, Open, OTypes, Idle, MutexHeld, Holding, Leaving, Queue
  <2>11. LeaveCount'
    BY <1>0, <2>2, <2>3, <2>g, <1>n, <2>4 DEF LeaveCount, Stored,
       StoreCount, OpenQueue, PhaseKnown, Open, OTypes, Idle, MutexHeld,
       Holding
  <2>12. DestroyAlone'
    BY <1>0, <2>2, <2>3, <2>g, <1>n, <2>4 DEF DestroyAlone, Leaving,
       OpenQueue, Open, PhaseKnown, StoreCount, OTypes, Idle, MutexHeld,
       Holding
  <2> QED BY <2>5, <2>6, <2>7, <2>8, <2>9, <2>10, <2>11, <2>12 DEF OInv
<1>4. CASE Add(t) /\ ~ (cnt < 0)
  <2>1. Goto(t, "add", "lock")
    BY <1>4 DEF Add
  <2>2. /\ pc' \in [Thread -> {Idle, "add", "reset"} \cup Inside]
        /\ pc[t] = "add" /\ pc'[t] = "lock"
        /\ \A u \in Thread : u # t => pc'[u] = pc[u]
    BY <1>0, <2>1, OneMoves DEF Inside, Holding
  <2>3. /\ cnt' = cnt + 1
        /\ UNCHANGED <<lock_cnt, lock, prev, runs, phase, returned>>
    BY <1>4 DEF Add
  <2>g. ~ (cnt < 0)
    BY <1>4 DEF Add
  <2>4. /\ Cardinality(Queue') = Cardinality(Queue) + 1
        /\ Leaving' = Leaving \cup {t}
        /\ Cardinality(Adding') = Cardinality(Adding) - 1
    BY <2>2, SetsMove DEF Idle
  <2>h. Open
    BY <1>0, <1>n, <2>g DEF ShutCount, OTypes
  <2>5. OTypes'
    BY <1>0, <1>n, <2>2, <2>3 DEF OTypes
  <2>6. MutexHeld'
    BY <1>0, <2>2, <2>3, <2>g, <2>h DEF MutexHeld, Holding, OTypes, Idle
  <2>7. PhaseKnown'
    BY <1>0, <2>2, <2>3, <2>g, <2>h, <1>n, <2>4 DEF PhaseKnown, OpenQueue,
       Open, OTypes, Idle, MutexHeld, Holding
  <2>8. OpenQueue'
    BY <1>0, <2>2, <2>3, <2>g, <2>h, <1>n, <2>4 DEF OpenQueue, PhaseKnown,
       Open, OTypes, Idle, MutexHeld, Holding, StoreCount
  <2>9. ShutCount'
    BY <1>0, <2>2, <2>3, <2>g, <2>h, <1>n, <1>p, <2>4 DEF ShutCount,
       OpenQueue, PhaseKnown, Open, OTypes, Idle
  <2>10. StoreCount'
    BY <1>0, <2>2, <2>3, <2>g, <2>h, <1>n, <2>4 DEF StoreCount, OpenQueue,
       PhaseKnown, Open, OTypes, Idle, MutexHeld, Holding, Leaving, Queue
  <2>11. LeaveCount'
    BY <1>0, <2>2, <2>3, <2>g, <2>h, <1>n, <2>4 DEF LeaveCount, Stored,
       StoreCount, OpenQueue, PhaseKnown, Open, OTypes, Idle, MutexHeld,
       Holding
  <2>12. DestroyAlone'
    BY <1>0, <2>2, <2>3, <2>g, <2>h, <1>n, <2>4 DEF DestroyAlone, Leaving,
       OpenQueue, Open, PhaseKnown, StoreCount, OTypes, Idle, MutexHeld,
       Holding
  <2> QED BY <2>5, <2>6, <2>7, <2>8, <2>9, <2>10, <2>11, <2>12 DEF OInv
<1>5. CASE Reset(t)
  <2>1. Goto(t, "reset", Idle)
    BY <1>5 DEF Reset
  <2>2. /\ pc' \in [Thread -> {Idle, "add", "reset"} \cup Inside]
        /\ pc[t] = "reset" /\ pc'[t] = Idle
        /\ \A u \in Thread : u # t => pc'[u] = pc[u]
    BY <1>0, <2>1, OneMoves DEF Inside, Holding
  <2>3. /\ cnt' = ISIZE_MIN
        /\ returned' = returned \cup {t}
        /\ UNCHANGED <<lock_cnt, lock, prev, runs, phase>>
    BY <1>5 DEF Reset, Back
  <2>4. /\ Queue' = Queue
        /\ Leaving' = Leaving
        /\ Adding' = Adding
    BY <2>2, SetsMove DEF Idle
  <2>5. OTypes'
    BY <1>0, <1>n, <2>2, <2>3 DEF OTypes
  <2>6. MutexHeld'
    BY <1>0, <2>2, <2>3 DEF MutexHeld, Holding, OTypes, Idle
  <2>7. PhaseKnown'
    BY <1>0, <2>2, <2>3, <1>n, <2>4 DEF PhaseKnown, OpenQueue, Open,
       OTypes, Idle, MutexHeld, Holding
  <2>8. OpenQueue'
    BY <1>0, <2>2, <2>3, <1>n, <2>4 DEF OpenQueue, PhaseKnown, Open,
       OTypes, Idle, MutexHeld, Holding, StoreCount
  <2>9. ShutCount'
    BY <1>0, <2>2, <2>3, <1>n, <1>p, <2>4 DEF ShutCount, OpenQueue,
       PhaseKnown, Open, OTypes, Idle
  <2>10. StoreCount'
    BY <1>0, <2>2, <2>3, <1>n, <2>4 DEF StoreCount, OpenQueue, PhaseKnown,
       Open, OTypes, Idle, MutexHeld, Holding, Leaving, Queue
  <2>11. LeaveCount'
    BY <1>0, <2>2, <2>3, <1>n, <2>4 DEF LeaveCount, Stored, StoreCount,
       OpenQueue, PhaseKnown, Open, OTypes, Idle, MutexHeld, Holding
  <2>12. DestroyAlone'
    BY <1>0, <2>2, <2>3, <1>n, <2>4 DEF DestroyAlone, Leaving, OpenQueue,
       Open, PhaseKnown, StoreCount, OTypes, Idle, MutexHeld, Holding
  <2> QED BY <2>5, <2>6, <2>7, <2>8, <2>9, <2>10, <2>11, <2>12 DEF OInv
<1>6. CASE Lock(t)
  <2>1. Goto(t, "lock", "check")
    BY <1>6 DEF Lock
  <2>2. /\ pc' \in [Thread -> {Idle, "add", "reset"} \cup Inside]
        /\ pc[t] = "lock" /\ pc'[t] = "check"
        /\ \A u \in Thread : u # t => pc'[u] = pc[u]
    BY <1>0, <2>1, OneMoves DEF Inside, Holding
  <2>3. /\ lock' = TRUE
        /\ UNCHANGED <<cnt, lock_cnt, prev, runs, phase, returned>>
    BY <1>6 DEF Lock
  <2>g. ~ lock
    BY <1>6 DEF Lock
  <2>4. /\ Queue' = Queue
        /\ Leaving' = Leaving
        /\ Adding' = Adding
    BY <2>2, SetsMove DEF Idle
  <2>5. OTypes'
    BY <1>0, <1>n, <2>2, <2>3 DEF OTypes
  <2>6. MutexHeld'
    BY <1>0, <2>2, <2>3, <2>g DEF MutexHeld, Holding, OTypes, Idle
  <2>7. PhaseKnown'
    BY <1>0, <2>2, <2>3, <2>g, <1>n, <2>4 DEF PhaseKnown, OpenQueue, Open,
       OTypes, Idle, MutexHeld, Holding
  <2>8. OpenQueue'
    BY <1>0, <2>2, <2>3, <2>g, <1>n, <2>4 DEF OpenQueue, PhaseKnown, Open,
       OTypes, Idle, MutexHeld, Holding, StoreCount
  <2>9. ShutCount'
    BY <1>0, <2>2, <2>3, <2>g, <1>n, <1>p, <2>4 DEF ShutCount, OpenQueue,
       PhaseKnown, Open, OTypes, Idle
  <2>10. StoreCount'
    BY <1>0, <2>2, <2>3, <2>g, <1>n, <2>4 DEF StoreCount, OpenQueue,
       PhaseKnown, Open, OTypes, Idle, MutexHeld, Holding, Leaving, Queue
  <2>11. LeaveCount'
    BY <1>0, <2>2, <2>3, <2>g, <1>n, <2>4 DEF LeaveCount, Stored,
       StoreCount, OpenQueue, PhaseKnown, Open, OTypes, Idle, MutexHeld,
       Holding
  <2>12. DestroyAlone'
    BY <1>0, <2>2, <2>3, <2>g, <1>n, <2>4 DEF DestroyAlone, Leaving,
       OpenQueue, Open, PhaseKnown, StoreCount, OTypes, Idle, MutexHeld,
       Holding
  <2> QED BY <2>5, <2>6, <2>7, <2>8, <2>9, <2>10, <2>11, <2>12 DEF OInv
<1>7. CASE Check(t) /\ cnt > 0
  <2>1. Goto(t, "check", "init")
    BY <1>7 DEF Check
  <2>2. /\ pc' \in [Thread -> {Idle, "add", "reset"} \cup Inside]
        /\ pc[t] = "check" /\ pc'[t] = "init"
        /\ \A u \in Thread : u # t => pc'[u] = pc[u]
    BY <1>0, <2>1, OneMoves DEF Inside, Holding
  <2>3. /\ runs' = runs + 1
        /\ phase' = "running"
        /\ UNCHANGED <<cnt, lock_cnt, lock, prev, returned>>
    BY <1>7 DEF Check
  <2>g. cnt > 0
    BY <1>7 DEF Check
  <2>4. /\ Queue' = Queue
        /\ Leaving' = Leaving \ {t} /\ Cardinality(Leaving') = Cardinality(Leaving) - 1
        /\ Adding' = Adding
    BY <2>2, SetsMove DEF Idle
  <2>h. phase = "new"
    <3>1. t \in Queue /\ pc[t] \in Holding
      BY <2>2 DEF Queue, Holding
    <3>2. Open
      BY <1>0, <1>n, <2>g DEF ShutCount, OTypes
    <3>3. \A u \in Thread : pc[u] \notin {"init", "swap"}
      BY <1>0, <2>2, <3>1 DEF MutexHeld, Holding
    <3> QED BY <1>0, <3>2, <3>3 DEF Open, PhaseKnown, OTypes
  <2>5. OTypes'
    BY <1>0, <1>n, <2>2, <2>3 DEF OTypes
  <2>6. MutexHeld'
    BY <1>0, <2>2, <2>3, <2>g, <2>h DEF MutexHeld, Holding, OTypes, Idle
  <2>7. PhaseKnown'
    BY <1>0, <2>2, <2>3, <2>g, <2>h, <1>n, <2>4 DEF PhaseKnown, OpenQueue,
       Open, OTypes, Idle, MutexHeld, Holding
  <2>8. OpenQueue'
    BY <1>0, <2>2, <2>3, <2>g, <2>h, <1>n, <2>4 DEF OpenQueue, PhaseKnown,
       Open, OTypes, Idle, MutexHeld, Holding, StoreCount
  <2>9. ShutCount'
    BY <1>0, <2>2, <2>3, <2>g, <2>h, <1>n, <1>p, <2>4 DEF ShutCount,
       OpenQueue, PhaseKnown, Open, OTypes, Idle
  <2>10. StoreCount'
    BY <1>0, <2>2, <2>3, <2>g, <2>h, <1>n, <2>4 DEF StoreCount, OpenQueue,
       PhaseKnown, Open, OTypes, Idle, MutexHeld, Holding, Leaving, Queue
  <2>11. LeaveCount'
    BY <1>0, <2>2, <2>3, <2>g, <2>h, <1>n, <2>4 DEF LeaveCount, Stored,
       StoreCount, OpenQueue, PhaseKnown, Open, OTypes, Idle, MutexHeld,
       Holding
  <2>12. DestroyAlone'
    BY <1>0, <2>2, <2>3, <2>g, <2>h, <1>n, <2>4 DEF DestroyAlone, Leaving,
       OpenQueue, Open, PhaseKnown, StoreCount, OTypes, Idle, MutexHeld,
       Holding
  <2> QED BY <2>5, <2>6, <2>7, <2>8, <2>9, <2>10, <2>11, <2>12 DEF OInv
<1>8. CASE Check(t) /\ ~ (cnt > 0)
  <2>1. Goto(t, "check", "unlock")
    BY <1>8 DEF Check
  <2>2. /\ pc' \in [Thread -> {Idle, "add", "reset"} \cup Inside]
        /\ pc[t] = "check" /\ pc'[t] = "unlock"
        /\ \A u \in Thread : u # t => pc'[u] = pc[u]
    BY <1>0, <2>1, OneMoves DEF Inside, Holding
  <2>3. /\ UNCHANGED <<cnt, lock_cnt, lock, prev, runs, phase, returned>>
    BY <1>8 DEF Check
  <2>g. ~ (cnt > 0)
    BY <1>8 DEF Check
  <2>4. /\ Leaving' = Leaving
        /\ Adding' = Adding
    BY <2>2, SetsMove DEF Idle
  <2>h. ~ Open
    <3>1. t \in Queue
      BY <2>2 DEF Queue
    <3> QED BY <1>0, <1>n, <2>g, <3>1 DEF OpenQueue, OTypes
  <2>5. OTypes'
    BY <1>0, <1>n, <2>2, <2>3 DEF OTypes
  <2>6. MutexHeld'
    BY <1>0, <2>2, <2>3, <2>g, <2>h DEF MutexHeld, Holding, OTypes, Idle
  <2>7. PhaseKnown'
    BY <1>0, <2>2, <2>3, <2>g, <2>h, <1>n, <2>4 DEF PhaseKnown, OpenQueue,
       Open, OTypes, Idle, MutexHeld, Holding
  <2>8. OpenQueue'
    BY <1>0, <2>2, <2>3, <2>g, <2>h, <1>n, <2>4 DEF OpenQueue, PhaseKnown,
       Open, OTypes, Idle, MutexHeld, Holding, StoreCount
  <2>9. ShutCount'
    BY <1>0, <2>2, <2>3, <2>g, <2>h, <1>n, <1>p, <2>4 DEF ShutCount,
       OpenQueue, PhaseKnown, Open, OTypes, Idle
  <2>10. StoreCount'
    BY <1>0, <2>2, <2>3, <2>g, <2>h, <1>n, <2>4 DEF StoreCount, OpenQueue,
       PhaseKnown, Open, OTypes, Idle, MutexHeld, Holding, Leaving, Queue
  <2>11. LeaveCount'
    BY <1>0, <2>2, <2>3, <2>g, <2>h, <1>n, <2>4 DEF LeaveCount, Stored,
       StoreCount, OpenQueue, PhaseKnown, Open, OTypes, Idle, MutexHeld,
       Holding
  <2>12. DestroyAlone'
    BY <1>0, <2>2, <2>3, <2>g, <2>h, <1>n, <2>4 DEF DestroyAlone, Leaving,
       OpenQueue, Open, PhaseKnown, StoreCount, OTypes, Idle, MutexHeld,
       Holding
  <2> QED BY <2>5, <2>6, <2>7, <2>8, <2>9, <2>10, <2>11, <2>12 DEF OInv
<1>9. CASE Routine(t)
  <2>1. Goto(t, "init", "swap")
    BY <1>9 DEF Routine
  <2>2. /\ pc' \in [Thread -> {Idle, "add", "reset"} \cup Inside]
        /\ pc[t] = "init" /\ pc'[t] = "swap"
        /\ \A u \in Thread : u # t => pc'[u] = pc[u]
    BY <1>0, <2>1, OneMoves DEF Inside, Holding
  <2>3. /\ phase' = "done"
        /\ UNCHANGED <<cnt, lock_cnt, lock, prev, runs, returned>>
    BY <1>9 DEF Routine
  <2>4. /\ Queue' = Queue
        /\ Leaving' = Leaving
        /\ Adding' = Adding
    BY <2>2, SetsMove DEF Idle
  <2>5. OTypes'
    BY <1>0, <1>n, <2>2, <2>3 DEF OTypes
  <2>6. MutexHeld'
    BY <1>0, <2>2, <2>3 DEF MutexHeld, Holding, OTypes, Idle
  <2>7. PhaseKnown'
    BY <1>0, <2>2, <2>3, <1>n, <2>4 DEF PhaseKnown, OpenQueue, Open,
       OTypes, Idle, MutexHeld, Holding
  <2>8. OpenQueue'
    BY <1>0, <2>2, <2>3, <1>n, <2>4 DEF OpenQueue, PhaseKnown, Open,
       OTypes, Idle, MutexHeld, Holding, StoreCount
  <2>9. ShutCount'
    BY <1>0, <2>2, <2>3, <1>n, <1>p, <2>4 DEF ShutCount, OpenQueue,
       PhaseKnown, Open, OTypes, Idle
  <2>10. StoreCount'
    BY <1>0, <2>2, <2>3, <1>n, <2>4 DEF StoreCount, OpenQueue, PhaseKnown,
       Open, OTypes, Idle, MutexHeld, Holding, Leaving, Queue
  <2>11. LeaveCount'
    BY <1>0, <2>2, <2>3, <1>n, <2>4 DEF LeaveCount, Stored, StoreCount,
       OpenQueue, PhaseKnown, Open, OTypes, Idle, MutexHeld, Holding
  <2>12. DestroyAlone'
    BY <1>0, <2>2, <2>3, <1>n, <2>4 DEF DestroyAlone, Leaving, OpenQueue,
       Open, PhaseKnown, StoreCount, OTypes, Idle, MutexHeld, Holding
  <2> QED BY <2>5, <2>6, <2>7, <2>8, <2>9, <2>10, <2>11, <2>12 DEF OInv
<1>10. CASE Swap(t)
  <2>1. Goto(t, "swap", "store")
    BY <1>10 DEF Swap
  <2>2. /\ pc' \in [Thread -> {Idle, "add", "reset"} \cup Inside]
        /\ pc[t] = "swap" /\ pc'[t] = "store"
        /\ \A u \in Thread : u # t => pc'[u] = pc[u]
    BY <1>0, <2>1, OneMoves DEF Inside, Holding
  <2>3. /\ cnt' = ISIZE_MIN
        /\ prev' = [prev EXCEPT ![t] = cnt]
        /\ UNCHANGED <<lock_cnt, lock, runs, phase, returned>>
    BY <1>10 DEF Swap
  <2>4. /\ Leaving' = Leaving
        /\ Adding' = Adding
    BY <2>2, SetsMove DEF Idle
  <2>5. OTypes'
    BY <1>0, <1>n, <2>2, <2>3 DEF OTypes
  <2>6. MutexHeld'
    BY <1>0, <2>2, <2>3 DEF MutexHeld, Holding, OTypes, Idle
  <2>7. PhaseKnown'
    BY <1>0, <2>2, <2>3, <1>n, <2>4 DEF PhaseKnown, OpenQueue, Open,
       OTypes, Idle, MutexHeld, Holding
  <2>8. OpenQueue'
    BY <1>0, <2>2, <2>3, <1>n, <2>4 DEF OpenQueue, PhaseKnown, Open,
       OTypes, Idle, MutexHeld, Holding, StoreCount
  <2>9. ShutCount'
    BY <1>0, <2>2, <2>3, <1>n, <1>p, <2>4 DEF ShutCount, OpenQueue,
       PhaseKnown, Open, OTypes, Idle
  <2>10. StoreCount'
    BY <1>0, <2>2, <2>3, <1>n, <2>4 DEF StoreCount, OpenQueue, PhaseKnown,
       Open, OTypes, Idle, MutexHeld, Holding, Leaving, Queue
  <2>11. LeaveCount'
    BY <1>0, <2>2, <2>3, <1>n, <2>4 DEF LeaveCount, Stored, StoreCount,
       OpenQueue, PhaseKnown, Open, OTypes, Idle, MutexHeld, Holding
  <2>12. DestroyAlone'
    BY <1>0, <2>2, <2>3, <1>n, <2>4 DEF DestroyAlone, Leaving, OpenQueue,
       Open, PhaseKnown, StoreCount, OTypes, Idle, MutexHeld, Holding
  <2> QED BY <2>5, <2>6, <2>7, <2>8, <2>9, <2>10, <2>11, <2>12 DEF OInv
<1>11. CASE Store(t)
  <2>1. Goto(t, "store", "unlock")
    BY <1>11 DEF Store
  <2>2. /\ pc' \in [Thread -> {Idle, "add", "reset"} \cup Inside]
        /\ pc[t] = "store" /\ pc'[t] = "unlock"
        /\ \A u \in Thread : u # t => pc'[u] = pc[u]
    BY <1>0, <2>1, OneMoves DEF Inside, Holding
  <2>3. /\ lock_cnt' = prev[t]
        /\ UNCHANGED <<cnt, lock, prev, runs, phase, returned>>
    BY <1>11 DEF Store
  <2>4. /\ Queue' = Queue
        /\ Leaving' = Leaving \cup {t}
        /\ Adding' = Adding
    BY <2>2, SetsMove DEF Idle
  <2>5. OTypes'
    BY <1>0, <1>n, <2>2, <2>3 DEF OTypes
  <2>6. MutexHeld'
    BY <1>0, <2>2, <2>3 DEF MutexHeld, Holding, OTypes, Idle
  <2>7. PhaseKnown'
    BY <1>0, <2>2, <2>3, <1>n, <2>4 DEF PhaseKnown, OpenQueue, Open,
       OTypes, Idle, MutexHeld, Holding
  <2>8. OpenQueue'
    BY <1>0, <2>2, <2>3, <1>n, <2>4 DEF OpenQueue, PhaseKnown, Open,
       OTypes, Idle, MutexHeld, Holding, StoreCount
  <2>9. ShutCount'
    BY <1>0, <2>2, <2>3, <1>n, <1>p, <2>4 DEF ShutCount, OpenQueue,
       PhaseKnown, Open, OTypes, Idle
  <2>10. StoreCount'
    BY <1>0, <2>2, <2>3, <1>n, <2>4 DEF StoreCount, OpenQueue, PhaseKnown,
       Open, OTypes, Idle, MutexHeld, Holding, Leaving, Queue
  <2>11. LeaveCount'
    BY <1>0, <2>2, <2>3, <1>n, <2>4 DEF LeaveCount, Stored, StoreCount,
       OpenQueue, PhaseKnown, Open, OTypes, Idle, MutexHeld, Holding
  <2>12. DestroyAlone'
    BY <1>0, <2>2, <2>3, <1>n, <2>4 DEF DestroyAlone, Leaving, OpenQueue,
       Open, PhaseKnown, StoreCount, OTypes, Idle, MutexHeld, Holding
  <2> QED BY <2>5, <2>6, <2>7, <2>8, <2>9, <2>10, <2>11, <2>12 DEF OInv
<1>12. CASE Unlock(t)
  <2>1. Goto(t, "unlock", "leave")
    BY <1>12 DEF Unlock
  <2>2. /\ pc' \in [Thread -> {Idle, "add", "reset"} \cup Inside]
        /\ pc[t] = "unlock" /\ pc'[t] = "leave"
        /\ \A u \in Thread : u # t => pc'[u] = pc[u]
    BY <1>0, <2>1, OneMoves DEF Inside, Holding
  <2>3. /\ lock' = FALSE
        /\ UNCHANGED <<cnt, lock_cnt, prev, runs, phase, returned>>
    BY <1>12 DEF Unlock
  <2>4. /\ Queue' = Queue
        /\ Leaving' = Leaving
        /\ Adding' = Adding
    BY <2>2, SetsMove DEF Idle
  <2>5. OTypes'
    BY <1>0, <1>n, <2>2, <2>3 DEF OTypes
  <2>6. MutexHeld'
    BY <1>0, <2>2, <2>3 DEF MutexHeld, Holding, OTypes, Idle
  <2>7. PhaseKnown'
    BY <1>0, <2>2, <2>3, <1>n, <2>4 DEF PhaseKnown, OpenQueue, Open,
       OTypes, Idle, MutexHeld, Holding
  <2>8. OpenQueue'
    BY <1>0, <2>2, <2>3, <1>n, <2>4 DEF OpenQueue, PhaseKnown, Open,
       OTypes, Idle, MutexHeld, Holding, StoreCount
  <2>9. ShutCount'
    BY <1>0, <2>2, <2>3, <1>n, <1>p, <2>4 DEF ShutCount, OpenQueue,
       PhaseKnown, Open, OTypes, Idle
  <2>10. StoreCount'
    BY <1>0, <2>2, <2>3, <1>n, <2>4 DEF StoreCount, OpenQueue, PhaseKnown,
       Open, OTypes, Idle, MutexHeld, Holding, Leaving, Queue
  <2>11. LeaveCount'
    BY <1>0, <2>2, <2>3, <1>n, <2>4 DEF LeaveCount, Stored, StoreCount,
       OpenQueue, PhaseKnown, Open, OTypes, Idle, MutexHeld, Holding
  <2>12. DestroyAlone'
    BY <1>0, <2>2, <2>3, <1>n, <2>4 DEF DestroyAlone, Leaving, OpenQueue,
       Open, PhaseKnown, StoreCount, OTypes, Idle, MutexHeld, Holding
  <2> QED BY <2>5, <2>6, <2>7, <2>8, <2>9, <2>10, <2>11, <2>12 DEF OInv
<1>13. CASE Leave(t) /\ lock_cnt = 1
  <2>1. Goto(t, "leave", "destroy")
    BY <1>13 DEF Leave
  <2>2. /\ pc' \in [Thread -> {Idle, "add", "reset"} \cup Inside]
        /\ pc[t] = "leave" /\ pc'[t] = "destroy"
        /\ \A u \in Thread : u # t => pc'[u] = pc[u]
    BY <1>0, <2>1, OneMoves DEF Inside, Holding
  <2>3. /\ lock_cnt' = lock_cnt - 1
        /\ UNCHANGED <<cnt, lock, prev, runs, phase, returned>>
    BY <1>13 DEF Leave
  <2>g. lock_cnt = 1
    BY <1>13 DEF Leave
  <2>4. /\ Queue' = Queue
        /\ Leaving' = Leaving \ {t} /\ Cardinality(Leaving') = Cardinality(Leaving) - 1
        /\ Adding' = Adding
    BY <2>2, SetsMove DEF Idle
  <2>h. Leaving' = {} /\ t \in Leaving /\ ~ Open /\ Stored
    <3>1. t \in Leaving
      BY <2>2 DEF Leaving
    <3>2. ~ Open /\ Stored
      BY <1>0, <2>2 DEF OpenQueue, StoreCount, Stored
    <3>3. Cardinality(Leaving) = 1
      BY <1>0, <2>g, <3>2 DEF LeaveCount
    <3>4. Cardinality(Leaving') = 0 /\ Leaving' \subseteq Thread
      BY <2>4, <3>3 DEF Leaving
    <3>5. Leaving' = {}
      BY <3>4, OnceAssumption, FS_Subset, FS_EmptySet
    <3> QED BY <3>1, <3>2, <3>5
  <2>5. OTypes'
    BY <1>0, <1>n, <2>2, <2>3 DEF OTypes
  <2>6. MutexHeld'
    BY <1>0, <2>2, <2>3, <2>g, <2>h DEF MutexHeld, Holding, OTypes, Idle
  <2>7. PhaseKnown'
    BY <1>0, <2>2, <2>3, <2>g, <2>h, <1>n, <2>4 DEF PhaseKnown, OpenQueue,
       Open, OTypes, Idle, MutexHeld, Holding
  <2>8. OpenQueue'
    BY <1>0, <2>2, <2>3, <2>g, <2>h, <1>n, <2>4 DEF OpenQueue, PhaseKnown,
       Open, OTypes, Idle, MutexHeld, Holding, StoreCount
  <2>9. ShutCount'
    BY <1>0, <2>2, <2>3, <2>g, <2>h, <1>n, <1>p, <2>4 DEF ShutCount,
       OpenQueue, PhaseKnown, Open, OTypes, Idle
  <2>10. StoreCount'
    BY <1>0, <2>2, <2>3, <2>g, <2>h, <1>n, <2>4 DEF StoreCount, OpenQueue,
       PhaseKnown, Open, OTypes, Idle, MutexHeld, Holding, Leaving, Queue
  <2>11. LeaveCount'
    BY <1>0, <2>2, <2>3, <2>g, <2>h, <1>n, <2>4 DEF LeaveCount, Stored,
       StoreCount, OpenQueue, PhaseKnown, Open, OTypes, Idle, MutexHeld,
       Holding
  <2>12. DestroyAlone'
    BY <1>0, <2>2, <2>3, <2>g, <2>h, <1>n, <2>4 DEF DestroyAlone, Leaving,
       OpenQueue, Open, PhaseKnown, StoreCount, OTypes, Idle, MutexHeld,
       Holding
  <2> QED BY <2>5, <2>6, <2>7, <2>8, <2>9, <2>10, <2>11, <2>12 DEF OInv
<1>14. CASE Leave(t) /\ lock_cnt # 1
  <2>1. Goto(t, "leave", Idle)
    BY <1>14 DEF Leave
  <2>2. /\ pc' \in [Thread -> {Idle, "add", "reset"} \cup Inside]
        /\ pc[t] = "leave" /\ pc'[t] = Idle
        /\ \A u \in Thread : u # t => pc'[u] = pc[u]
    BY <1>0, <2>1, OneMoves DEF Inside, Holding
  <2>3. /\ lock_cnt' = lock_cnt - 1
        /\ returned' = returned \cup {t}
        /\ UNCHANGED <<cnt, lock, prev, runs, phase>>
    BY <1>14 DEF Leave, Back
  <2>g. lock_cnt # 1
    BY <1>14 DEF Leave
  <2>4. /\ Queue' = Queue
        /\ Leaving' = Leaving \ {t} /\ Cardinality(Leaving') = Cardinality(Leaving) - 1
        /\ Adding' = Adding
    BY <2>2, SetsMove DEF Idle
  <2>5. OTypes'
    BY <1>0, <1>n, <2>2, <2>3 DEF OTypes
  <2>6. MutexHeld'
    BY <1>0, <2>2, <2>3, <2>g DEF MutexHeld, Holding, OTypes, Idle
  <2>7. PhaseKnown'
    BY <1>0, <2>2, <2>3, <2>g, <1>n, <2>4 DEF PhaseKnown, OpenQueue, Open,
       OTypes, Idle, MutexHeld, Holding
  <2>8. OpenQueue'
    BY <1>0, <2>2, <2>3, <2>g, <1>n, <2>4 DEF OpenQueue, PhaseKnown, Open,
       OTypes, Idle, MutexHeld, Holding, StoreCount
  <2>9. ShutCount'
    BY <1>0, <2>2, <2>3, <2>g, <1>n, <1>p, <2>4 DEF ShutCount, OpenQueue,
       PhaseKnown, Open, OTypes, Idle
  <2>10. StoreCount'
    BY <1>0, <2>2, <2>3, <2>g, <1>n, <2>4 DEF StoreCount, OpenQueue,
       PhaseKnown, Open, OTypes, Idle, MutexHeld, Holding, Leaving, Queue
  <2>11. LeaveCount'
    BY <1>0, <2>2, <2>3, <2>g, <1>n, <2>4 DEF LeaveCount, Stored,
       StoreCount, OpenQueue, PhaseKnown, Open, OTypes, Idle, MutexHeld,
       Holding
  <2>12. DestroyAlone'
    BY <1>0, <2>2, <2>3, <2>g, <1>n, <2>4 DEF DestroyAlone, Leaving,
       OpenQueue, Open, PhaseKnown, StoreCount, OTypes, Idle, MutexHeld,
       Holding
  <2> QED BY <2>5, <2>6, <2>7, <2>8, <2>9, <2>10, <2>11, <2>12 DEF OInv
<1>15. CASE Destroy(t)
  <2>1. Goto(t, "destroy", Idle)
    BY <1>15 DEF Destroy
  <2>2. /\ pc' \in [Thread -> {Idle, "add", "reset"} \cup Inside]
        /\ pc[t] = "destroy" /\ pc'[t] = Idle
        /\ \A u \in Thread : u # t => pc'[u] = pc[u]
    BY <1>0, <2>1, OneMoves DEF Inside, Holding
  <2>3. /\ lock' = FALSE
        /\ returned' = returned \cup {t}
        /\ UNCHANGED <<cnt, lock_cnt, prev, runs, phase>>
    BY <1>15 DEF Destroy, Back
  <2>4. /\ Queue' = Queue
        /\ Leaving' = Leaving
        /\ Adding' = Adding
    BY <2>2, SetsMove DEF Idle
  <2>h. \A u \in Thread : pc[u] \notin Holding
    BY <1>0, <2>2 DEF DestroyAlone, Leaving, OpenQueue, Open, StoreCount,
       PhaseKnown, Holding
  <2>5. OTypes'
    BY <1>0, <1>n, <2>2, <2>3 DEF OTypes
  <2>6. MutexHeld'
    BY <1>0, <2>2, <2>3, <2>h DEF MutexHeld, Holding, OTypes, Idle
  <2>7. PhaseKnown'
    BY <1>0, <2>2, <2>3, <2>h, <1>n, <2>4 DEF PhaseKnown, OpenQueue, Open,
       OTypes, Idle, MutexHeld, Holding
  <2>8. OpenQueue'
    BY <1>0, <2>2, <2>3, <2>h, <1>n, <2>4 DEF OpenQueue, PhaseKnown, Open,
       OTypes, Idle, MutexHeld, Holding, StoreCount
  <2>9. ShutCount'
    BY <1>0, <2>2, <2>3, <2>h, <1>n, <1>p, <2>4 DEF ShutCount, OpenQueue,
       PhaseKnown, Open, OTypes, Idle
  <2>10. StoreCount'
    BY <1>0, <2>2, <2>3, <2>h, <1>n, <2>4 DEF StoreCount, OpenQueue,
       PhaseKnown, Open, OTypes, Idle, MutexHeld, Holding, Leaving, Queue
  <2>11. LeaveCount'
    BY <1>0, <2>2, <2>3, <2>h, <1>n, <2>4 DEF LeaveCount, Stored,
       StoreCount, OpenQueue, PhaseKnown, Open, OTypes, Idle, MutexHeld,
       Holding
  <2>12. DestroyAlone'
    BY <1>0, <2>2, <2>3, <2>h, <1>n, <2>4 DEF DestroyAlone, Leaving,
       OpenQueue, Open, PhaseKnown, StoreCount, OTypes, Idle, MutexHeld,
       Holding
  <2> QED BY <2>5, <2>6, <2>7, <2>8, <2>9, <2>10, <2>11, <2>12 DEF OInv
<1> QED BY <1>1, <1>2, <1>3, <1>4, <1>5, <1>6, <1>7, <1>8, <1>9, <1>10, <1>11,
   <1>12, <1>13, <1>14, <1>15 DEF Step

-----------------------------------------------------------------------------
(* The initial state, before any call.                                       *)
LEMMA InitKeeps == OnceInit => OInv
<1> SUFFICES ASSUME OnceInit PROVE OInv
  OBVIOUS
<1>1. OTypes
  <2>1. pc \in [Thread -> {Idle, "add", "reset"} \cup Inside] /\ prev \in [Thread -> Int]
    BY DEF OnceInit
  <2>2. cnt \in Int /\ lock_cnt \in Int /\ runs \in Nat
    BY DEF OnceInit
  <2>4. lock \in BOOLEAN
    BY Zenon DEF OnceInit
  <2>3. phase \in {"new", "running", "done"} /\ returned \subseteq Thread
    BY DEF OnceInit
  <2> QED BY <2>1, <2>2, <2>3, <2>4 DEF OTypes
<1>2. \A t \in Thread : pc[t] = "idle"
  BY DEF OnceInit, Idle
<1>3. Queue = {} /\ phase = "new" /\ cnt = 0 /\ lock_cnt = 0 /\ runs = 0 /\ returned = {}
  BY <1>2 DEF OnceInit, Queue
<1>4. Cardinality(Queue) = 0
  BY <1>3, FS_EmptySet
<1>5. MutexHeld /\ PhaseKnown /\ StoreCount /\ DestroyAlone
  BY <1>2, <1>3 DEF MutexHeld, Holding, PhaseKnown, StoreCount, DestroyAlone
<1>6. OpenQueue /\ ShutCount /\ LeaveCount
  BY <1>2, <1>3, <1>4 DEF OpenQueue, ShutCount, LeaveCount, Stored, Open
<1> QED BY <1>1, <1>5, <1>6 DEF OInv

(* The invariant holds in every reachable state, for every set of threads.   *)
THEOREM OnceInvariance == OnceSpec => []OInv
<1>1. OInv /\ UNCHANGED onceVars => OInv'
  BY DEF OInv, OTypes, MutexHeld, PhaseKnown, OpenQueue, ShutCount, StoreCount,
     LeaveCount, DestroyAlone, Open, Stored, Queue, Adding, Leaving, onceVars
<1>2. OInv /\ [OnceNext]_onceVars => OInv'
  BY <1>1, StepKeeps DEF OnceNext
<1> QED BY <1>2, InitKeeps, PTL DEF OnceSpec

(* call_once runs at most one routine.                                       *)
THEOREM RunsOnce == OnceSpec => []RunOnce
<1>1. OInv => RunOnce
  BY DEF OInv, OTypes, PhaseKnown, RunOnce
<1> QED BY <1>1, OnceInvariance, PTL

(* lock_cnt counts the calls that have to get out of the mutex.              *)
THEOREM LeavingCounted == OnceSpec => []CountsLeaving
<1>1. OInv => CountsLeaving
  BY DEF OInv, LeaveCount, Stored, Open, CountsLeaving
<1> QED BY <1>1, OnceInvariance, PTL

(* The mutex is destroyed when nobody else is inside.                        *)
THEOREM MutexDestroyedLast == OnceSpec => []DestroyedLast
<1>1. OInv => DestroyedLast
  <2> SUFFICES ASSUME OInv, NEW t \in Thread, NEW u \in Thread,
                      pc[t] = "destroy", u # t
               PROVE  pc[u] \notin Inside
    BY DEF DestroyedLast
  <2>1. Leaving = {} /\ pc[u] # "destroy"
    BY DEF OInv, DestroyAlone
  <2>2. pc[u] \notin {"init", "swap", "store"}
    BY DEF OInv, OpenQueue, Open, StoreCount, PhaseKnown
  <2> QED BY <2>1, <2>2 DEF Leaving, Inside, Holding
<1> QED BY <1>1, OnceInvariance, PTL

(* The count never gets back to 0: the routine cannot be run a second time.  *)
THEOREM GateStaysShut == OnceSpec => []StaysShut
<1>1. OInv => StaysShut
  <2> SUFFICES ASSUME OInv, Gate PROVE cnt < 0
    BY DEF StaysShut
  <2>1. cnt + Cardinality(Adding) <= ISIZE_MIN + Cardinality(Thread) /\ cnt \in Int
    BY DEF OInv, ShutCount, Open, Gate, OTypes
  <2>2. Cardinality(Adding) \in Nat
    <3>1. Adding \subseteq Thread
      BY DEF Adding
    <3> QED BY <3>1, OnceAssumption, FS_Subset, FS_CardinalityType
  <2> QED BY <2>1, <2>2, Numbers
<1> QED BY <1>1, OnceInvariance, PTL

(* Types, with the widths: cnt stays within an isize, lock_cnt never goes    *)
(* below 0.                                                                  *)
THEOREM OnceTypeCorrect == OnceSpec => []OnceTypeOK
<1>1. OInv => OnceTypeOK
  <2> SUFFICES ASSUME OInv PROVE OnceTypeOK
    OBVIOUS
  <2>1. /\ Queue \subseteq Thread /\ Leaving \subseteq Thread /\ Adding \subseteq Thread
    BY DEF Queue, Leaving, Adding
  <2>2. /\ Cardinality(Queue) \in Nat /\ Cardinality(Queue) <= Cardinality(Thread)
        /\ Cardinality(Leaving) \in Nat /\ Cardinality(Adding) \in Nat
    BY <2>1, OnceAssumption, FS_Subset, FS_CardinalityType
  <2>3. cnt \in ISIZE_MIN..Cardinality(Thread)
    BY <2>2, Numbers DEF OInv, OTypes, OpenQueue, ShutCount
  <2>4. lock_cnt \in Nat
    <3>1. CASE Open
      BY <3>1 DEF OInv, OpenQueue
    <3>2. CASE \E t \in Thread : pc[t] = "store"
      <4>1. PICK t \in Thread : pc[t] = "store"
        BY <3>2
      <4>2. lock_cnt = 0
        BY <4>1, Zenon DEF OInv, StoreCount
      <4> QED BY <4>2
    <3>3. CASE Stored
      BY <2>2, <3>3 DEF OInv, LeaveCount
    <3> QED BY <3>1, <3>2, <3>3 DEF Stored
  <2> QED BY <2>3, <2>4 DEF OInv, OTypes, OnceTypeOK
<1> QED BY <1>1, OnceInvariance, PTL

(* Once implements what it promises: every step is a start, the completion   *)
(* or a return after it, or changes nothing a caller sees.                   *)
THEOREM OnceImplementsCall == OnceSpec => ImplementsCallOnce
<1>1. OnceInit => Call!CallInit
  BY DEF OnceInit, Call!CallInit
<1>2. OInv /\ [OnceNext]_onceVars => [Call!CallNext]_(Call!callVars)
  <2> SUFFICES ASSUME OInv, NEW t \in Thread, Enter(t) \/ Step(t)
               PROVE  [Call!CallNext]_(Call!callVars)
    BY DEF OnceNext, onceVars, Call!callVars
  <2>1. Queue \subseteq Thread
    BY DEF Queue
  <2>2. Cardinality(Queue) \in Nat /\ (t \in Queue => Cardinality(Queue) > 0)
    BY <2>1, Counting
  <2>3. CASE Enter(t)
    <3>1. cnt < 0 => phase = "done"
      BY <2>2 DEF OInv, OpenQueue, Open, OTypes
    <3> QED BY <2>3, <3>1 DEF Enter, Back, Call!CallNext, Call!Return,
       Call!callVars
  <2>4. CASE Reset(t) \/ Leave(t) \/ Destroy(t)
    <3>1. phase = "done"
      BY <2>4 DEF OInv, OpenQueue, Open, Reset, Leave, Destroy, Goto
    <3> QED BY <2>4, <3>1 DEF Reset, Leave, Destroy, Back, Call!CallNext,
       Call!Return,
         Call!callVars
  <2>5. CASE Check(t)
    <3>1. pc[t] = "check"
      BY <2>5 DEF Check, Goto
    <3>2. cnt > 0 => Open
      <4>1. Adding \subseteq Thread
        BY DEF Adding
      <4>2. Cardinality(Adding) \in Nat
        BY <4>1, Counting
      <4> QED BY <4>2, Numbers DEF OInv, ShutCount, OTypes
    <3>3. \A u \in Thread : pc[u] \notin {"init", "swap"}
      BY <3>1 DEF OInv, MutexHeld, Holding
    <3>4. cnt > 0 => phase = "new"
      BY <3>2, <3>3 DEF Open, OInv, PhaseKnown, OTypes
    <3> QED BY <2>5, <3>4 DEF Check, Call!CallNext, Call!Start, Call!callVars
  <2>6. CASE Routine(t)
    <3>1. phase = "running"
      BY <2>6 DEF Routine, Goto, OInv, PhaseKnown
    <3> QED BY <2>6, <3>1 DEF Routine, Call!CallNext, Call!Complete,
       Call!callVars
  <2>7. CASE Add(t) \/ Lock(t) \/ Swap(t) \/ Store(t) \/ Unlock(t)
    BY <2>7 DEF Add, Lock, Swap, Store, Unlock, Call!callVars
  <2> QED BY <2>3, <2>4, <2>5, <2>6, <2>7 DEF Step
<1> QED BY <1>1, <1>2, OnceInvariance, PTL DEF OnceSpec, ImplementsCallOnce,
   Call!CallSpec

-----------------------------------------------------------------------------
(***************************************************************************)
(* Threads, for every number of threads and of guards.  The counter of     *)
(* RwLockInner is tied to the set of the read guards that exist, those of  *)
(* threads that panicked included; a writer has the lock to itself.        *)
(***************************************************************************)

Places == {"new", "start", "locked", "seen", "stored", "done", "exiting", "exited", "panicked"}
Tasks == [at : Places, role : {"reader", "writer"}, guards : Nat, seen : Int]

(* The read guards that exist, a thread's numbered from 1.                   *)
ReadGuards == {x \in Worker \X (1..MaxGuards) :
                 task[x[1]].role = "reader" /\ x[2] <= task[x[1]].guards}
Writing(t) == task[t].role = "writer" /\ task[t].guards > 0

(* Types.                                                                    *)
TTypes ==
  /\ writer \in BOOLEAN /\ readers \in Nat /\ value \in Nat /\ stores \in Nat
  /\ task \in [Worker -> Tasks]
  /\ result \in [Worker -> Int] /\ joined \in [Worker -> Int]

(* How many guards a thread has at each place.                               *)
GuardsAt(t) ==
  /\ task[t].at \in {"new", "start", "done", "exiting", "exited"} => task[t].guards = 0
  /\ task[t].at \in {"locked", "seen", "stored"} => task[t].guards > 0
  /\ task[t].at = "stored" => task[t].role = "writer"
  /\ task[t].role = "reader" => task[t].guards <= MaxGuards
  /\ task[t].role = "writer" => task[t].guards <= 1

(* The counter counts the read guards, and a writer is alone.                *)
LockCounts ==
  /\ readers = Cardinality(ReadGuards)
  /\ writer => readers = 0
  /\ \A t \in Worker : Writing(t) => writer
  /\ \A t, u \in Worker : Writing(t) /\ Writing(u) => t = u

(* What join returns is what the closure left in the box.                    *)
Joins(t) ==
  /\ task[t].at \in {"exiting", "exited"} => result[t] = task[t].seen
  /\ task[t].at \notin {"exiting", "exited"} => result[t] = Nothing
  /\ joined[t] # Unjoined => task[t].at \in {"exited", "panicked"} /\ joined[t] = result[t]

TInv ==
  /\ TTypes
  /\ \A t \in Worker : GuardsAt(t)
  /\ LockCounts
  /\ value = stores
  /\ \A t \in Worker : At(t, "seen") => task[t].seen = value
  /\ \A t \in Worker : Joins(t)

-----------------------------------------------------------------------------
(* Sets of guards are finite.                                                *)
LEMMA GuardsFinite ==
  ASSUME NEW S, S \subseteq Worker \X (1..MaxGuards)
  PROVE  IsFiniteSet(S) /\ Cardinality(S) \in Nat
<1>1. IsFiniteSet(1..MaxGuards)
  BY ThreadsAssumption, FS_Interval
<1>2. IsFiniteSet(Worker \X (1..MaxGuards))
  BY <1>1, ThreadsAssumption, FS_Product
<1> QED BY <1>2, FS_Subset, FS_CardinalityType

(* One task changes.                                                         *)
LEMMA OthersStay ==
  ASSUME TTypes, NEW t \in Worker, NEW r \in Tasks, task' = [task EXCEPT ![t] = r]
  PROVE  /\ task' \in [Worker -> Tasks] /\ task'[t] = r
         /\ \A u \in Worker : u # t => task'[u] = task[u]
BY DEF TTypes

(* The guards do not change if those of a reader and the roles do not.       *)
LEMMA SameGuards ==
  ASSUME \A u \in Worker : \/ task'[u].role = task[u].role /\ task'[u].guards = task[u].guards
                           \/ task[u].guards = 0 /\ task'[u].guards = 0
                           \/ task[u].role = "writer" /\ task'[u].role = "writer"
  PROVE  ReadGuards' = ReadGuards
<1>1. ASSUME NEW x \in Worker \X (1..MaxGuards) PROVE x \in ReadGuards' <=> x \in ReadGuards
  <2>1. x[1] \in Worker /\ x[2] \in 1..MaxGuards
    OBVIOUS
  <2> QED BY <2>1, ThreadsAssumption DEF ReadGuards
<1> QED BY <1>1, Zenon DEF ReadGuards

(* A reader takes one more guard, or gives its last one back.                *)
LEMMA OneMore ==
  ASSUME NEW t \in Worker, task[t].role = "reader", task'[t].role = "reader",
         task[t].guards \in Nat, task'[t].guards = task[t].guards + 1,
         task[t].guards < MaxGuards,
         \A u \in Worker : u # t => task'[u] = task[u]
  PROVE  Cardinality(ReadGuards') = Cardinality(ReadGuards) + 1
<1> DEFINE g == <<t, task[t].guards + 1>>
<1>1. g \in Worker \X (1..MaxGuards) /\ g \notin ReadGuards
  BY ThreadsAssumption DEF ReadGuards
<1>2. ASSUME NEW x \in Worker \X (1..MaxGuards)
      PROVE  x \in ReadGuards' <=> x \in ReadGuards \cup {g}
  <2>1. x = <<x[1], x[2]>> /\ x[1] \in Worker /\ x[2] \in 1..MaxGuards
    OBVIOUS
  <2>2. CASE x[1] # t
    BY <2>1, <2>2 DEF ReadGuards
  <2>3. CASE x[1] = t
    <3>1. x \in ReadGuards <=> x[2] <= task[t].guards
      BY <2>1, <2>3 DEF ReadGuards
    <3>2. x \in ReadGuards' <=> x[2] <= task[t].guards + 1
      BY <2>1, <2>3 DEF ReadGuards
    <3>3. x = g <=> x[2] = task[t].guards + 1
      BY <2>1, <2>3
    <3> QED BY <3>1, <3>2, <3>3, <2>1, ThreadsAssumption
  <2> QED BY <2>2, <2>3
<1>3. ReadGuards' = ReadGuards \cup {g}
  BY <1>1, <1>2, Zenon DEF ReadGuards
<1>4. IsFiniteSet(ReadGuards)
  BY GuardsFinite DEF ReadGuards
<1> QED BY <1>1, <1>3, <1>4, FS_AddElement

(* A read guard is dropped.                                                  *)
LEMMA OneLess ==
  ASSUME NEW t \in Worker, task[t].role = "reader", task'[t].role = "reader",
         task[t].guards \in Nat, task[t].guards > 0, task'[t].guards = task[t].guards - 1,
         task[t].guards <= MaxGuards,
         \A u \in Worker : u # t => task'[u] = task[u]
  PROVE  /\ Cardinality(ReadGuards') = Cardinality(ReadGuards) - 1
         /\ Cardinality(ReadGuards) > 0
<1> DEFINE g == <<t, task[t].guards>>
<1>1. g \in ReadGuards
  BY ThreadsAssumption DEF ReadGuards
<1>2. ASSUME NEW x \in Worker \X (1..MaxGuards)
      PROVE  x \in ReadGuards' <=> x \in ReadGuards \ {g}
  <2>1. x = <<x[1], x[2]>> /\ x[1] \in Worker /\ x[2] \in 1..MaxGuards
    OBVIOUS
  <2>2. CASE x[1] # t
    BY <2>1, <2>2 DEF ReadGuards
  <2>3. CASE x[1] = t
    <3>1. x \in ReadGuards <=> x[2] <= task[t].guards
      BY <2>1, <2>3 DEF ReadGuards
    <3>2. x \in ReadGuards' <=> x[2] <= task[t].guards - 1
      BY <2>1, <2>3 DEF ReadGuards
    <3>3. x = g <=> x[2] = task[t].guards
      BY <2>1, <2>3
    <3> QED BY <3>1, <3>2, <3>3, <2>1, ThreadsAssumption
  <2> QED BY <2>2, <2>3
<1>3. ReadGuards' = ReadGuards \ {g}
  BY <1>1, <1>2, Zenon DEF ReadGuards
<1>4. IsFiniteSet(ReadGuards) /\ Cardinality(ReadGuards) \in Nat
  BY GuardsFinite DEF ReadGuards
<1>5. Cardinality(ReadGuards) # 0
  BY <1>1, <1>4, FS_EmptySet
<1>6. Cardinality(ReadGuards \ {g}) = Cardinality(ReadGuards) - 1
  BY <1>1, <1>4, FS_RemoveElement
<1>7. Cardinality(ReadGuards) > 0
  BY <1>4, <1>5
<1> QED BY <1>3, <1>6, <1>7

(* While there is a writer no other thread has a guard.                      *)
LEMMA WriterAlone ==
  ASSUME TInv, NEW t \in Worker, Writing(t), NEW u \in Worker, u # t
  PROVE  task[u].guards = 0
<1>1. writer /\ readers = 0 /\ Cardinality(ReadGuards) = 0
  BY DEF TInv, LockCounts
<1>2. ReadGuards = {}
  <2>1. IsFiniteSet(ReadGuards)
    BY GuardsFinite DEF ReadGuards
  <2> QED BY <1>1, <2>1, FS_EmptySet
<1>3. task[u] \in Tasks /\ GuardsAt(u)
  BY DEF TInv, TTypes
<1>4. CASE task[u].role = "writer"
  BY <1>4, <1>3 DEF TInv, LockCounts, Writing, Tasks
<1>5. CASE task[u].role = "reader"
  <2>1. <<u, 1>> \notin ReadGuards
    BY <1>2
  <2> QED BY <1>5, <2>1, <1>3, ThreadsAssumption DEF ReadGuards, GuardsAt, Tasks
<1> QED BY <1>3, <1>4, <1>5 DEF Tasks

(* The threads that do not move.                                             *)
LEMMA Rest ==
  ASSUME TInv, NEW t \in Worker, GuardsAt(t)', Joins(t)',
         \A u \in Worker : u # t => task'[u] = task[u], UNCHANGED <<result, joined>>
  PROVE  \A u \in Worker : GuardsAt(u)' /\ Joins(u)'
<1> SUFFICES ASSUME NEW u \in Worker, u # t PROVE GuardsAt(u)' /\ Joins(u)'
  OBVIOUS
<1>1. GuardsAt(u) /\ Joins(u)
  BY DEF TInv
<1> QED BY <1>1 DEF GuardsAt, Joins

-----------------------------------------------------------------------------
(* Nobody holds the lock at the beginning.                                   *)
LEMMA TInit == ThreadsInit => TInv
<1> SUFFICES ASSUME ThreadsInit PROVE TInv
  OBVIOUS
<1>1. TTypes
  <2>1. writer \in BOOLEAN /\ readers \in Nat /\ value \in Nat /\ stores \in Nat
    BY DEF ThreadsInit
  <2>2. Nothing \in Int /\ Unjoined \in Int
    BY DEF Nothing, Unjoined
  <2>3. task \in [Worker -> Tasks]
    BY <2>2 DEF ThreadsInit, Tasks, Places
  <2>4. result \in [Worker -> Int] /\ joined \in [Worker -> Int]
    BY <2>2 DEF ThreadsInit
  <2> QED BY <2>1, <2>3, <2>4 DEF TTypes
<1>2. \A t \in Worker : GuardsAt(t) /\ Joins(t) /\ ~ At(t, "seen") /\ ~ Writing(t)
  BY ThreadsAssumption DEF ThreadsInit, GuardsAt, Joins, At, Writing, Unjoined
<1>3. ReadGuards = {}
  <2>1. ASSUME NEW x \in Worker \X (1..MaxGuards) PROVE ~ (x[2] <= task[x[1]].guards)
    <3>1. x[1] \in Worker /\ x[2] \in 1..MaxGuards
      OBVIOUS
    <3>2. task[x[1]].guards = 0
      BY <3>1 DEF ThreadsInit
    <3> QED BY <3>1, <3>2, ThreadsAssumption
  <2> QED BY <2>1, Zenon DEF ReadGuards
<1>4. LockCounts
  <2>1. readers = 0 /\ writer = FALSE
    BY DEF ThreadsInit
  <2> QED BY <1>2, <1>3, <2>1, FS_EmptySet, Zenon DEF LockCounts
<1> QED BY <1>1, <1>2, <1>4, Zenon DEF TInv, ThreadsInit

(* Steps that leave the guards, the lock and the value alone: what remains   *)
(* to be shown of the one thread that moves.                                 *)
LEMMA LocalStep ==
  ASSUME TInv, NEW t \in Worker, NEW r \in Tasks, task' = [task EXCEPT ![t] = r],
         r.guards = task[t].guards, r.role = task[t].role \/ r.guards = 0,
         GuardsAt(t)', Joins(t)',
         r.at = "seen" => r.seen = value,
         result' \in [Worker -> Int], \A u \in Worker : u # t => result'[u] = result[u],
         UNCHANGED <<writer, readers, value, joined, stores>>
  PROVE  TInv'
<1>1. /\ task' \in [Worker -> Tasks] /\ task'[t] = r
      /\ \A u \in Worker : u # t => task'[u] = task[u]
  BY OthersStay DEF TInv
<1>2. TTypes'
  BY <1>1 DEF TInv, TTypes
<1>3. ReadGuards' = ReadGuards
  <2>1. \A u \in Worker : \/ task'[u].role = task[u].role /\ task'[u].guards = task[u].guards
                          \/ task[u].guards = 0 /\ task'[u].guards = 0
    <3> SUFFICES ASSUME NEW u \in Worker
                 PROVE  \/ task'[u].role = task[u].role /\ task'[u].guards = task[u].guards
                        \/ task[u].guards = 0 /\ task'[u].guards = 0
      OBVIOUS
    <3>1. CASE u = t
      BY <3>1, <1>1
    <3>2. CASE u # t
      BY <3>2, <1>1
    <3> QED BY <3>1, <3>2
  <2> QED BY <2>1, SameGuards
<1>4. \A u \in Worker : Writing(u)' <=> Writing(u)
  BY <1>1 DEF Writing, TInv, TTypes, Tasks
<1>5. LockCounts'
  BY <1>3, <1>4 DEF TInv, LockCounts
<1>6. \A u \in Worker : GuardsAt(u)' /\ Joins(u)'
  BY <1>1 DEF TInv, GuardsAt, Joins
<1>7. \A u \in Worker : At(u, "seen")' => task'[u].seen = value'
  BY <1>1 DEF TInv, At
<1> QED BY <1>2, <1>5, <1>6, <1>7 DEF TInv

(* Every step keeps the invariant.                                           *)
LEMMA TNext == TInv /\ [ThreadsNext]_threadVars => TInv'
<1> SUFFICES ASSUME TInv, [ThreadsNext]_threadVars PROVE TInv'
  OBVIOUS
<1>0. CASE UNCHANGED threadVars
  BY <1>0 DEF threadVars, TInv, TTypes, GuardsAt, LockCounts, ReadGuards, Writing, Joins, At
<1> SUFFICES ASSUME NEW t \in Worker,
                    \/ \E role \in {"reader", "writer"} : spawn_thread(t, role)
                    \/ read_lock(t) \/ write_lock(t) \/ deref(t) \/ deref_mut(t)
                    \/ drop_read(t) \/ drop_write(t) \/ Finish(t) \/ panic_impl(t) \/ join(t)
             PROVE  TInv'
  BY <1>0 DEF ThreadsNext
<1>t. /\ task \in [Worker -> Tasks] /\ task[t] \in Tasks /\ GuardsAt(t) /\ Joins(t)
      /\ At(t, "seen") => task[t].seen = value
      /\ value \in Nat /\ readers \in Nat /\ stores \in Nat /\ writer \in BOOLEAN
      /\ result \in [Worker -> Int] /\ joined \in [Worker -> Int]
  BY DEF TInv, TTypes
<1>1. ASSUME NEW role \in {"reader", "writer"}, spawn_thread(t, role) PROVE TInv'
  <2> DEFINE r == [task[t] EXCEPT !.at = "start", !.role = role]
  <2>1. task' = [task EXCEPT ![t] = r] /\ r \in Tasks
    BY <1>1, <1>t DEF spawn_thread, Tasks, Places
  <2>2. task'[t] = r /\ task[t].at = "new"
    BY <2>1, <1>t, <1>1 DEF spawn_thread, At
  <2>3. r.at = "start" /\ r.role = role /\ r.guards = task[t].guards /\ r.guards = 0
    BY <2>2, <1>t DEF Tasks, GuardsAt
  <2>4. GuardsAt(t)' /\ Joins(t)'
    BY <2>2, <2>3, <1>t, <1>1, ThreadsAssumption DEF GuardsAt, Joins, spawn_thread
  <2> QED BY <2>1, <2>3, <2>4, <1>t, <1>1, LocalStep DEF spawn_thread
<1>2. CASE deref(t)
  <2> DEFINE r == [task[t] EXCEPT !.at = "seen", !.seen = value]
  <2>0. task' = [task EXCEPT ![t] = r]
    BY <1>2 DEF deref
  <2>1. task' = [task EXCEPT ![t] = r] /\ r \in Tasks
    <3>1. value \in Int /\ "seen" \in Places
      BY <1>t DEF Places
    <3> QED BY <2>0, <3>1, <1>t DEF Tasks
  <2>2. task'[t] = r /\ task[t].at = "locked"
    BY <2>1, <1>t, <1>2 DEF deref, At
  <2>3. r.at = "seen" /\ r.role = task[t].role /\ r.guards = task[t].guards /\ r.seen = value
    BY <2>2, <1>t DEF Tasks
  <2>4. GuardsAt(t)' /\ Joins(t)'
    BY <2>2, <2>3, <1>t, <1>2 DEF GuardsAt, Joins, deref
  <2> QED BY <2>1, <2>3, <2>4, <1>t, <1>2, LocalStep DEF deref
<1>3. CASE Finish(t)
  <2>1. CASE /\ At(t, "done") /\ Go(t, "exiting")
             /\ result' = [result EXCEPT ![t] = task[t].seen]
    <3> DEFINE r == [task[t] EXCEPT !.at = "exiting"]
    <3>1. task' = [task EXCEPT ![t] = r] /\ r \in Tasks
      BY <2>1, <1>t DEF Go, Tasks, Places
    <3>2. task'[t] = r /\ task[t].at = "done" /\ r.at = "exiting"
      BY <3>1, <1>t, <2>1 DEF At, Tasks
    <3>3. r.role = task[t].role /\ r.guards = task[t].guards /\ r.seen = task[t].seen
      BY <3>2, <1>t DEF Tasks
    <3>4. result'[t] = task[t].seen /\ result' \in [Worker -> Int]
      BY <2>1, <1>t DEF Tasks
    <3>5. GuardsAt(t)' /\ Joins(t)'
      BY <3>2, <3>3, <3>4, <1>t, <1>3 DEF GuardsAt, Joins, Finish
    <3> QED BY <3>1, <3>2, <3>3, <3>4, <3>5, <2>1, <1>t, <1>3, LocalStep DEF Finish
  <2>2. CASE At(t, "exiting") /\ Go(t, "exited") /\ UNCHANGED result
    <3> DEFINE r == [task[t] EXCEPT !.at = "exited"]
    <3>1. task' = [task EXCEPT ![t] = r] /\ r \in Tasks
      BY <2>2, <1>t DEF Go, Tasks, Places
    <3>2. task'[t] = r /\ task[t].at = "exiting" /\ r.at = "exited"
      BY <3>1, <1>t, <2>2 DEF At, Tasks
    <3>3. r.role = task[t].role /\ r.guards = task[t].guards /\ r.seen = task[t].seen
      BY <3>2, <1>t DEF Tasks
    <3>5. GuardsAt(t)' /\ Joins(t)'
      BY <3>2, <3>3, <2>2, <1>t, <1>3 DEF GuardsAt, Joins, Finish
    <3> QED BY <3>1, <3>2, <3>3, <3>5, <2>2, <1>t, <1>3, LocalStep DEF Finish
  <2> QED BY <1>3, <2>1, <2>2 DEF Finish
<1>4. CASE panic_impl(t)
  <2> DEFINE r == [task[t] EXCEPT !.at = "panicked"]
  <2>1. task' = [task EXCEPT ![t] = r] /\ r \in Tasks
    BY <1>4, <1>t DEF panic_impl, Go, Tasks, Places
  <2>2. task'[t] = r /\ task[t].at \in {"start", "locked", "seen", "stored"} /\ r.at = "panicked"
    BY <2>1, <1>t, <1>4 DEF panic_impl, Tasks
  <2>3. r.role = task[t].role /\ r.guards = task[t].guards
    BY <2>2, <1>t DEF Tasks
  <2>4. GuardsAt(t)' /\ Joins(t)'
    BY <2>2, <2>3, <1>t, <1>4 DEF GuardsAt, Joins, panic_impl
  <2> QED BY <2>1, <2>2, <2>3, <2>4, <1>t, <1>4, LocalStep DEF panic_impl
<1>5. CASE join(t)
  <2>1. UNCHANGED <<task, result, writer, readers, value, stores>>
    BY <1>5 DEF join
  <2>2. /\ joined' \in [Worker -> Int] /\ joined'[t] = result[t]
        /\ \A u \in Worker : u # t => joined'[u] = joined[u]
    BY <1>5, <1>t DEF join
  <2>3. \A u \in Worker : Joins(u)'
    BY <2>1, <2>2, <1>5 DEF TInv, Joins, join
  <2> QED BY <2>1, <2>2, <2>3 DEF TInv, TTypes, GuardsAt, LockCounts, ReadGuards, Writing, At
<1>6. CASE read_lock(t)
  <2> DEFINE p == IF At(t, "start") THEN "locked" ELSE "seen"
             r == [task[t] EXCEPT !.guards = task[t].guards + 1, !.at = p]
  <2>1. task' = [task EXCEPT ![t] = r] /\ r \in Tasks
    <3>1. task' = [task EXCEPT ![t] = r]
      BY <1>6 DEF read_lock, Granted
    <3>2. p \in Places /\ task[t].guards + 1 \in Nat
      BY <1>t DEF Tasks, Places
    <3> QED BY <3>1, <3>2, <1>t DEF Tasks
  <2>2. /\ task' \in [Worker -> Tasks] /\ task'[t] = r
        /\ \A u \in Worker : u # t => task'[u] = task[u]
    BY <2>1, OthersStay DEF TInv
  <2>3. /\ r.at = p /\ r.role = "reader" /\ r.guards = task[t].guards + 1
        /\ r.seen = task[t].seen /\ task[t].role = "reader"
    BY <1>6, <1>t DEF read_lock, Tasks
  <2>4. /\ task[t].at \in {"start", "seen"} /\ task[t].guards < MaxGuards /\ task[t].guards \in Nat
        /\ ~ writer /\ readers' = readers + 1
        /\ UNCHANGED <<writer, value, result, joined, stores>>
    BY <1>6, <1>t DEF read_lock, Tasks
  <2>5. Cardinality(ReadGuards') = Cardinality(ReadGuards) + 1
    BY <2>2, <2>3, <2>4, OneMore
  <2>6. \A u \in Worker : Writing(u)' <=> Writing(u)
    BY <2>2, <2>3 DEF Writing
  <2>7. LockCounts'
    BY <2>4, <2>5, <2>6 DEF TInv, LockCounts
  <2>8. \A u \in Worker : GuardsAt(u)' /\ Joins(u)'
    <3>1. GuardsAt(t)' /\ Joins(t)'
      BY <2>2, <2>3, <2>4, <1>t, ThreadsAssumption DEF GuardsAt, Joins
    <3> QED BY <3>1, <2>2, <2>4, Rest
  <2>9. \A u \in Worker : At(u, "seen")' => task'[u].seen = value'
    <3>1. At(t, "seen")' => task'[t].seen = value'
      BY <2>2, <2>3, <2>4, <1>t DEF At
    <3> QED BY <3>1, <2>2, <2>4 DEF TInv, At
  <2> QED BY <2>2, <2>4, <2>7, <2>8, <2>9 DEF TInv, TTypes
<1>7. CASE write_lock(t)
  <2> DEFINE r == [task[t] EXCEPT !.guards = task[t].guards + 1, !.at = "locked"]
  <2>1. task' = [task EXCEPT ![t] = r] /\ r \in Tasks
    <3>1. task' = [task EXCEPT ![t] = r]
      BY <1>7 DEF write_lock, Granted
    <3>2. "locked" \in Places /\ task[t].guards + 1 \in Nat
      BY <1>t DEF Tasks, Places
    <3> QED BY <3>1, <3>2, <1>t DEF Tasks
  <2>2. /\ task' \in [Worker -> Tasks] /\ task'[t] = r
        /\ \A u \in Worker : u # t => task'[u] = task[u]
    BY <2>1, OthersStay DEF TInv
  <2>3. /\ task[t].at = "start" /\ task[t].guards = 0 /\ task[t].role = "writer"
        /\ ~ writer /\ readers = 0 /\ writer' = TRUE
        /\ UNCHANGED <<readers, value, result, joined, stores>>
    BY <1>7, <1>t DEF write_lock, At, GuardsAt
  <2>4. r.at = "locked" /\ r.role = "writer" /\ r.guards = 1 /\ r.seen = task[t].seen
    BY <2>3, <1>t DEF Tasks
  <2>5. ReadGuards' = ReadGuards
    BY <2>2, <2>3, <2>4, SameGuards
  <2>6. \A u \in Worker : Writing(u)' => u = t
    BY <2>2, <2>3 DEF TInv, LockCounts, Writing
  <2>7. LockCounts'
    BY <2>3, <2>5, <2>6 DEF TInv, LockCounts
  <2>8. \A u \in Worker : GuardsAt(u)' /\ Joins(u)'
    <3>1. GuardsAt(t)' /\ Joins(t)'
      BY <2>2, <2>3, <2>4, <1>t DEF GuardsAt, Joins
    <3> QED BY <3>1, <2>2, <2>3, Rest
  <2>9. \A u \in Worker : At(u, "seen")' => task'[u].seen = value'
    BY <2>2, <2>3, <2>4 DEF TInv, At
  <2> QED BY <2>2, <2>3, <2>7, <2>8, <2>9 DEF TInv, TTypes
<1>8. CASE deref_mut(t)
  <2> DEFINE r == [task[t] EXCEPT !.at = "stored"]
  <2>1. task' = [task EXCEPT ![t] = r] /\ r \in Tasks
    BY <1>8, <1>t DEF deref_mut, Go, Tasks, Places
  <2>2. /\ task' \in [Worker -> Tasks] /\ task'[t] = r
        /\ \A u \in Worker : u # t => task'[u] = task[u]
    BY <2>1, OthersStay DEF TInv
  <2>3. /\ task[t].at = "seen" /\ task[t].guards > 0 /\ task[t].role = "writer"
        /\ value' = task[t].seen + 1 /\ stores' = stores + 1 /\ task[t].seen = value
        /\ UNCHANGED <<writer, readers, result, joined>>
    BY <1>8, <1>t DEF deref_mut, At, GuardsAt
  <2>4. /\ r.at = "stored" /\ r.role = "writer" /\ r.guards = task[t].guards
        /\ r.seen = task[t].seen
    BY <2>3, <1>t DEF Tasks
  <2>5. ReadGuards' = ReadGuards
    BY <2>2, <2>3, <2>4, SameGuards
  <2>6. \A u \in Worker : Writing(u)' <=> Writing(u)
    BY <2>2, <2>3, <2>4 DEF Writing
  <2>7. LockCounts'
    BY <2>3, <2>5, <2>6 DEF TInv, LockCounts
  <2>8. \A u \in Worker : GuardsAt(u)' /\ Joins(u)'
    <3>1. GuardsAt(t)' /\ Joins(t)'
      BY <2>2, <2>3, <2>4, <1>t DEF GuardsAt, Joins
    <3> QED BY <3>1, <2>2, <2>3, Rest
  <2>9. \A u \in Worker : ~ At(u, "seen")'
    <3>1. ASSUME NEW u \in Worker, u # t PROVE task[u].guards = 0
      BY <3>1, <2>3, WriterAlone DEF Writing
    <3>2. \A u \in Worker : u # t => task[u].at # "seen"
      BY <3>1 DEF TInv, GuardsAt
    <3> QED BY <3>2, <2>2, <2>4 DEF At
  <2>10. value' = stores' /\ value' \in Nat
    BY <2>3, <1>t DEF TInv
  <2> QED BY <2>2, <2>3, <2>7, <2>8, <2>9, <2>10 DEF TInv, TTypes
<1>9. CASE drop_read(t)
  <2> DEFINE p == IF task[t].guards = 1 THEN "done" ELSE task[t].at
             r == [task[t] EXCEPT !.guards = task[t].guards - 1, !.at = p]
  <2>1. task[t].guards > 0 /\ task[t].guards \in Nat /\ task[t].at = "seen" /\ task[t].role = "reader"
    BY <1>9, <1>t DEF drop_read, Released, Tasks, At
  <2>2. task' = [task EXCEPT ![t] = r] /\ r \in Tasks
    <3>1. task' = [task EXCEPT ![t] = r]
      BY <1>9 DEF drop_read, Released
    <3>2. p \in Places /\ task[t].guards - 1 \in Nat
      BY <1>t, <2>1 DEF Tasks, Places
    <3> QED BY <3>1, <3>2, <1>t DEF Tasks
  <2>3. /\ task' \in [Worker -> Tasks] /\ task'[t] = r
        /\ \A u \in Worker : u # t => task'[u] = task[u]
    BY <2>2, OthersStay DEF TInv
  <2>4. r.at = p /\ r.role = "reader" /\ r.guards = task[t].guards - 1 /\ r.seen = task[t].seen
    BY <2>1, <1>t DEF Tasks
  <2>5. /\ Cardinality(ReadGuards') = Cardinality(ReadGuards) - 1
        /\ Cardinality(ReadGuards) > 0 /\ Cardinality(ReadGuards) \in Nat
    <3>1. task[t].guards <= MaxGuards
      BY <1>t, <2>1 DEF GuardsAt
    <3>2. Cardinality(ReadGuards) \in Nat
      BY GuardsFinite DEF ReadGuards
    <3> QED BY <2>1, <2>3, <2>4, <3>1, <3>2, OneLess
  <2>6. \A u \in Worker : Writing(u)' <=> Writing(u)
    BY <2>1, <2>3, <2>4 DEF Writing
  <2>7. readers' = readers - 1 /\ UNCHANGED <<writer, value, result, joined, stores>>
    BY <1>9 DEF drop_read
  <2>8. LockCounts' /\ readers' \in Nat
    <3>1. readers = Cardinality(ReadGuards) /\ ~ writer
      BY <2>5 DEF TInv, LockCounts
    <3> QED BY <3>1, <2>5, <2>6, <2>7 DEF TInv, LockCounts
  <2>9. \A u \in Worker : GuardsAt(u)' /\ Joins(u)'
    <3>1. GuardsAt(t)' /\ Joins(t)'
      BY <2>1, <2>3, <2>4, <2>7, <1>t, ThreadsAssumption DEF GuardsAt, Joins
    <3> QED BY <3>1, <2>3, <2>7, Rest
  <2>10. \A u \in Worker : At(u, "seen")' => task'[u].seen = value'
    BY <2>1, <2>3, <2>4, <2>7, <1>t DEF TInv, At
  <2> QED BY <2>3, <2>7, <2>8, <2>9, <2>10 DEF TInv, TTypes
<1>10. CASE drop_write(t)
  <2> DEFINE p == IF task[t].guards = 1 THEN "done" ELSE task[t].at
             r == [task[t] EXCEPT !.guards = task[t].guards - 1, !.at = p]
  <2>1. task[t].guards = 1 /\ task[t].at \in {"seen", "stored"} /\ task[t].role = "writer"
    BY <1>10, <1>t DEF drop_write, Released, Tasks, At, GuardsAt
  <2>2. task' = [task EXCEPT ![t] = r] /\ r \in Tasks
    <3>1. task' = [task EXCEPT ![t] = r]
      BY <1>10 DEF drop_write, Released
    <3>2. p \in Places /\ task[t].guards - 1 \in Nat
      BY <1>t, <2>1 DEF Tasks, Places
    <3> QED BY <3>1, <3>2, <1>t DEF Tasks
  <2>3. /\ task' \in [Worker -> Tasks] /\ task'[t] = r
        /\ \A u \in Worker : u # t => task'[u] = task[u]
    BY <2>2, OthersStay DEF TInv
  <2>4. r.at = "done" /\ r.role = "writer" /\ r.guards = 0 /\ r.seen = task[t].seen
    BY <2>1, <1>t DEF Tasks
  <2>5. ReadGuards' = ReadGuards
    BY <2>1, <2>3, <2>4, SameGuards
  <2>6. \A u \in Worker : ~ Writing(u)'
    <3>1. Writing(t) /\ ~ Writing(t)'
      BY <2>1, <2>3, <2>4 DEF Writing
    <3>2. \A u \in Worker : u # t => (Writing(u)' <=> Writing(u))
      BY <2>3 DEF Writing
    <3> QED BY <3>1, <3>2 DEF TInv, LockCounts
  <2>7. writer' = FALSE /\ UNCHANGED <<readers, value, result, joined, stores>>
    BY <1>10 DEF drop_write
  <2>8. LockCounts'
    BY <2>5, <2>6, <2>7 DEF TInv, LockCounts
  <2>9. \A u \in Worker : GuardsAt(u)' /\ Joins(u)'
    <3>1. GuardsAt(t)' /\ Joins(t)'
      BY <2>1, <2>3, <2>4, <2>7, <1>t DEF GuardsAt, Joins
    <3> QED BY <3>1, <2>3, <2>7, Rest
  <2>10. \A u \in Worker : At(u, "seen")' => task'[u].seen = value'
    BY <2>3, <2>4, <2>7 DEF TInv, At
  <2> QED BY <2>3, <2>7, <2>8, <2>9, <2>10 DEF TInv, TTypes
<1> QED BY <1>1, <1>2, <1>3, <1>4, <1>5, <1>6, <1>7, <1>8, <1>9, <1>10

-----------------------------------------------------------------------------
(* The inductive invariant.                                                  *)
THEOREM ThreadsInvariance == ThreadsSpec => []TInv
BY TInit, TNext, PTL DEF ThreadsSpec

(* A value read through a guard stays the value while the guard is held, no  *)
(* write is lost and join returns what the closure returned, for any number  *)
(* of threads and of guards, and whichever threads panic (RwLock and         *)
(* JoinHandle).                                                              *)
THEOREM SharedSafety == ThreadsSpec => []SharedSafely
<1>1. TInv => SharedSafely
  <2> SUFFICES ASSUME TInv, NEW t \in Worker, joined[t] # Unjoined
               PROVE  joined[t] = IF At(t, "panicked") THEN Nothing ELSE task[t].seen
    BY DEF TInv, SharedSafely
  <2> QED BY DEF TInv, Joins, At
<1> QED BY <1>1, ThreadsInvariance, PTL

(* Readers and a writer never have the lock at once, and no two writers do,  *)
(* also when threads that had it have panicked (RwLock).                     *)
THEOREM WriterExcludes ==
  ThreadsSpec => [](\A t, u \in Worker : Writing(t) /\ task[u].guards > 0 => t = u)
<1>1. TInv => \A t, u \in Worker : Writing(t) /\ task[u].guards > 0 => t = u
  <2> SUFFICES ASSUME TInv, NEW t \in Worker, NEW u \in Worker, Writing(t),
                      task[u].guards > 0, t # u
               PROVE  FALSE
    OBVIOUS
  <2>1. task[u].guards = 0
    BY WriterAlone
  <2> QED BY <2>1
<1> QED BY <1>1, ThreadsInvariance, PTL

-----------------------------------------------------------------------------
(***************************************************************************)
(* Process, for every size of a table and every number of children and of  *)
(* Commands half made: in the program's table each end of a pipe is at one *)
(* descriptor, held by one Command or by one Child; a child has its own    *)
(* end at 0, 1 or 2, and no child spawned later has it.                    *)
(***************************************************************************)

Fds == 0..(MaxFd - 1)
High == 3..(MaxFd - 1)

(* What is behind a descriptor.                                              *)
Thing == {"closed", "tty", "file", "r", "w"} \X Nat
Tables == [Fds -> Thing]
IsEnd(v) == v[1] \in {"r", "w"}

Stdios == {[kind |-> "Inherit"], [kind |-> "Null"]}
          \cup {[kind |-> "Raw", fd |-> d] : d \in High}
          \cup {[kind |-> "Piped", read |-> r, write |-> w] : r \in High, w \in High}

IsPiped(c) == c.kind = "Piped"
UsedBy(c) == IF c.kind = "Piped" THEN {c.read, c.write} ELSE IF c.kind = "Raw" THEN {c.fd} ELSE {}

Yes == TRUE
Kid == [t : Tables, asked : [Streams -> Stdios], from : Tables,
        ends : [Streams -> High \cup {-1}], told : {Yes}, status : Int, got : Int]

(* The two ends of the pipe of stream s of a child.                          *)
MineOf(k, s) == k.from[Mine(k.asked[s], s)]
TheirsOf(k, s) == k.from[Theirs(k.asked[s], s)]

PTypes ==
  /\ sets \in Nat /\ fds \in Tables /\ cmd \in [Streams -> Stdios]
  /\ aside \in [1..MaxAside -> [Streams -> Stdios]]
  /\ kids \in Seq(Kid)

(* Pipes are numbered from 1 as they are made.                               *)
Numbered ==
  /\ \A d \in Fds : fds[d][2] <= sets
  /\ \A k \in DOMAIN kids, d \in Fds : kids[k].t[d][2] <= sets /\ kids[k].from[d][2] <= sets

(* The program's table: its own streams, what the Command holds, and every   *)
(* end of a pipe once.                                                       *)
TableRight ==
  /\ \A d \in 0..2 : fds[d] = Terminal
  /\ \A s \in Streams :
       /\ cmd[s].kind = "Raw" => fds[cmd[s].fd] = File
       /\ cmd[s].kind = "Piped" => fds[cmd[s].read][1] = "r" /\ fds[cmd[s].write][1] = "w"
  /\ \A s, u \in Streams : s # u => UsedBy(cmd[s]) \cap UsedBy(cmd[u]) = {}
  /\ \A d, e \in Fds : fds[d] = fds[e] /\ IsEnd(fds[d]) => d = e

(* The pipes of a Command are no Child's.                                    *)
NoChilds(c) == \A s \in Streams : \A d \in UsedBy(c[s]) : IsEnd(fds[d]) =>
  \A k \in DOMAIN kids, u \in Streams : IsPiped(kids[k].asked[u]) => TheirsOf(kids[k], u) # fds[d]
CommandNew == NoChilds(cmd)

(* The same of the Commands put aside, and no two Commands hold the same     *)
(* descriptor.                                                               *)
AsideRight ==
  /\ \A i \in 1..MaxAside : /\ NoChilds(aside[i])
                           /\ \A s \in Streams :
       /\ aside[i][s].kind = "Raw" => fds[aside[i][s].fd] = File
       /\ aside[i][s].kind = "Piped" => fds[aside[i][s].read][1] = "r" /\ fds[aside[i][s].write][1] = "w"
  /\ \A i \in 1..MaxAside, s, u \in Streams :
       /\ s # u => UsedBy(aside[i][s]) \cap UsedBy(aside[i][u]) = {}
       /\ UsedBy(aside[i][s]) \cap UsedBy(cmd[u]) = {}
  /\ \A i, j \in 1..MaxAside, s, u \in Streams :
       i # j => UsedBy(aside[i][s]) \cap UsedBy(aside[j][u]) = {}

(* A child has what the program had when it was spawned.                     *)
Inherited == \A k \in DOMAIN kids, d \in Fds :
  IsEnd(kids[k].t[d]) => \E e \in Fds : kids[k].from[e] = kids[k].t[d]

(* What a child was made with, until it ends.                                *)
KidMade == \A k \in DOMAIN kids : kids[k].status = -1 =>
  \A s \in Streams :
    /\ kids[k].t[Number[s]] = Wanted(kids[k], s)
    /\ IsPiped(kids[k].asked[s]) => \A d \in Fds : kids[k].t[d] = MineOf(kids[k], s) => d = Number[s]

(* Where the ends of the children's pipes are.                               *)
EndsRight ==
  /\ \A k \in DOMAIN kids, s \in Streams : IsPiped(kids[k].asked[s]) =>
       LET mine == MineOf(kids[k], s)
           theirs == TheirsOf(kids[k], s)
       IN /\ IsEnd(mine) /\ IsEnd(theirs)
          /\ \A d \in Fds : /\ fds[d] # mine /\ kids[k].t[d] # theirs
                            /\ fds[d] = theirs => d = kids[k].ends[s]
          /\ \A j \in DOMAIN kids, d \in Fds : j > k => kids[j].t[d] # mine
  /\ \A k \in DOMAIN kids, s \in Streams : kids[k].ends[s] # -1 =>
       IsPiped(kids[k].asked[s]) /\ fds[kids[k].ends[s]] = TheirsOf(kids[k], s)
  /\ \A j, k \in DOMAIN kids, s, u \in Streams :
       IsPiped(kids[j].asked[s]) /\ IsPiped(kids[k].asked[u])
         /\ TheirsOf(kids[j], s) = TheirsOf(kids[k], u) => j = k /\ s = u

PInv == PTypes /\ Numbered /\ TableRight /\ CommandNew /\ AsideRight /\ Inherited /\ KidMade /\ EndsRight

LEMMA LeastNumber ==
  ASSUME NEW T \in SUBSET Nat, T # {}
  PROVE  \E n \in T : \A m \in T : n <= m
<1>1. PICK n \in T : \A m \in T : ~ (<<m, n>> \in OpToRel(<, Nat))
  BY WFMin, NatLessThanWellFounded
<1>2. \A m \in T : ~ (m < n)
  BY <1>1 DEF OpToRel
<1> QED BY <1>2

-----------------------------------------------------------------------------
LEMMA Descriptors ==
  /\ MaxFd \in Nat /\ Fds \subseteq Nat /\ High \subseteq Fds /\ 0..2 \subseteq Fds
  /\ \A d \in High : d >= 3
  /\ Number["stdin"] = 0 /\ Number["stdout"] = 1 /\ Number["stderr"] = 2
  /\ \A s \in Streams : Number[s] \in 0..2
  /\ \A s, u \in Streams : Number[s] = Number[u] => s = u
BY ProcessAssumption DEF Fds, High, Number, Streams

LEMMA ThingsApart ==
  /\ Closed \in Thing /\ Terminal \in Thing /\ File \in Thing
  /\ Closed # Terminal /\ Closed # File /\ Closed[2] = 0 /\ Terminal[2] = 0 /\ File[2] = 0
  /\ ~ IsEnd(Closed) /\ ~ IsEnd(Terminal) /\ ~ IsEnd(File)
  /\ \A n \in Nat : /\ End("r", n) \in Thing /\ End("w", n) \in Thing
                    /\ IsEnd(End("r", n)) /\ IsEnd(End("w", n))
                    /\ End("r", n)[1] = "r" /\ End("w", n)[1] = "w"
                    /\ End("r", n)[2] = n /\ End("w", n)[2] = n
BY DEF Closed, Terminal, File, Thing, IsEnd, End

LEMMA StdioOf ==
  ASSUME NEW c \in Stdios
  PROVE  /\ c.kind \in {"Inherit", "Null", "Raw", "Piped"}
         /\ c.kind = "Raw" => c.fd \in High
         /\ c.kind = "Piped" => c.read \in High /\ c.write \in High
         /\ UsedBy(c) \subseteq High
<1>1. CASE c = [kind |-> "Inherit"] \/ c = [kind |-> "Null"]
  <2>1. c.kind \in {"Inherit", "Null"}
    BY <1>1
  <2> QED BY <2>1 DEF UsedBy
<1>2. CASE \E d \in High : c = [kind |-> "Raw", fd |-> d]
  <2>1. c.kind = "Raw" /\ c.fd \in High
    BY <1>2
  <2> QED BY <2>1 DEF UsedBy
<1>3. CASE \E r, w \in High : c = [kind |-> "Piped", read |-> r, write |-> w]
  <2>1. c.kind = "Piped" /\ c.read \in High /\ c.write \in High
    BY <1>3
  <2> QED BY <2>1 DEF UsedBy
<1> QED BY <1>1, <1>2, <1>3 DEF Stdios

(* The lowest free number.                                                   *)
LEMMA NextFd ==
  ASSUME NEW t \in Tables, NEW n \in Fds, t[n] = Closed,
         \A m \in 0..(n - 1) : t[m] # Closed
  PROVE  next_fd(t) = n
<1> DEFINE S == {d \in DOMAIN t : t[d] = Closed}
<1>1. n \in S /\ \A y \in S : n <= y /\ y \in Nat
  BY Descriptors DEF Fds, Tables
<1> HIDE DEF S
<1>2. Min(S) \in S /\ \A y \in S : Min(S) <= y
  BY <1>1 DEF Min
<1>3. Min(S) = n
  BY <1>1, <1>2
<1> QED BY <1>3 DEF next_fd, Free, S

LEMMA FreeNumber ==
  ASSUME NEW t \in Tables, Free(t) # {}
  PROVE  next_fd(t) \in Fds /\ t[next_fd(t)] = Closed
<1>1. Free(t) \in SUBSET Nat
  BY Descriptors DEF Free, Tables
<1>2. PICK n \in Free(t) : \A m \in Free(t) : n <= m
  BY <1>1, LeastNumber
<1>3. Min(Free(t)) \in Free(t)
  BY <1>2 DEF Min
<1> QED BY <1>3 DEF next_fd, Free, Tables

(* A state of the calls in which none has failed.                            *)
Fine(t) == [ok |-> Yes, t |-> t]
Put(t, d, v) == [t EXCEPT ![d] = v]

LEMMA PutIs ==
  ASSUME NEW t \in Tables, NEW d \in Fds, NEW v \in Thing
  PROVE  /\ Put(t, d, v) \in Tables
         /\ \A e \in Fds : Put(t, d, v)[e] = IF e = d THEN v ELSE t[e]
BY DEF Put, Tables

LEMMA CallPuts ==
  ASSUME NEW x, NEW t, NEW d, NEW v
  PROVE  [[ok |-> x, t |-> t] EXCEPT !.t[d] = v] = [ok |-> x, t |-> Put(t, d, v)]
BY DEF Put

LEMMA CloseFine ==
  ASSUME NEW t \in Tables, NEW d \in Fds, t[d] # Closed
  PROVE  sys_close(Fine(t), d) = Fine(Put(t, d, Closed))
<1> DEFINE s == Fine(t)
<1>0. s.ok = Yes /\ s.t = t
  BY DEF Fine
<1>1. s.ok /\ s.t = t
  BY <1>0, Zenon DEF Yes
<1>2. sys_close(s, d) = [s EXCEPT !.t[d] = Closed]
  BY <1>1 DEF sys_close
<1>3. [s EXCEPT !.t[d] = Closed] = Fine(Put(t, d, Closed))
  BY CallPuts DEF Fine
<1> QED BY <1>2, <1>3

LEMMA DupFine ==
  ASSUME NEW t \in Tables, NEW d \in Fds, t[d] # Closed,
         NEW n \in Fds, t[n] = Closed, \A m \in 0..(n - 1) : t[m] # Closed
  PROVE  sys_dup(Fine(t), d) = Fine(Put(t, n, t[d]))
<1> DEFINE s == Fine(t)
<1>0. s.ok = Yes /\ s.t = t
  BY DEF Fine
<1>1. s.ok /\ s.t = t
  BY <1>0, Zenon DEF Yes
<1>2. next_fd(s.t) = n
  BY <1>1, NextFd
<1>3. sys_dup(s, d) = [s EXCEPT !.t[n] = t[d]]
  BY <1>1, <1>2 DEF sys_dup
<1>4. [s EXCEPT !.t[n] = t[d]] = Fine(Put(t, n, t[d]))
  BY CallPuts DEF Fine
<1> QED BY <1>3, <1>4

(* close, dup, close: descriptor d moves to number n.                        *)
Moved(t, n, d) == Put(Put(t, n, t[d]), d, Closed)

LEMMA MoveFine ==
  ASSUME NEW t \in Tables, NEW n \in 0..2, NEW d \in High, t[d] # Closed,
         \A m \in 0..n : t[m] # Closed
  PROVE  sys_close(sys_dup(sys_close(Fine(t), n), d), d) = Fine(Moved(t, n, d))
<1>0. n \in Fds /\ d \in Fds /\ d # n /\ n \in Nat /\ t[d] \in Thing
  BY Descriptors DEF Tables
<1> DEFINE a == Put(t, n, Closed)
           b == Put(a, n, a[d])
<1>1. sys_close(Fine(t), n) = Fine(a)
  BY <1>0, CloseFine
<1>2. a \in Tables /\ \A e \in Fds : a[e] = IF e = n THEN Closed ELSE t[e]
  <2>1. Closed \in Thing
    BY ThingsApart
  <2> QED BY <1>0, <2>1, PutIs
<1> HIDE DEF a
<1>3. \A m \in 0..(n - 1) : a[m] # Closed
  <2> TAKE m \in 0..(n - 1)
  <2>1. m \in 0..n /\ m # n /\ m \in 0..2
    BY <1>0
  <2> QED BY <1>2, <2>1, Descriptors
<1>4. sys_dup(Fine(a), d) = Fine(b)
  BY <1>0, <1>2, <1>3, DupFine
<1>5. b \in Tables /\ \A e \in Fds : b[e] = IF e = n THEN t[d] ELSE t[e]
  BY <1>0, <1>2, PutIs
<1> HIDE DEF b
<1>6. sys_close(Fine(b), d) = Fine(Put(b, d, Closed))
  BY <1>0, <1>5, CloseFine
<1>7. Put(t, n, t[d]) \in Tables
      /\ \A e \in Fds : Put(t, n, t[d])[e] = IF e = n THEN t[d] ELSE t[e]
  BY <1>0, PutIs
<1>8. b = Put(t, n, t[d])
  <2> DEFINE x == Put(t, n, t[d])
  <2>1. x \in Tables /\ \A e \in Fds : b[e] = x[e]
    BY <1>5, <1>7
  <2> HIDE DEF x
  <2>2. b = x
    BY <1>5, <2>1 DEF Tables
  <2> QED BY <2>2 DEF x
<1> QED BY <1>1, <1>4, <1>6, <1>8 DEF Moved

(* What the child is to have as stream s, in terms of the table t.           *)
StreamOf(t, c, s) ==
  CASE c.kind = "Piped" -> t[Mine(c, s)]
    [] c.kind = "Raw" -> t[c.fd]
    [] c.kind = "Null" -> Closed
    [] OTHER -> t[Number[s]]

(* The table after one stream.                                               *)
After(t, c, s) ==
  [e \in Fds |-> IF e = Number[s] THEN StreamOf(t, c, s) ELSE IF e \in UsedBy(c) THEN Closed ELSE t[e]]

LEMMA EndsOf ==
  ASSUME NEW c \in Stdios, c.kind = "Piped", NEW s \in Streams
  PROVE  /\ Mine(c, s) \in High /\ Theirs(c, s) \in High
         /\ UsedBy(c) = {Mine(c, s), Theirs(c, s)}
         /\ c.read # c.write => Mine(c, s) # Theirs(c, s)
<1>1. c.read \in High /\ c.write \in High
  BY StdioOf
<1> QED BY <1>1 DEF Mine, Theirs, UsedBy

LEMMA SameTable ==
  ASSUME NEW t \in Tables, NEW u \in Tables, \A e \in Fds : t[e] = u[e]
  PROVE  t = u
BY DEF Tables

LEMMA AfterIs ==
  ASSUME NEW t \in Tables, NEW c \in Stdios, NEW s \in Streams
  PROVE  /\ StreamOf(t, c, s) \in Thing /\ After(t, c, s) \in Tables
         /\ \A e \in Fds : After(t, c, s)[e] =
              IF e = Number[s] THEN StreamOf(t, c, s) ELSE IF e \in UsedBy(c) THEN Closed ELSE t[e]
<1>0. Number[s] \in Fds /\ High \subseteq Fds /\ Closed \in Thing /\ \A e \in Fds : t[e] \in Thing
  BY Descriptors, ThingsApart DEF Tables
<1>1. StreamOf(t, c, s) \in Thing
  <2>1. CASE c.kind = "Piped"
    <3>1. Mine(c, s) \in High
      BY <2>1, EndsOf
    <3> QED BY <1>0, <2>1, <3>1 DEF StreamOf
  <2>2. CASE c.kind = "Raw"
    <3>1. c.fd \in High
      BY <2>2, StdioOf
    <3> QED BY <1>0, <2>2, <3>1 DEF StreamOf
  <2>3. CASE c.kind \in {"Inherit", "Null"}
    BY <1>0, <2>3 DEF StreamOf
  <2> QED BY <2>1, <2>2, <2>3, StdioOf
<1> QED BY <1>0, <1>1 DEF After, Tables

LEMMA RedirectFine ==
  ASSUME NEW t \in Tables, NEW s \in Streams, cmd[s] \in Stdios,
         \A m \in 0..Number[s] : t[m] # Closed, \A d \in UsedBy(cmd[s]) : t[d] # Closed,
         cmd[s].kind = "Piped" => cmd[s].read # cmd[s].write
  PROVE  Redirect(Fine(t), s) = Fine(After(t, cmd[s], s))
<1> DEFINE c == cmd[s]
           n == Number[s]
           a == After(t, c, s)
           Take(x, d) == sys_close(sys_dup(sys_close(x, n), d), d)
<1>0. n \in 0..2 /\ n \in Fds /\ High \subseteq Fds /\ \A d \in High : d # n
  BY Descriptors
<1>1. a \in Tables /\ \A e \in Fds : a[e] =
        IF e = n THEN StreamOf(t, c, s) ELSE IF e \in UsedBy(c) THEN Closed ELSE t[e]
  BY AfterIs
<1>2. Closed \in Thing /\ \A e \in Fds : t[e] \in Thing
  BY ThingsApart DEF Tables
<1>3. Redirect(Fine(t), s) =
        CASE c.kind = "Piped" -> Take(sys_close(Fine(t), Theirs(c, s)), Mine(c, s))
          [] c.kind = "Raw" -> Take(Fine(t), c.fd)
          [] c.kind = "Null" -> sys_close(Fine(t), n)
          [] OTHER -> Fine(t)
  BY DEF Redirect
<1> HIDE DEF a
<1>4. CASE c.kind = "Piped"
  <2> DEFINE d == Mine(c, s)
             f == Theirs(c, s)
             b == Put(t, f, Closed)
             m == Moved(b, n, d)
  <2>0. d \in High /\ f \in High /\ d # f /\ UsedBy(c) = {d, f} /\ t[d] # Closed /\ t[f] # Closed
    BY <1>4, EndsOf
  <2>1. StreamOf(t, c, s) = t[d]
    BY <1>4 DEF StreamOf
  <2> HIDE DEF d, f
  <2>2. sys_close(Fine(t), f) = Fine(b)
    BY <1>0, <2>0, CloseFine
  <2>3. b \in Tables /\ \A e \in Fds : b[e] = IF e = f THEN Closed ELSE t[e]
    BY <1>0, <1>2, <2>0, PutIs
  <2> HIDE DEF b
  <2>4. b[d] # Closed /\ b[d] = t[d]
    BY <1>0, <2>0, <2>3
  <2>5. \A i \in 0..n : b[i] # Closed
    <3> TAKE i \in 0..n
    <3>1. i \in 0..2 /\ i \in Fds /\ i # f
      BY <1>0, <2>0, Descriptors
    <3> QED BY <2>3, <3>1
  <2>6. Take(Fine(b), d) = Fine(m)
    BY <1>0, <2>0, <2>3, <2>4, <2>5, MoveFine
  <2>7. m = a
    <3> DEFINE g == Put(b, n, b[d])
    <3>1. g \in Tables /\ \A e \in Fds : g[e] = IF e = n THEN b[d] ELSE b[e]
      <4>1. b[d] \in Thing
        BY <1>0, <1>2, <2>0, <2>4
      <4> QED BY <1>0, <2>3, <4>1, PutIs
    <3> HIDE DEF g
    <3>2. Put(g, d, Closed) \in Tables
          /\ \A e \in Fds : Put(g, d, Closed)[e] = IF e = d THEN Closed ELSE g[e]
      BY <1>0, <1>2, <2>0, <3>1, PutIs
    <3>3. m = Put(g, d, Closed)
      BY DEF Moved, g
    <3> HIDE DEF m
    <3>4. \A e \in Fds : m[e] = a[e]
      BY <1>0, <1>1, <2>0, <2>1, <2>3, <2>4, <3>1, <3>2, <3>3
    <3> QED BY <1>1, <3>2, <3>3, <3>4, SameTable
  <2>8. Redirect(Fine(t), s) = Take(sys_close(Fine(t), f), d)
    BY <1>3, <1>4 DEF d, f
  <2> HIDE DEF m
  <2> QED BY <2>2, <2>6, <2>7, <2>8 DEF a
<1>5. CASE c.kind = "Raw"
  <2> DEFINE d == c.fd
             m == Moved(t, n, d)
  <2>0. d \in High /\ UsedBy(c) = {d} /\ t[d] # Closed
    BY <1>5, StdioOf DEF UsedBy
  <2>1. StreamOf(t, c, s) = t[d]
    BY <1>5 DEF StreamOf
  <2> HIDE DEF d
  <2>6. Take(Fine(t), d) = Fine(m)
    BY <1>0, <2>0, MoveFine
  <2>7. m = a
    <3> DEFINE g == Put(t, n, t[d])
    <3>1. g \in Tables /\ \A e \in Fds : g[e] = IF e = n THEN t[d] ELSE t[e]
      <4>1. t[d] \in Thing
        BY <1>0, <1>2, <2>0
      <4> QED BY <1>0, <4>1, PutIs
    <3> HIDE DEF g
    <3>2. Put(g, d, Closed) \in Tables
          /\ \A e \in Fds : Put(g, d, Closed)[e] = IF e = d THEN Closed ELSE g[e]
      BY <1>0, <1>2, <2>0, <3>1, PutIs
    <3>3. m = Put(g, d, Closed)
      BY DEF Moved, g
    <3> HIDE DEF m
    <3>4. \A e \in Fds : m[e] = a[e]
      BY <1>0, <1>1, <2>0, <2>1, <3>1, <3>2, <3>3
    <3> QED BY <1>1, <3>2, <3>3, <3>4, SameTable
  <2>8. Redirect(Fine(t), s) = Take(Fine(t), d)
    BY <1>3, <1>5 DEF d
  <2> HIDE DEF m
  <2> QED BY <2>6, <2>7, <2>8 DEF a
<1>6. CASE c.kind = "Null"
  <2>1. t[n] # Closed
    BY <1>0
  <2>2. sys_close(Fine(t), n) = Fine(Put(t, n, Closed))
    BY <1>0, <2>1, CloseFine
  <2>3. Put(t, n, Closed) \in Tables
        /\ \A e \in Fds : Put(t, n, Closed)[e] = IF e = n THEN Closed ELSE t[e]
    BY <1>0, <1>2, PutIs
  <2>4. StreamOf(t, c, s) = Closed /\ UsedBy(c) = {}
    BY <1>6 DEF StreamOf, UsedBy
  <2>5. Put(t, n, Closed) = a
    BY <1>1, <2>3, <2>4, SameTable
  <2>6. Redirect(Fine(t), s) = sys_close(Fine(t), n)
    BY <1>3, <1>6
  <2> QED BY <2>2, <2>5, <2>6 DEF a
<1>7. CASE c.kind = "Inherit"
  <2>1. StreamOf(t, c, s) = t[n] /\ UsedBy(c) = {}
    BY <1>7 DEF StreamOf, UsedBy
  <2>2. t = a
    BY <1>1, <2>1, SameTable
  <2>3. Redirect(Fine(t), s) = Fine(t)
    BY <1>3, <1>7
  <2> QED BY <2>2, <2>3 DEF a
<1> QED BY <1>4, <1>5, <1>6, <1>7, StdioOf

(* What of the Command the parent closes.                                    *)
GivenTo(c, s) == IF c.kind = "Piped" THEN {Mine(c, s)} ELSE IF c.kind = "Raw" THEN {c.fd} ELSE {}

LEMMA ReleaseFine ==
  ASSUME NEW t \in Tables, NEW s \in Streams, cmd[s] \in Stdios,
         \A d \in GivenTo(cmd[s], s) : t[d] # Closed
  PROVE  \E u \in Tables : /\ Release(Fine(t), s) = Fine(u)
                           /\ \A e \in Fds : u[e] = IF e \in GivenTo(cmd[s], s) THEN Closed ELSE t[e]
<1> DEFINE c == cmd[s]
<1>0. High \subseteq Fds /\ Closed \in Thing
  BY Descriptors, ThingsApart
<1>1. ASSUME NEW d \in High, GivenTo(c, s) = {d}, Release(Fine(t), s) = sys_close(Fine(t), d)
      PROVE  \E u \in Tables : /\ Release(Fine(t), s) = Fine(u)
                               /\ \A e \in Fds : u[e] = IF e \in GivenTo(c, s) THEN Closed ELSE t[e]
  <2>1. t[d] # Closed
    BY <1>1
  <2>2. sys_close(Fine(t), d) = Fine(Put(t, d, Closed))
    BY <1>0, <2>1, CloseFine
  <2>3. Put(t, d, Closed) \in Tables
        /\ \A e \in Fds : Put(t, d, Closed)[e] = IF e = d THEN Closed ELSE t[e]
    BY <1>0, PutIs
  <2> QED BY <1>1, <2>2, <2>3
<1>2. CASE c.kind = "Piped"
  <2>1. Mine(c, s) \in High /\ GivenTo(c, s) = {Mine(c, s)}
    BY <1>2, EndsOf DEF GivenTo
  <2>2. Release(Fine(t), s) = sys_close(Fine(t), Mine(c, s))
    BY <1>2 DEF Release
  <2> QED BY <1>1, <2>1, <2>2
<1>3. CASE c.kind = "Raw"
  <2>1. c.fd \in High /\ GivenTo(c, s) = {c.fd}
    BY <1>3, StdioOf DEF GivenTo
  <2>2. Release(Fine(t), s) = sys_close(Fine(t), c.fd)
    BY <1>3 DEF Release
  <2> QED BY <1>1, <2>1, <2>2
<1>4. CASE c.kind \in {"Inherit", "Null"}
  <2>1. Release(Fine(t), s) = Fine(t) /\ GivenTo(c, s) = {}
    BY <1>4 DEF Release, GivenTo
  <2> QED BY <2>1
<1> QED BY <1>2, <1>3, <1>4, StdioOf

LEMMA CommandReady ==
  ASSUME PTypes, TableRight
  PROVE  /\ fds \in Tables
         /\ \A s \in Streams :
              /\ cmd[s] \in Stdios
              /\ cmd[s].kind = "Piped" => cmd[s].read # cmd[s].write
              /\ \A d \in UsedBy(cmd[s]) : d \in High /\ fds[d] # Closed
              /\ GivenTo(cmd[s], s) \subseteq UsedBy(cmd[s])
<1> USE DEF PTypes, TableRight
<1>1. fds \in Tables
  OBVIOUS
<1>2. ASSUME NEW s \in Streams
      PROVE  /\ cmd[s] \in Stdios
             /\ cmd[s].kind = "Piped" => cmd[s].read # cmd[s].write
             /\ \A d \in UsedBy(cmd[s]) : d \in High /\ fds[d] # Closed
             /\ GivenTo(cmd[s], s) \subseteq UsedBy(cmd[s])
  <2> DEFINE c == cmd[s]
  <2>1. c \in Stdios
    OBVIOUS
  <2>2. c.kind = "Raw" => fds[c.fd] # Closed
    BY ThingsApart
  <2>3. c.kind = "Piped" => fds[c.read] # Closed /\ fds[c.write] # Closed /\ c.read # c.write
    BY DEF Closed
  <2>4. UsedBy(c) \subseteq High
    BY <2>1, StdioOf
  <2>5. \A d \in UsedBy(c) : fds[d] # Closed
    BY <2>2, <2>3 DEF UsedBy
  <2>6. GivenTo(c, s) \subseteq UsedBy(c)
    BY DEF GivenTo, UsedBy, Mine
  <2> QED BY <2>1, <2>3, <2>4, <2>5, <2>6
<1> QED BY <1>1, <1>2

(* The child's table when the streams X are in place.                        *)
InPlace(t, X) ==
  /\ t \in Tables
  /\ \A s \in Streams : t[Number[s]] = IF s \in X THEN StreamOf(fds, cmd[s], s) ELSE fds[Number[s]]
  /\ \A e \in High : t[e] = IF \E s \in X : e \in UsedBy(cmd[s]) THEN Closed ELSE fds[e]

LEMMA OneInPlace ==
  ASSUME PTypes, TableRight, NEW t, NEW X \in SUBSET Streams, InPlace(t, X),
         NEW s \in Streams, s \notin X, \A u \in X : Number[u] > Number[s]
  PROVE  \E v : Redirect(Fine(t), s) = Fine(v) /\ InPlace(v, X \cup {s})
<1> DEFINE c == cmd[s]
           n == Number[s]
           v == After(t, c, s)
<1>0. /\ n \in 0..2 /\ n \in Fds /\ High \subseteq Fds /\ \A d \in High : d # n /\ d >= 3
      /\ \A u \in Streams : Number[u] \in 0..2 /\ Number[u] \in Fds
      /\ \A u \in Streams : Number[u] = Number[s] => u = s
  BY Descriptors
<1>1. /\ t \in Tables
      /\ \A u \in Streams : t[Number[u]] = IF u \in X THEN StreamOf(fds, cmd[u], u) ELSE fds[Number[u]]
      /\ \A e \in High : t[e] = IF \E u \in X : e \in UsedBy(cmd[u]) THEN Closed ELSE fds[e]
  BY DEF InPlace
<1>2. /\ c \in Stdios /\ (c.kind = "Piped" => c.read # c.write)
      /\ \A d \in UsedBy(c) : d \in High /\ fds[d] # Closed
  BY CommandReady
<1>3. ASSUME NEW d \in UsedBy(c) PROVE t[d] = fds[d] /\ t[d] # Closed
  <2>1. \A u \in X : d \notin UsedBy(cmd[u])
    BY DEF TableRight
  <2> QED BY <1>1, <1>2, <1>3, <2>1
<1>4. ASSUME NEW m \in 0..n PROVE t[m] # Closed
  <2>1. m \in 0..2 /\ m \in Nat
    BY <1>0
  <2>2. PICK u \in Streams : Number[u] = m
    BY <2>1, Descriptors DEF Streams
  <2>3. u \notin X
    BY <1>0, <2>2
  <2>4. t[m] = fds[m]
    BY <1>1, <2>2, <2>3
  <2>5. fds[m] = Terminal
    BY <2>1 DEF TableRight
  <2> QED BY <2>4, <2>5, ThingsApart
<1>5. Redirect(Fine(t), s) = Fine(v)
  BY <1>1, <1>2, <1>3, <1>4, RedirectFine
<1>6. v \in Tables /\ \A e \in Fds : v[e] =
        IF e = n THEN StreamOf(t, c, s) ELSE IF e \in UsedBy(c) THEN Closed ELSE t[e]
  BY <1>1, <1>2, AfterIs
<1> HIDE DEF v
<1>7. StreamOf(t, c, s) = StreamOf(fds, c, s)
  <2>1. CASE c.kind = "Piped"
    <3>1. Mine(c, s) \in UsedBy(c)
      BY <1>2, <2>1, EndsOf
    <3> QED BY <1>3, <2>1, <3>1 DEF StreamOf
  <2>2. CASE c.kind = "Raw"
    <3>1. c.fd \in UsedBy(c)
      BY <2>2 DEF UsedBy
    <3> QED BY <1>3, <2>2, <3>1 DEF StreamOf
  <2>3. CASE c.kind = "Null"
    BY <2>3 DEF StreamOf
  <2>4. CASE c.kind = "Inherit"
    BY <1>1, <2>4 DEF StreamOf
  <2> QED BY <1>2, <2>1, <2>2, <2>3, <2>4, StdioOf
<1> DEFINE Y == X \cup {s}
<1>8. ASSUME NEW u \in Streams
      PROVE  v[Number[u]] = IF u \in Y THEN StreamOf(fds, cmd[u], u) ELSE fds[Number[u]]
  <2>1. CASE u = s
    BY <1>0, <1>6, <1>7, <2>1
  <2>2. CASE u # s
    <3>1. Number[u] # n /\ Number[u] \in Fds
      BY <1>0, <2>2
    <3>2. Number[u] \notin UsedBy(c)
      BY <1>0, <1>2
    <3>3. v[Number[u]] = t[Number[u]]
      BY <1>6, <3>1, <3>2
    <3> QED BY <1>1, <2>2, <3>3
  <2> QED BY <2>1, <2>2
<1>9. ASSUME NEW e \in High
      PROVE  v[e] = IF \E u \in Y : e \in UsedBy(cmd[u]) THEN Closed ELSE fds[e]
  <2>1. v[e] = IF e \in UsedBy(c) THEN Closed ELSE t[e]
    BY <1>0, <1>6
  <2> QED BY <1>1, <2>1
<1>10. InPlace(v, Y)
  BY <1>6, <1>8, <1>9 DEF InPlace
<1> QED BY <1>5, <1>10

(* What the child starts with.                                               *)
LEMMA ChildTable ==
  ASSUME PTypes, TableRight
  PROVE  \E t : child_code(Fine(fds)) = Fine(t) /\ InPlace(t, Streams)
<1> DEFINE X0 == {s \in Streams : FALSE}
           X1 == {"stderr"}
           X2 == {"stderr", "stdout"}
<1>0. X0 = {} /\ X1 = X0 \cup {"stderr"} /\ X2 = X1 \cup {"stdout"} /\ Streams = X2 \cup {"stdin"}
      /\ X0 \in SUBSET Streams /\ X1 \in SUBSET Streams /\ X2 \in SUBSET Streams
      /\ "stderr" \in Streams /\ "stdout" \in Streams /\ "stdin" \in Streams
      /\ "stderr" \notin X0 /\ "stdout" \notin X1 /\ "stdin" \notin X2
  BY DEF Streams
<1>1. /\ \A u \in X0 : Number[u] > Number["stderr"]
      /\ \A u \in X1 : Number[u] > Number["stdout"]
      /\ \A u \in X2 : Number[u] > Number["stdin"]
  BY Descriptors
<1>2. InPlace(fds, X0)
  BY CommandReady DEF InPlace
<1> HIDE DEF X0, X1, X2
<1>3. PICK a : Redirect(Fine(fds), "stderr") = Fine(a) /\ InPlace(a, X1)
  BY <1>0, <1>1, <1>2, OneInPlace
<1>4. PICK b : Redirect(Fine(a), "stdout") = Fine(b) /\ InPlace(b, X2)
  BY <1>0, <1>1, <1>3, OneInPlace
<1>5. PICK t : Redirect(Fine(b), "stdin") = Fine(t) /\ InPlace(t, X2 \cup {"stdin"})
  BY <1>0, <1>1, <1>4, OneInPlace
<1>6. child_code(Fine(fds)) = Fine(t)
  BY <1>3, <1>4, <1>5, Zenon DEF child_code
<1> QED BY <1>0, <1>5, <1>6

(* What the parent is left with.                                             *)
LetGo(t, X) ==
  /\ t \in Tables
  /\ \A e \in Fds : t[e] = IF \E s \in X : e \in GivenTo(cmd[s], s) THEN Closed ELSE fds[e]

LEMMA OneLetGo ==
  ASSUME PTypes, TableRight, NEW t, NEW X \in SUBSET Streams, LetGo(t, X),
         NEW s \in Streams, s \notin X
  PROVE  \E v : Release(Fine(t), s) = Fine(v) /\ LetGo(v, X \cup {s})
<1>0. High \subseteq Fds
  BY Descriptors
<1>1. t \in Tables /\ cmd[s] \in Stdios
  BY CommandReady DEF LetGo
<1>2. ASSUME NEW d \in GivenTo(cmd[s], s) PROVE t[d] # Closed
  <2>1. d \in UsedBy(cmd[s]) /\ d \in High /\ fds[d] # Closed
    BY CommandReady
  <2>2. ASSUME NEW u \in X PROVE d \notin GivenTo(cmd[u], u)
    <3>1. d \notin UsedBy(cmd[u])
      BY <2>1 DEF TableRight
    <3> QED BY <3>1, CommandReady
  <2> QED BY <1>0, <2>1, <2>2 DEF LetGo
<1>3. PICK v \in Tables : /\ Release(Fine(t), s) = Fine(v)
                          /\ \A e \in Fds : v[e] = IF e \in GivenTo(cmd[s], s) THEN Closed ELSE t[e]
  BY <1>1, <1>2, ReleaseFine
<1>4. LetGo(v, X \cup {s})
  BY <1>3 DEF LetGo
<1> QED BY <1>3, <1>4

LEMMA ParentTable ==
  ASSUME PTypes, TableRight
  PROVE  \E t : parent_code(Fine(fds)) = Fine(t) /\ LetGo(t, Streams)
<1> DEFINE X0 == {s \in Streams : FALSE}
           X1 == {"stdin"}
           X2 == {"stdin", "stdout"}
<1>0. X0 = {} /\ X1 = X0 \cup {"stdin"} /\ X2 = X1 \cup {"stdout"} /\ Streams = X2 \cup {"stderr"}
      /\ X0 \in SUBSET Streams /\ X1 \in SUBSET Streams /\ X2 \in SUBSET Streams
      /\ "stderr" \in Streams /\ "stdout" \in Streams /\ "stdin" \in Streams
      /\ "stdin" \notin X0 /\ "stdout" \notin X1 /\ "stderr" \notin X2
  BY DEF Streams
<1>2. LetGo(fds, X0)
  BY CommandReady DEF LetGo
<1> HIDE DEF X0, X1, X2
<1>3. PICK a : Release(Fine(fds), "stdin") = Fine(a) /\ LetGo(a, X1)
  BY <1>0, <1>2, OneLetGo
<1>4. PICK b : Release(Fine(a), "stdout") = Fine(b) /\ LetGo(b, X2)
  BY <1>0, <1>3, OneLetGo
<1>5. PICK t : Release(Fine(b), "stderr") = Fine(t) /\ LetGo(t, X2 \cup {"stderr"})
  BY <1>0, <1>4, OneLetGo
<1>6. parent_code(Fine(fds)) = Fine(t)
  BY <1>3, <1>4, <1>5, Zenon DEF parent_code
<1> QED BY <1>0, <1>5, <1>6

-----------------------------------------------------------------------------
LEMMA KidOf ==
  ASSUME PTypes
  PROVE  /\ Len(kids) \in Nat /\ DOMAIN kids = 1..Len(kids)
         /\ \A k \in DOMAIN kids : /\ kids[k] \in Kid /\ kids[k].t \in Tables /\ kids[k].from \in Tables
                                   /\ kids[k].asked \in [Streams -> Stdios]
                                   /\ kids[k].ends \in [Streams -> High \cup {-1}]
                                   /\ kids[k].told = Yes /\ kids[k].status \in Int
<1>1. Len(kids) \in Nat /\ DOMAIN kids = 1..Len(kids) /\ \A k \in DOMAIN kids : kids[k] \in Kid
  BY DEF PTypes
<1>2. \A x \in Kid : /\ x.t \in Tables /\ x.from \in Tables /\ x.asked \in [Streams -> Stdios]
                     /\ x.ends \in [Streams -> High \cup {-1}] /\ x.told = Yes /\ x.status \in Int
  BY DEF Kid
<1> QED BY <1>1, <1>2

LEMMA ProcessStarts == ProcessInit => PInv
<1> SUFFICES ASSUME ProcessInit PROVE PInv
  OBVIOUS
<1> USE DEF ProcessInit
<1>0. /\ sets = 0 /\ kids = << >> /\ DOMAIN kids = {}
      /\ \A s \in Streams : cmd[s] = [kind |-> "Inherit"] /\ UsedBy(cmd[s]) = {}
  BY DEF NewCommand, UsedBy
<1>1. fds \in Tables /\ \A d \in Fds : fds[d] = IF d <= 2 THEN Terminal ELSE Closed
  BY ThingsApart DEF Fds, Tables
<1>2. PTypes
  BY <1>0, <1>1 DEF PTypes, Stdios, NewCommand
<1>3. Numbered
  BY <1>0, <1>1, ThingsApart DEF Numbered
<1>4. TableRight
  <2>1. \A d \in 0..2 : fds[d] = Terminal
    BY <1>1, Descriptors
  <2>2. \A d \in Fds : ~ IsEnd(fds[d])
    BY <1>1, ThingsApart
  <2>3. \A s \in Streams : cmd[s].kind = "Inherit"
    BY <1>0
  <2> QED BY <1>0, <2>1, <2>2, <2>3 DEF TableRight
<1>5. CommandNew /\ KidMade /\ EndsRight /\ Inherited
  BY <1>0 DEF CommandNew, NoChilds, KidMade, EndsRight, Inherited
<1>6. \A i \in 1..MaxAside, s \in Streams : aside[i][s].kind = "Inherit" /\ UsedBy(aside[i][s]) = {}
  BY DEF NewCommand, UsedBy
<1>7. AsideRight
  BY <1>6 DEF AsideRight, NoChilds
<1> QED BY <1>2, <1>3, <1>4, <1>5, <1>7 DEF PInv

(* What the Commands put aside hold is open.                                 *)
LEMMA AsideReady ==
  ASSUME PTypes, AsideRight, NEW i \in 1..MaxAside, NEW s \in Streams, NEW d \in UsedBy(aside[i][s])
  PROVE  d \in High /\ d \in Fds /\ fds[d] # Closed
<1> DEFINE c == aside[i][s]
<1>1. c \in Stdios
  BY DEF PTypes
<1>2. c.kind = "Raw" => fds[c.fd] # Closed
  BY ThingsApart DEF AsideRight
<1>3. c.kind = "Piped" => fds[c.read] # Closed /\ fds[c.write] # Closed
  BY DEF AsideRight, Closed
<1>4. d \in High
  BY <1>1, StdioOf
<1> QED BY <1>2, <1>3, <1>4, Descriptors DEF UsedBy

LEMMA AsideKeeps ==
  ASSUME PTypes, AsideRight, aside' = aside,
         \A i \in 1..MaxAside, s \in Streams : \A d \in UsedBy(aside[i][s]) :
           /\ fds'[d] = fds[d]
           /\ \A u \in Streams : d \notin UsedBy(cmd'[u])
           /\ IsEnd(fds[d]) => \A k \in DOMAIN kids', u \in Streams :
                IsPiped(kids'[k].asked[u]) => TheirsOf(kids'[k], u) # fds[d]
  PROVE  AsideRight'
<1>1. ASSUME NEW i \in 1..MaxAside
      PROVE  NoChilds(aside[i])'
  BY <1>1 DEF NoChilds, IsEnd, IsPiped, TheirsOf, Theirs
<1>2. ASSUME NEW i \in 1..MaxAside, NEW s \in Streams
      PROVE  /\ aside[i][s].kind = "Raw" => fds'[aside[i][s].fd] = File
             /\ aside[i][s].kind = "Piped" => fds'[aside[i][s].read][1] = "r" /\ fds'[aside[i][s].write][1] = "w"
  <2>1. aside[i][s].kind = "Raw" => aside[i][s].fd \in UsedBy(aside[i][s])
    BY DEF UsedBy
  <2>2. aside[i][s].kind = "Piped" =>
          aside[i][s].read \in UsedBy(aside[i][s]) /\ aside[i][s].write \in UsedBy(aside[i][s])
    BY DEF UsedBy
  <2> QED BY <2>1, <2>2 DEF AsideRight
<1>3. \A i \in 1..MaxAside, s, u \in Streams :
        /\ s # u => UsedBy(aside[i][s]) \cap UsedBy(aside[i][u]) = {}
        /\ UsedBy(aside[i][s]) \cap UsedBy(cmd'[u]) = {}
  BY DEF AsideRight
<1>4. \A i, j \in 1..MaxAside, s, u \in Streams :
        i # j => UsedBy(aside[i][s]) \cap UsedBy(aside[j][u]) = {}
  BY DEF AsideRight
<1> QED BY <1>1, <1>2, <1>3, <1>4 DEF AsideRight

LEMMA EndsRightNext ==
  ASSUME \A k \in DOMAIN kids', s \in Streams : IsPiped(kids'[k].asked[s]) =>
           /\ IsEnd(MineOf(kids'[k], s)) /\ IsEnd(TheirsOf(kids'[k], s))
           /\ \A d \in Fds : /\ fds'[d] # MineOf(kids'[k], s) /\ kids'[k].t[d] # TheirsOf(kids'[k], s)
                             /\ fds'[d] = TheirsOf(kids'[k], s) => d = kids'[k].ends[s]
           /\ \A i \in DOMAIN kids', d \in Fds : i > k => kids'[i].t[d] # MineOf(kids'[k], s),
         \A k \in DOMAIN kids', s \in Streams : kids'[k].ends[s] # -1 =>
           IsPiped(kids'[k].asked[s]) /\ fds'[kids'[k].ends[s]] = TheirsOf(kids'[k], s),
         \A j, k \in DOMAIN kids', s, u \in Streams :
           IsPiped(kids'[j].asked[s]) /\ IsPiped(kids'[k].asked[u])
             /\ TheirsOf(kids'[j], s) = TheirsOf(kids'[k], u) => j = k /\ s = u
  PROVE  EndsRight'
BY DEF EndsRight

(* A step that gives the Command a stream of its own.                        *)
LEMMA CommandGiven ==
  ASSUME PInv, NEW s \in Streams, NEW c \in Stdios, cmd' = [cmd EXCEPT ![s] = c], sets' = sets + 1,
         kids' = kids, aside' = aside, fds' \in Tables,
         \A d \in Fds : d \notin UsedBy(c) => fds'[d] = fds[d],
         \A d \in UsedBy(c) : /\ fds[d] = Closed /\ fds'[d][2] <= sets + 1
                              /\ IsEnd(fds'[d]) => fds'[d][2] = sets + 1,
         \A d, e \in UsedBy(c) : fds'[d] = fds'[e] /\ IsEnd(fds'[d]) => d = e,
         c.kind = "Raw" => fds'[c.fd] = File,
         c.kind = "Piped" => fds'[c.read][1] = "r" /\ fds'[c.write][1] = "w"
  PROVE  PInv'
<1>0. /\ PTypes /\ Numbered /\ TableRight /\ CommandNew /\ AsideRight /\ Inherited /\ KidMade /\ EndsRight
      /\ sets \in Nat /\ fds \in Tables /\ cmd \in [Streams -> Stdios] /\ kids \in Seq(Kid)
      /\ UsedBy(c) \subseteq High /\ High \subseteq Fds /\ 0..2 \subseteq Fds
  BY StdioOf, Descriptors DEF PInv, PTypes
<1>1. \A u \in Streams : cmd'[u] = IF u = s THEN c ELSE cmd[u]
  BY <1>0
<1>2. PTypes'
  BY <1>0 DEF PTypes
<1>3. \A d \in Fds : fds'[d] \in Thing /\ fds[d] \in Thing
  BY <1>0 DEF Tables
<1>4. Numbered'
  <2>1. \A d \in Fds : fds'[d][2] <= sets + 1
    <3> TAKE d \in Fds
    <3>1. CASE d \in UsedBy(c)
      BY <3>1
    <3>2. CASE d \notin UsedBy(c)
      <4>1. fds'[d] = fds[d] /\ fds[d][2] <= sets /\ fds[d][2] \in Nat
        BY <1>0, <1>3, <3>2 DEF Numbered, Thing
      <4> QED BY <1>0, <4>1
    <3> QED BY <3>1, <3>2
  <2>2. \A k \in DOMAIN kids, d \in Fds : kids[k].t[d][2] <= sets + 1 /\ kids[k].from[d][2] <= sets + 1
    <3> TAKE k \in DOMAIN kids, d \in Fds
    <3>1. kids[k].t[d] \in Thing /\ kids[k].from[d] \in Thing
      BY <1>0, KidOf DEF Tables
    <3>2. kids[k].t[d][2] \in Nat /\ kids[k].from[d][2] \in Nat
      BY <3>1 DEF Thing
    <3>3. kids[k].t[d][2] <= sets /\ kids[k].from[d][2] <= sets
      BY <1>0 DEF Numbered
    <3> QED BY <1>0, <3>2, <3>3
  <2> QED BY <2>1, <2>2 DEF Numbered
<1>5. \A u \in Streams : u # s => \A d \in UsedBy(cmd[u]) : d \in High /\ d \notin UsedBy(c) /\ fds'[d] = fds[d]
  <2> TAKE u \in Streams
  <2> HAVE u # s
  <2> TAKE d \in UsedBy(cmd[u])
  <2>1. d \in High /\ fds[d] # Closed
    BY <1>0, CommandReady
  <2>2. d \notin UsedBy(c)
    BY <2>1
  <2> QED BY <1>0, <2>1, <2>2
<1>6. \A d \in Fds : IsEnd(fds'[d]) => fds'[d] = fds[d] \/ (d \in UsedBy(c) /\ fds'[d][2] = sets + 1)
  OBVIOUS
<1>7. TableRight'
  <2>1. ASSUME NEW d \in 0..2 PROVE fds'[d] = Terminal
    <3>1. d \notin UsedBy(c) /\ d \in Fds
      BY <1>0, Descriptors
    <3> QED BY <1>0, <3>1 DEF TableRight
  <2>2. ASSUME NEW u \in Streams
        PROVE  /\ cmd'[u].kind = "Raw" => fds'[cmd'[u].fd] = File
               /\ cmd'[u].kind = "Piped" => fds'[cmd'[u].read][1] = "r" /\ fds'[cmd'[u].write][1] = "w"
    <3>1. CASE u = s
      BY <1>1, <3>1
    <3>2. CASE u # s
      <4>1. cmd'[u] = cmd[u] /\ \A d \in UsedBy(cmd[u]) : fds'[d] = fds[d]
        BY <1>1, <1>5, <3>2
      <4>2. cmd[u].kind = "Raw" => cmd[u].fd \in UsedBy(cmd[u])
        BY DEF UsedBy
      <4>3. cmd[u].kind = "Piped" => cmd[u].read \in UsedBy(cmd[u]) /\ cmd[u].write \in UsedBy(cmd[u])
        BY DEF UsedBy
      <4> QED BY <1>0, <4>1, <4>2, <4>3 DEF TableRight
    <3> QED BY <3>1, <3>2
  <2>3. ASSUME NEW u \in Streams, NEW v \in Streams, u # v
        PROVE  UsedBy(cmd'[u]) \cap UsedBy(cmd'[v]) = {}
    <3>1. CASE u # s /\ v # s
      BY <1>0, <1>1, <2>3, <3>1 DEF TableRight
    <3>2. CASE u = s
      BY <1>1, <1>5, <2>3, <3>2
    <3>3. CASE v = s
      BY <1>1, <1>5, <2>3, <3>3
    <3> QED BY <3>1, <3>2, <3>3
  <2>4. ASSUME NEW d \in Fds, NEW e \in Fds, fds'[d] = fds'[e], IsEnd(fds'[d]) PROVE d = e
    <3>1. \A x \in Fds : x \notin UsedBy(c) => fds'[x] = fds[x] /\ fds[x][2] <= sets /\ fds[x][2] \in Nat
      BY <1>0, <1>3 DEF Numbered, Thing
    <3>2. CASE d \in UsedBy(c) /\ e \in UsedBy(c)
      BY <2>4, <3>2
    <3>3. CASE d \notin UsedBy(c) /\ e \notin UsedBy(c)
      BY <1>0, <2>4, <3>1, <3>3 DEF TableRight
    <3>4. CASE (d \in UsedBy(c)) # (e \in UsedBy(c))
      BY <1>0, <2>4, <3>1, <3>4
    <3> QED BY <3>2, <3>3, <3>4
  <2> QED BY <2>1, <2>2, <2>3, <2>4 DEF TableRight, IsEnd
<1>8. CommandNew'
  <2> SUFFICES ASSUME NEW u \in Streams, NEW d \in UsedBy(cmd'[u]), IsEnd(fds'[d])
               PROVE  \A k \in DOMAIN kids, w \in Streams :
                        IsPiped(kids[k].asked[w]) => TheirsOf(kids[k], w) # fds'[d]
    BY DEF CommandNew, NoChilds, IsEnd, TheirsOf, Theirs, IsPiped
  <2>1. CASE u # s
    <3>1. d \in UsedBy(cmd[u]) /\ fds'[d] = fds[d]
      BY <1>1, <1>5, <2>1
    <3> QED BY <1>0, <3>1 DEF CommandNew, NoChilds
  <2>2. CASE u = s
    <3>1. fds'[d][2] = sets + 1
      BY <1>1, <2>2
    <3>2. ASSUME NEW k \in DOMAIN kids, NEW e \in Fds PROVE kids[k].t[e] # fds'[d] /\ kids[k].from[e] # fds'[d]
      <4>1. kids[k].t[e] \in Thing /\ kids[k].from[e] \in Thing
        BY <1>0, KidOf DEF Tables
      <4>2. kids[k].t[e][2] \in Nat /\ kids[k].from[e][2] \in Nat
        BY <4>1 DEF Thing
      <4>3. kids[k].t[e][2] <= sets /\ kids[k].from[e][2] <= sets
        BY <1>0 DEF Numbered
      <4> QED BY <1>0, <3>1, <4>2, <4>3
    <3>3. ASSUME NEW k \in DOMAIN kids, NEW w \in Streams, IsPiped(kids[k].asked[w])
          PROVE  Theirs(kids[k].asked[w], w) \in Fds
      <4>1. kids[k].asked[w] \in Stdios
        BY <1>0, KidOf
      <4> QED BY <1>0, <3>3, <4>1, EndsOf DEF IsPiped
    <3> QED BY <3>2, <3>3 DEF TheirsOf
  <2> QED BY <2>1, <2>2
<1>9. KidMade'
  BY <1>0 DEF KidMade, IsPiped, MineOf, Mine, Wanted
<1>10. EndsRight'
  <2>1. ASSUME NEW k \in DOMAIN kids, NEW w \in Streams, IsPiped(kids[k].asked[w])
        PROVE  /\ \A d \in Fds : /\ fds'[d] # MineOf(kids[k], w)
                                 /\ fds'[d] = TheirsOf(kids[k], w) => d = kids[k].ends[w]
               /\ \A d \in UsedBy(c) : fds'[d] # TheirsOf(kids[k], w)
    <3>1. kids[k].asked[w] \in Stdios /\ kids[k].from \in Tables
      BY <1>0, KidOf
    <3>2. Theirs(kids[k].asked[w], w) \in Fds /\ Mine(kids[k].asked[w], w) \in Fds
      BY <1>0, <2>1, <3>1, EndsOf DEF IsPiped
    <3>3. /\ MineOf(kids[k], w) \in Thing /\ TheirsOf(kids[k], w) \in Thing
          /\ MineOf(kids[k], w)[2] <= sets /\ TheirsOf(kids[k], w)[2] <= sets
      BY <1>0, <3>1, <3>2 DEF MineOf, TheirsOf, Tables, Numbered
    <3>4. MineOf(kids[k], w)[2] \in Nat /\ TheirsOf(kids[k], w)[2] \in Nat
      BY <3>3 DEF Thing
    <3>5. IsEnd(MineOf(kids[k], w)) /\ IsEnd(TheirsOf(kids[k], w))
      BY <1>0, <2>1 DEF EndsRight
    <3>6. \A d \in UsedBy(c) : fds'[d] # TheirsOf(kids[k], w) /\ fds'[d] # MineOf(kids[k], w)
      BY <1>0, <3>3, <3>4, <3>5
    <3>7. \A d \in Fds : fds[d] # MineOf(kids[k], w) /\ (fds[d] = TheirsOf(kids[k], w) => d = kids[k].ends[w])
      BY <1>0, <2>1 DEF EndsRight
    <3> QED BY <3>6, <3>7
  <2>2. ASSUME NEW k \in DOMAIN kids, NEW w \in Streams, kids[k].ends[w] # -1
        PROVE  fds'[kids[k].ends[w]] = TheirsOf(kids[k], w)
    <3>1. IsPiped(kids[k].asked[w]) /\ fds[kids[k].ends[w]] = TheirsOf(kids[k], w)
      BY <1>0, <2>2 DEF EndsRight
    <3>2. IsEnd(TheirsOf(kids[k], w))
      BY <1>0, <3>1 DEF EndsRight
    <3>3. kids[k].ends[w] \in Fds
      BY <1>0, <2>2, KidOf
    <3>4. kids[k].ends[w] \notin UsedBy(c)
      BY <3>1, <3>2, ThingsApart
    <3> QED BY <3>1, <3>3, <3>4
  <2>3. \A k \in DOMAIN kids, w \in Streams : IsPiped(kids[k].asked[w]) =>
          /\ IsEnd(MineOf(kids[k], w)) /\ IsEnd(TheirsOf(kids[k], w))
          /\ \A d \in Fds : /\ fds'[d] # MineOf(kids[k], w) /\ kids[k].t[d] # TheirsOf(kids[k], w)
                            /\ fds'[d] = TheirsOf(kids[k], w) => d = kids[k].ends[w]
          /\ \A i \in DOMAIN kids, d \in Fds : i > k => kids[i].t[d] # MineOf(kids[k], w)
    BY <1>0, <2>1 DEF EndsRight
  <2>4. \A k \in DOMAIN kids, w \in Streams : kids[k].ends[w] # -1 =>
          IsPiped(kids[k].asked[w]) /\ fds'[kids[k].ends[w]] = TheirsOf(kids[k], w)
    BY <1>0, <2>2 DEF EndsRight
  <2>5. \A j, k \in DOMAIN kids, v, u \in Streams :
          IsPiped(kids[j].asked[v]) /\ IsPiped(kids[k].asked[u])
            /\ TheirsOf(kids[j], v) = TheirsOf(kids[k], u) => j = k /\ v = u
    BY <1>0 DEF EndsRight
  <2>6. kids' = kids
    BY <1>0
  <2> QED BY <2>3, <2>4, <2>5, <2>6, EndsRightNext
<1>11. Inherited'
  BY <1>0 DEF Inherited, IsEnd
<1>12. AsideRight'
  <2> SUFFICES ASSUME NEW i \in 1..MaxAside, NEW v \in Streams, NEW d \in UsedBy(aside[i][v])
               PROVE  /\ fds'[d] = fds[d]
                      /\ \A u \in Streams : d \notin UsedBy(cmd'[u])
                      /\ IsEnd(fds[d]) => \A k \in DOMAIN kids', u \in Streams :
                           IsPiped(kids'[k].asked[u]) => TheirsOf(kids'[k], u) # fds[d]
    BY <1>0, AsideKeeps, Zenon
  <2>1. d \in Fds /\ fds[d] # Closed
    BY <1>0, AsideReady
  <2>2. d \notin UsedBy(c)
    BY <2>1
  <2>3. \A u \in Streams : d \notin UsedBy(cmd[u])
    BY <1>0 DEF AsideRight
  <2>4. \A u \in Streams : d \notin UsedBy(cmd'[u])
    BY <1>1, <2>2, <2>3
  <2>5. IsEnd(fds[d]) => \A k \in DOMAIN kids, u \in Streams :
          IsPiped(kids[k].asked[u]) => TheirsOf(kids[k], u) # fds[d]
    BY <1>0 DEF AsideRight, NoChilds
  <2> QED BY <2>1, <2>2, <2>4, <2>5
<1> QED BY <1>2, <1>4, <1>7, <1>8, <1>9, <1>10, <1>11, <1>12 DEF PInv

LEMMA PipedKeeps ==
  ASSUME PInv, NEW s \in Streams, piped(s)
  PROVE  PInv'
<1> DEFINE r == next_fd(fds)
           t == [fds EXCEPT ![r] = End("r", sets + 1)]
           w == next_fd(t)
           c == [kind |-> "Piped", read |-> r, write |-> w]
<1>0. /\ PTypes /\ TableRight /\ fds \in Tables /\ sets \in Nat
      /\ Cardinality(Free(fds)) >= 2 /\ cmd' = [cmd EXCEPT ![s] = c] /\ sets' = sets + 1
      /\ fds' = [t EXCEPT ![w] = End("w", sets + 1)] /\ kids' = kids /\ aside' = aside
  BY DEF PInv, PTypes, piped, Given
<1>1. Free(fds) = {d \in Fds : fds[d] = Closed}
  BY <1>0 DEF Free, Tables
<1>2. IsFiniteSet(Free(fds))
  <2>1. IsFiniteSet(0..(MaxFd - 1))
    BY ProcessAssumption, FS_Interval
  <2>2. Free(fds) \in SUBSET (0..(MaxFd - 1))
    BY <1>1 DEF Fds
  <2> QED BY <2>1, <2>2, FS_Subset
<1>3. Free(fds) # {}
  BY <1>0, FS_EmptySet
<1>4. r \in Fds /\ fds[r] = Closed
  BY <1>0, <1>3, FreeNumber
<1>5. PICK x \in Free(fds) : x # r
  <2> HIDE DEF r
  <2>1. Cardinality({r}) = 1
    BY FS_Singleton
  <2>2. Free(fds) # {r}
    BY <1>0, <2>1
  <2> QED BY <1>3, <2>2
<1> DEFINE er == End("r", sets + 1)
           ew == End("w", sets + 1)
<1>6. /\ er \in Thing /\ ew \in Thing /\ IsEnd(er) /\ IsEnd(ew) /\ er[1] = "r" /\ ew[1] = "w"
      /\ er[2] = sets + 1 /\ ew[2] = sets + 1 /\ ~ IsEnd(Closed)
  <2>1. sets + 1 \in Nat
    BY <1>0
  <2> QED BY <2>1, ThingsApart
<1> HIDE DEF r, er, ew
<1>7. t \in Tables /\ \A e \in Fds : t[e] = IF e = r THEN er ELSE fds[e]
  <2>1. t = Put(fds, r, er)
    BY DEF Put, er
  <2>2. Put(fds, r, er) \in Tables /\ \A e \in Fds : Put(fds, r, er)[e] = IF e = r THEN er ELSE fds[e]
    BY <1>0, <1>4, <1>6, PutIs
  <2> HIDE DEF t
  <2> QED BY <2>1, <2>2
<1> HIDE DEF t
<1>8. Free(t) # {}
  <2>1. x \in Fds /\ t[x] = Closed
    BY <1>1, <1>5, <1>7
  <2> QED BY <1>7, <2>1 DEF Free, Tables
<1>9. w \in Fds /\ t[w] = Closed
  BY <1>7, <1>8, FreeNumber
<1> HIDE DEF w
<1>10. w # r /\ fds[w] = Closed
  <2>1. er # Closed
    BY <1>6
  <2> QED BY <1>4, <1>7, <1>9, <2>1
<1>11. fds' \in Tables /\ \A e \in Fds : fds'[e] = IF e = w THEN ew ELSE IF e = r THEN er ELSE fds[e]
  <2>1. fds' = Put(t, w, ew)
    BY <1>0 DEF Put, ew
  <2>2. Put(t, w, ew) \in Tables /\ \A e \in Fds : Put(t, w, ew)[e] = IF e = w THEN ew ELSE t[e]
    BY <1>6, <1>7, <1>9, PutIs
  <2> QED BY <1>7, <2>1, <2>2
<1>12. r \in High /\ w \in High
  <2>1. \A d \in 0..2 : fds[d] # Closed
    BY <1>0, ThingsApart DEF TableRight
  <2>2. r \notin 0..2 /\ w \notin 0..2
    BY <1>4, <1>10, <2>1
  <2> QED BY <1>4, <1>9, <2>2, ProcessAssumption DEF Fds, High
<1>13. c \in Stdios /\ c.kind = "Piped" /\ c.read = r /\ c.write = w /\ UsedBy(c) = {r, w}
  BY <1>12 DEF Stdios, UsedBy
<1>14. \A d \in Fds : d \notin {r, w} => fds'[d] = fds[d]
  BY <1>11
<1>15. fds'[r] = er /\ fds'[w] = ew
  BY <1>4, <1>9, <1>10, <1>11
<1>16. \A d \in {r, w} : /\ fds[d] = Closed /\ fds'[d][2] <= sets + 1
                         /\ IsEnd(fds'[d]) => fds'[d][2] = sets + 1
  BY <1>0, <1>4, <1>6, <1>10, <1>15
<1>17. \A d, e \in {r, w} : fds'[d] = fds'[e] /\ IsEnd(fds'[d]) => d = e
  BY <1>6, <1>15
<1> HIDE DEF c
<1> QED BY <1>0, <1>6, <1>11, <1>13, <1>14, <1>15, <1>16, <1>17, CommandGiven

LEMMA RawKeeps ==
  ASSUME PInv, NEW s \in Streams, from_raw_fd(s)
  PROVE  PInv'
<1> DEFINE r == next_fd(fds)
           c == [kind |-> "Raw", fd |-> r]
<1>0. /\ PTypes /\ TableRight /\ fds \in Tables /\ sets \in Nat
      /\ Free(fds) # {} /\ cmd' = [cmd EXCEPT ![s] = c] /\ sets' = sets + 1
      /\ fds' = [fds EXCEPT ![r] = File] /\ kids' = kids /\ aside' = aside
  BY DEF PInv, PTypes, from_raw_fd, Given
<1>1. r \in Fds /\ fds[r] = Closed
  BY <1>0, FreeNumber
<1> HIDE DEF r
<1>2. fds' \in Tables /\ \A e \in Fds : fds'[e] = IF e = r THEN File ELSE fds[e]
  <2>1. fds' = Put(fds, r, File)
    BY <1>0 DEF Put
  <2>2. Put(fds, r, File) \in Tables
        /\ \A e \in Fds : Put(fds, r, File)[e] = IF e = r THEN File ELSE fds[e]
    <3>1. fds \in Tables /\ File \in Thing
      BY <1>0, ThingsApart
    <3> QED BY <1>1, <3>1, PutIs
  <2> QED BY <2>1, <2>2
<1>3. r \in High
  <2>1. \A d \in 0..2 : fds[d] # Closed
    BY <1>0, ThingsApart DEF TableRight
  <2>2. r \notin 0..2
    BY <1>1, <2>1
  <2> QED BY <1>1, <2>2, ProcessAssumption DEF Fds, High
<1>4. c \in Stdios /\ c.kind = "Raw" /\ c.fd = r /\ UsedBy(c) = {r}
  BY <1>3 DEF Stdios, UsedBy
<1>5. \A d \in {r} : /\ fds[d] = Closed /\ fds'[d][2] <= sets + 1
                     /\ IsEnd(fds'[d]) => fds'[d][2] = sets + 1
  <2>1. fds'[r] = File /\ File[2] = 0 /\ ~ IsEnd(File)
    BY <1>1, <1>2, ThingsApart
  <2> QED BY <1>0, <1>1, <2>1
<1>6. \A d \in Fds : d \notin UsedBy(c) => fds'[d] = fds[d]
  BY <1>2, <1>4
<1>7. fds'[c.fd] = File
  BY <1>1, <1>2, <1>4
<1>8. \A d, e \in UsedBy(c) : d = e
  BY <1>4
<1> HIDE DEF c
<1> QED BY <1>0, <1>2, <1>4, <1>5, <1>6, <1>7, <1>8, CommandGiven

LEMMA NullKeeps ==
  ASSUME PInv, NEW s \in Streams, null(s)
  PROVE  PInv'
<1> DEFINE c == [kind |-> "Null"]
<1>0. /\ fds \in Tables /\ sets \in Nat /\ cmd' = [cmd EXCEPT ![s] = c] /\ sets' = sets + 1
      /\ fds' = fds /\ kids' = kids /\ aside' = aside
  BY DEF PInv, PTypes, null, Given
<1>1. c \in Stdios /\ c.kind = "Null" /\ UsedBy(c) = {}
  BY DEF Stdios, UsedBy
<1> HIDE DEF c
<1> QED BY <1>0, <1>1, CommandGiven

-----------------------------------------------------------------------------
(* Steps that change one child.                                              *)
LEMMA OneKid ==
  ASSUME PTypes, NEW k \in DOMAIN kids, NEW x \in Kid, kids' = [kids EXCEPT ![k] = x],
         x.asked = kids[k].asked, x.from = kids[k].from
  PROVE  /\ kids' \in Seq(Kid) /\ DOMAIN kids' = DOMAIN kids
         /\ \A j \in DOMAIN kids : kids'[j] = IF j = k THEN x ELSE kids[j]
         /\ \A j \in DOMAIN kids : kids'[j].asked = kids[j].asked /\ kids'[j].from = kids[j].from
         /\ \A j \in DOMAIN kids, s \in Streams : /\ MineOf(kids'[j], s) = MineOf(kids[j], s)
                                                  /\ TheirsOf(kids'[j], s) = TheirsOf(kids[j], s)
                                                  /\ Wanted(kids'[j], s) = Wanted(kids[j], s)
<1>1. kids \in Seq(Kid)
  BY DEF PTypes
<1>2. /\ kids' \in Seq(Kid) /\ DOMAIN kids' = DOMAIN kids
      /\ \A j \in DOMAIN kids : kids'[j] = IF j = k THEN x ELSE kids[j]
  BY <1>1
<1>3. \A j \in DOMAIN kids : kids'[j].asked = kids[j].asked /\ kids'[j].from = kids[j].from
  BY <1>2
<1> QED BY <1>2, <1>3 DEF MineOf, TheirsOf, Wanted

(* The child ends, or has been waited for: the parent's table stays.         *)
LEMMA KidKeeps ==
  ASSUME PInv, NEW k \in DOMAIN kids, NEW x \in Kid, kids' = [kids EXCEPT ![k] = x],
         fds' = fds, cmd' = cmd, aside' = aside, sets' = sets,
         x.asked = kids[k].asked, x.from = kids[k].from, x.ends = kids[k].ends,
         \A d \in Fds : x.t[d] = kids[k].t[d] \/ x.t[d] = Closed,
         x.status = -1 => kids[k].status = -1 /\ x.t = kids[k].t
  PROVE  PInv'
<1>0. /\ PTypes /\ Numbered /\ TableRight /\ CommandNew /\ AsideRight /\ Inherited /\ KidMade /\ EndsRight
      /\ sets \in Nat /\ fds \in Tables
  BY DEF PInv, PTypes
<1>1. /\ kids' \in Seq(Kid) /\ DOMAIN kids' = DOMAIN kids
      /\ \A j \in DOMAIN kids : kids'[j] = IF j = k THEN x ELSE kids[j]
      /\ \A j \in DOMAIN kids : kids'[j].asked = kids[j].asked /\ kids'[j].from = kids[j].from
      /\ \A j \in DOMAIN kids, s \in Streams : /\ MineOf(kids'[j], s) = MineOf(kids[j], s)
                                               /\ TheirsOf(kids'[j], s) = TheirsOf(kids[j], s)
                                               /\ Wanted(kids'[j], s) = Wanted(kids[j], s)
  BY <1>0, OneKid
<1>2. /\ \A j \in DOMAIN kids : kids'[j].ends = kids[j].ends
      /\ \A j \in DOMAIN kids, d \in Fds : kids'[j].t[d] = kids[j].t[d] \/ kids'[j].t[d] = Closed
      /\ \A j \in DOMAIN kids : kids'[j].status = -1 => kids[j].status = -1 /\ kids'[j].t = kids[j].t
  BY <1>1
<1>3. /\ PTypes' /\ TableRight'
  BY <1>0, <1>1 DEF PTypes, TableRight, IsEnd
<1>4. Numbered'
  <2>1. ASSUME NEW j \in DOMAIN kids, NEW d \in Fds PROVE kids'[j].t[d][2] <= sets
    BY <1>0, <1>2, ThingsApart DEF Numbered
  <2> QED BY <1>0, <1>1, <2>1 DEF Numbered
<1>5. CommandNew'
  <2> SUFFICES ASSUME NEW u \in Streams, NEW d \in UsedBy(cmd[u]), IsEnd(fds[d])
               PROVE  \A j \in DOMAIN kids, w \in Streams :
                        IsPiped(kids[j].asked[w]) => TheirsOf(kids'[j], w) # fds[d]
    BY <1>1 DEF CommandNew, NoChilds, IsEnd, IsPiped
  <2>1. \A j \in DOMAIN kids, w \in Streams : IsPiped(kids[j].asked[w]) => TheirsOf(kids[j], w) # fds[d]
    BY <1>0 DEF CommandNew, NoChilds
  <2> QED BY <1>1, <2>1
<1>6. KidMade'
  <2> SUFFICES ASSUME NEW j \in DOMAIN kids, kids'[j].status = -1, NEW s \in Streams
               PROVE  /\ kids'[j].t[Number[s]] = Wanted(kids'[j], s)
                      /\ IsPiped(kids[j].asked[s]) =>
                           \A d \in Fds : kids'[j].t[d] = MineOf(kids'[j], s) => d = Number[s]
    BY <1>1 DEF KidMade, IsPiped
  <2>1. kids[j].status = -1 /\ kids'[j].t = kids[j].t
    BY <1>2
  <2>2. /\ kids[j].t[Number[s]] = Wanted(kids[j], s)
        /\ IsPiped(kids[j].asked[s]) => \A d \in Fds : kids[j].t[d] = MineOf(kids[j], s) => d = Number[s]
    BY <1>0, <2>1 DEF KidMade
  <2> QED BY <1>1, <2>1, <2>2
<1>7. EndsRight'
  <2>1. ASSUME NEW j \in DOMAIN kids, NEW s \in Streams, IsPiped(kids[j].asked[s])
        PROVE  /\ IsEnd(MineOf(kids'[j], s)) /\ IsEnd(TheirsOf(kids'[j], s))
               /\ \A d \in Fds : /\ fds[d] # MineOf(kids'[j], s) /\ kids'[j].t[d] # TheirsOf(kids'[j], s)
                                 /\ fds[d] = TheirsOf(kids'[j], s) => d = kids'[j].ends[s]
               /\ \A i \in DOMAIN kids, d \in Fds : i > j => kids'[i].t[d] # MineOf(kids'[j], s)
    <3>1. /\ IsEnd(MineOf(kids[j], s)) /\ IsEnd(TheirsOf(kids[j], s))
          /\ \A d \in Fds : /\ fds[d] # MineOf(kids[j], s) /\ kids[j].t[d] # TheirsOf(kids[j], s)
                            /\ fds[d] = TheirsOf(kids[j], s) => d = kids[j].ends[s]
          /\ \A i \in DOMAIN kids, d \in Fds : i > j => kids[i].t[d] # MineOf(kids[j], s)
      BY <1>0, <2>1 DEF EndsRight
    <3>2. MineOf(kids[j], s) # Closed /\ TheirsOf(kids[j], s) # Closed
      BY <3>1, ThingsApart
    <3> QED BY <1>1, <1>2, <3>1, <3>2
  <2>2. ASSUME NEW j \in DOMAIN kids, NEW s \in Streams, kids'[j].ends[s] # -1
        PROVE  IsPiped(kids[j].asked[s]) /\ fds[kids'[j].ends[s]] = TheirsOf(kids'[j], s)
    BY <1>0, <1>1, <1>2, <2>2 DEF EndsRight
  <2>3. ASSUME NEW i \in DOMAIN kids, NEW j \in DOMAIN kids, NEW s \in Streams, NEW u \in Streams,
               IsPiped(kids[i].asked[s]), IsPiped(kids[j].asked[u]),
               TheirsOf(kids'[i], s) = TheirsOf(kids'[j], u)
        PROVE  i = j /\ s = u
    BY <1>0, <1>1, <2>3 DEF EndsRight
  <2> QED BY <1>1, <2>1, <2>2, <2>3 DEF EndsRight, IsEnd, IsPiped
<1>8. AsideRight'
  <2>1. \A i \in 1..MaxAside, s \in Streams : \A d \in UsedBy(aside[i][s]) :
           /\ \A u \in Streams : d \notin UsedBy(cmd[u])
           /\ IsEnd(fds[d]) => \A j \in DOMAIN kids, u \in Streams :
                IsPiped(kids[j].asked[u]) => TheirsOf(kids[j], u) # fds[d]
    BY <1>0 DEF AsideRight, NoChilds
  <2>2. \A j \in DOMAIN kids', u \in Streams :
          TheirsOf(kids'[j], u) = TheirsOf(kids[j], u) /\ kids'[j].asked = kids[j].asked /\ j \in DOMAIN kids
    BY <1>1
  <2>3. \A i \in 1..MaxAside, s \in Streams : \A d \in UsedBy(aside[i][s]) :
           /\ fds'[d] = fds[d]
           /\ \A u \in Streams : d \notin UsedBy(cmd'[u])
           /\ IsEnd(fds[d]) => \A j \in DOMAIN kids', u \in Streams :
                IsPiped(kids'[j].asked[u]) => TheirsOf(kids'[j], u) # fds[d]
    BY <2>1, <2>2
  <2> QED BY <1>0, <2>3, AsideKeeps, Zenon
<1>9. Inherited'
  <2> SUFFICES ASSUME NEW j \in DOMAIN kids, NEW d \in Fds, IsEnd(kids'[j].t[d])
               PROVE  \E e \in Fds : kids[j].from[e] = kids'[j].t[d]
    BY <1>1 DEF Inherited, IsEnd
  <2>1. kids'[j].t[d] = kids[j].t[d]
    BY <1>2, ThingsApart
  <2> QED BY <1>0, <2>1 DEF Inherited
<1> QED BY <1>3, <1>4, <1>5, <1>6, <1>7, <1>8, <1>9 DEF PInv

LEMMA ExitKeeps ==
  ASSUME PInv, NEW k \in DOMAIN kids, NEW code \in Codes, exit(k, code)
  PROVE  PInv'
<1> DEFINE dead == [d \in DOMAIN fds |-> Closed]
           x == [[kids[k] EXCEPT !.status = code] EXCEPT !.t = dead]
<1>0. /\ PTypes /\ Numbered /\ TableRight /\ CommandNew /\ AsideRight /\ Inherited /\ KidMade /\ EndsRight
      /\ sets \in Nat /\ fds \in Tables /\ kids[k] \in Kid /\ code \in Nat
  BY KidOf, ProcessAssumption DEF PInv, PTypes
<1>1. kids' = [kids EXCEPT ![k] = x] /\ fds' = fds /\ cmd' = cmd /\ aside' = aside /\ sets' = sets
  BY DEF exit
<1>2. dead \in Tables /\ \A d \in Fds : dead[d] = Closed
  BY <1>0, ThingsApart DEF Tables
<1> HIDE DEF dead
<1>3. /\ x \in Kid /\ x.t = dead /\ x.asked = kids[k].asked /\ x.from = kids[k].from
      /\ x.ends = kids[k].ends /\ x.status = code
  <2> DEFINE y == [kids[k] EXCEPT !.status = code]
  <2>1. /\ y \in Kid /\ y.asked = kids[k].asked /\ y.from = kids[k].from
        /\ y.ends = kids[k].ends /\ y.status = code
    BY <1>0 DEF Kid
  <2> HIDE DEF y
  <2> DEFINE z == [y EXCEPT !.t = dead]
  <2>2. /\ z \in Kid /\ z.t = dead /\ z.asked = y.asked /\ z.from = y.from
        /\ z.ends = y.ends /\ z.status = y.status
    BY <1>2, <2>1 DEF Kid
  <2>3. x = z
    BY DEF y
  <2> HIDE DEF x, z
  <2> QED BY <2>1, <2>2, <2>3
<1>4. \A d \in Fds : x.t[d] = Closed
  BY <1>2, <1>3
<1>5. x.status # -1
  BY <1>0, <1>3
<1> HIDE DEF x
<1> QED BY <1>1, <1>3, <1>4, <1>5, KidKeeps

LEMMA WaitKeeps ==
  ASSUME PInv, NEW k \in DOMAIN kids, wait(k)
  PROVE  PInv'
<1> DEFINE x == [kids[k] EXCEPT !.got = kids[k].status]
<1>0. PTypes /\ kids[k] \in Kid
  BY KidOf DEF PInv
<1>1. kids' = [kids EXCEPT ![k] = x] /\ fds' = fds /\ cmd' = cmd /\ aside' = aside /\ sets' = sets
  BY DEF wait
<1>2. /\ x \in Kid /\ x.t = kids[k].t /\ x.asked = kids[k].asked /\ x.from = kids[k].from
      /\ x.ends = kids[k].ends /\ x.status = kids[k].status
  BY <1>0 DEF Kid
<1> HIDE DEF x
<1> QED BY <1>1, <1>2, KidKeeps

LEMMA DropKeeps ==
  ASSUME PInv, NEW k \in DOMAIN kids, NEW s \in Streams, DropEnd(k, s)
  PROVE  PInv'
<1> DEFINE n == kids[k].ends[s]
           less == [kids[k].ends EXCEPT ![s] = -1]
           x == [kids[k] EXCEPT !.ends = less]
<1>0. /\ PTypes /\ Numbered /\ TableRight /\ CommandNew /\ AsideRight /\ Inherited /\ KidMade /\ EndsRight
      /\ sets \in Nat /\ fds \in Tables /\ kids[k] \in Kid /\ kids[k].ends \in [Streams -> High \cup {-1}]
      /\ High \subseteq Fds
  BY KidOf, Descriptors DEF PInv, PTypes
<1>1. /\ kids' = [kids EXCEPT ![k] = x] /\ fds' = [fds EXCEPT ![n] = Closed] /\ cmd' = cmd /\ sets' = sets
      /\ n # -1 /\ aside' = aside
  BY DEF DropEnd
<1>2. n \in High /\ n \in Fds
  BY <1>0, <1>1
<1>3. /\ less \in [Streams -> High \cup {-1}] /\ less[s] = -1
      /\ \A u \in Streams : u # s => less[u] = kids[k].ends[u]
  BY <1>0
<1>4. IsPiped(kids[k].asked[s]) /\ fds[n] = TheirsOf(kids[k], s) /\ IsEnd(fds[n])
  BY <1>0, <1>1 DEF EndsRight
<1> HIDE DEF less, n
<1>5. /\ x \in Kid /\ x.t = kids[k].t /\ x.asked = kids[k].asked /\ x.from = kids[k].from
      /\ x.ends = less /\ x.status = kids[k].status
  BY <1>0, <1>3 DEF Kid
<1> HIDE DEF x
<1>6. /\ kids' \in Seq(Kid) /\ DOMAIN kids' = DOMAIN kids
      /\ \A j \in DOMAIN kids : kids'[j] = IF j = k THEN x ELSE kids[j]
      /\ \A j \in DOMAIN kids : kids'[j].asked = kids[j].asked /\ kids'[j].from = kids[j].from
      /\ \A j \in DOMAIN kids, u \in Streams : /\ MineOf(kids'[j], u) = MineOf(kids[j], u)
                                               /\ TheirsOf(kids'[j], u) = TheirsOf(kids[j], u)
                                               /\ Wanted(kids'[j], u) = Wanted(kids[j], u)
  BY <1>0, <1>1, <1>5, OneKid
<1>7. /\ \A j \in DOMAIN kids : kids'[j].t = kids[j].t /\ kids'[j].status = kids[j].status
      /\ \A j \in DOMAIN kids, u \in Streams :
           kids'[j].ends[u] = IF j = k /\ u = s THEN -1 ELSE kids[j].ends[u]
  BY <1>3, <1>5, <1>6
<1>8. fds' \in Tables /\ \A e \in Fds : fds'[e] = IF e = n THEN Closed ELSE fds[e]
  <2>1. fds' = Put(fds, n, Closed)
    BY <1>1 DEF Put
  <2>2. Put(fds, n, Closed) \in Tables
        /\ \A e \in Fds : Put(fds, n, Closed)[e] = IF e = n THEN Closed ELSE fds[e]
    BY <1>0, <1>2, PutIs, ThingsApart
  <2> QED BY <2>1, <2>2
<1>9. \A d \in Fds : IsEnd(fds'[d]) => fds'[d] = fds[d] /\ d # n
  BY <1>8, ThingsApart
<1>10. \A u \in Streams : n \notin UsedBy(cmd[u])
  BY <1>0, <1>4 DEF CommandNew, NoChilds
<1>11. PTypes'
  BY <1>0, <1>1, <1>6, <1>8 DEF PTypes
<1>12. Numbered'
  BY <1>0, <1>1, <1>6, <1>7, <1>8, ThingsApart DEF Numbered
<1>13. TableRight'
  <2>1. \A d \in 0..2 : fds'[d] = Terminal
    <3> TAKE d \in 0..2
    <3>1. d \in Fds /\ d # n
      BY <1>2, Descriptors
    <3> QED BY <1>0, <1>8, <3>1 DEF TableRight
  <2>2. \A u \in Streams : \A d \in UsedBy(cmd[u]) : fds'[d] = fds[d]
    BY <1>0, <1>8, <1>10, CommandReady
  <2>3. ASSUME NEW u \in Streams
        PROVE  /\ cmd[u].kind = "Raw" => fds'[cmd[u].fd] = File
               /\ cmd[u].kind = "Piped" => fds'[cmd[u].read][1] = "r" /\ fds'[cmd[u].write][1] = "w"
    <3>1. cmd[u].kind = "Raw" => cmd[u].fd \in UsedBy(cmd[u])
      BY DEF UsedBy
    <3>2. cmd[u].kind = "Piped" => cmd[u].read \in UsedBy(cmd[u]) /\ cmd[u].write \in UsedBy(cmd[u])
      BY DEF UsedBy
    <3> QED BY <1>0, <2>2, <3>1, <3>2 DEF TableRight
  <2>4. ASSUME NEW d \in Fds, NEW e \in Fds, fds'[d] = fds'[e], IsEnd(fds'[d]) PROVE d = e
    BY <1>0, <1>9, <2>4 DEF TableRight
  <2> QED BY <1>0, <1>1, <2>1, <2>3, <2>4 DEF TableRight, IsEnd
<1>14. CommandNew'
  <2> SUFFICES ASSUME NEW u \in Streams, NEW d \in UsedBy(cmd[u]), IsEnd(fds'[d])
               PROVE  \A j \in DOMAIN kids, w \in Streams :
                        IsPiped(kids[j].asked[w]) => TheirsOf(kids'[j], w) # fds'[d]
    BY <1>1, <1>6 DEF CommandNew, NoChilds, IsEnd, IsPiped
  <2>1. d \in Fds
    BY <1>0, CommandReady
  <2>2. fds'[d] = fds[d] /\ IsEnd(fds[d])
    BY <1>9, <2>1
  <2> QED BY <1>0, <1>6, <1>7, <2>2 DEF CommandNew, NoChilds
<1>15. KidMade'
  <2> SUFFICES ASSUME NEW j \in DOMAIN kids, kids[j].status = -1, NEW u \in Streams
               PROVE  /\ kids[j].t[Number[u]] = Wanted(kids'[j], u)
                      /\ IsPiped(kids[j].asked[u]) =>
                           \A d \in Fds : kids[j].t[d] = MineOf(kids'[j], u) => d = Number[u]
    BY <1>6, <1>7 DEF KidMade, IsPiped
  <2> QED BY <1>0, <1>6 DEF KidMade
<1>16. EndsRight'
  <2>1. ASSUME NEW j \in DOMAIN kids, NEW u \in Streams, IsPiped(kids[j].asked[u])
        PROVE  /\ IsEnd(MineOf(kids'[j], u)) /\ IsEnd(TheirsOf(kids'[j], u))
               /\ \A d \in Fds : /\ fds'[d] # MineOf(kids'[j], u) /\ kids'[j].t[d] # TheirsOf(kids'[j], u)
                                 /\ fds'[d] = TheirsOf(kids'[j], u) => d = kids'[j].ends[u]
               /\ \A i \in DOMAIN kids, d \in Fds : i > j => kids'[i].t[d] # MineOf(kids'[j], u)
    <3>1. /\ IsEnd(MineOf(kids[j], u)) /\ IsEnd(TheirsOf(kids[j], u))
          /\ \A d \in Fds : /\ fds[d] # MineOf(kids[j], u) /\ kids[j].t[d] # TheirsOf(kids[j], u)
                            /\ fds[d] = TheirsOf(kids[j], u) => d = kids[j].ends[u]
          /\ \A i \in DOMAIN kids, d \in Fds : i > j => kids[i].t[d] # MineOf(kids[j], u)
      BY <1>0, <2>1 DEF EndsRight
    <3>2. ASSUME NEW d \in Fds, fds'[d] = TheirsOf(kids[j], u) PROVE d = kids'[j].ends[u]
      <4>1. fds[d] = TheirsOf(kids[j], u) /\ d # n
        BY <1>9, <3>1, <3>2
      <4>2. d = kids[j].ends[u]
        BY <3>1, <4>1
      <4>3. ~ (j = k /\ u = s)
        BY <4>1, <4>2 DEF n
      <4> QED BY <1>7, <4>2, <4>3
    <3>3. \A d \in Fds : fds'[d] # MineOf(kids[j], u)
      BY <1>9, <3>1
    <3> QED BY <1>6, <1>7, <3>1, <3>2, <3>3
  <2>2. ASSUME NEW j \in DOMAIN kids, NEW u \in Streams, kids'[j].ends[u] # -1
        PROVE  IsPiped(kids[j].asked[u]) /\ fds'[kids'[j].ends[u]] = TheirsOf(kids'[j], u)
    <3>1. ~ (j = k /\ u = s) /\ kids'[j].ends[u] = kids[j].ends[u]
      BY <1>7, <2>2
    <3>2. IsPiped(kids[j].asked[u]) /\ fds[kids[j].ends[u]] = TheirsOf(kids[j], u)
      BY <1>0, <2>2, <3>1 DEF EndsRight
    <3>3. TheirsOf(kids[j], u) # TheirsOf(kids[k], s)
      BY <1>0, <1>4, <3>1, <3>2 DEF EndsRight
    <3>4. kids[j].ends[u] # n /\ kids[j].ends[u] \in Fds
      BY <1>0, <1>4, <2>2, <3>1, <3>2, <3>3, KidOf
    <3> QED BY <1>6, <1>8, <3>1, <3>2, <3>4
  <2>3. ASSUME NEW i \in DOMAIN kids, NEW j \in DOMAIN kids, NEW w \in Streams, NEW u \in Streams,
               IsPiped(kids[i].asked[w]), IsPiped(kids[j].asked[u]),
               TheirsOf(kids'[i], w) = TheirsOf(kids'[j], u)
        PROVE  i = j /\ w = u
    BY <1>0, <1>6, <2>3 DEF EndsRight
  <2>4. DOMAIN kids' = DOMAIN kids /\ \A j \in DOMAIN kids : kids'[j].asked = kids[j].asked
    BY <1>6
  <2>5. \A j \in DOMAIN kids', u \in Streams : IsPiped(kids'[j].asked[u]) =>
          /\ IsEnd(MineOf(kids'[j], u)) /\ IsEnd(TheirsOf(kids'[j], u))
          /\ \A d \in Fds : /\ fds'[d] # MineOf(kids'[j], u) /\ kids'[j].t[d] # TheirsOf(kids'[j], u)
                            /\ fds'[d] = TheirsOf(kids'[j], u) => d = kids'[j].ends[u]
          /\ \A i \in DOMAIN kids', d \in Fds : i > j => kids'[i].t[d] # MineOf(kids'[j], u)
    BY <2>1, <2>4
  <2>6. \A j \in DOMAIN kids', u \in Streams : kids'[j].ends[u] # -1 =>
          IsPiped(kids'[j].asked[u]) /\ fds'[kids'[j].ends[u]] = TheirsOf(kids'[j], u)
    BY <2>2, <2>4
  <2>7. \A i, j \in DOMAIN kids', w, u \in Streams :
          IsPiped(kids'[i].asked[w]) /\ IsPiped(kids'[j].asked[u])
            /\ TheirsOf(kids'[i], w) = TheirsOf(kids'[j], u) => i = j /\ w = u
    BY <2>3, <2>4
  <2> QED BY <2>5, <2>6, <2>7, EndsRightNext
<1>17. AsideRight'
  <2> SUFFICES ASSUME NEW i \in 1..MaxAside, NEW v \in Streams, NEW d \in UsedBy(aside[i][v])
               PROVE  /\ fds'[d] = fds[d]
                      /\ \A u \in Streams : d \notin UsedBy(cmd'[u])
                      /\ IsEnd(fds[d]) => \A j \in DOMAIN kids', u \in Streams :
                           IsPiped(kids'[j].asked[u]) => TheirsOf(kids'[j], u) # fds[d]
    BY <1>0, <1>1, AsideKeeps, Zenon
  <2>1. IsEnd(fds[d]) => \A j \in DOMAIN kids, u \in Streams :
          IsPiped(kids[j].asked[u]) => TheirsOf(kids[j], u) # fds[d]
    BY <1>0 DEF AsideRight, NoChilds
  <2>2. d # n
    BY <1>4, <2>1
  <2>3. d \in Fds
    BY <1>0, AsideReady
  <2>4. \A u \in Streams : d \notin UsedBy(cmd[u])
    BY <1>0 DEF AsideRight
  <2>5. \A j \in DOMAIN kids', u \in Streams :
          TheirsOf(kids'[j], u) = TheirsOf(kids[j], u) /\ kids'[j].asked = kids[j].asked /\ j \in DOMAIN kids
    BY <1>6
  <2> QED BY <1>1, <1>8, <2>1, <2>2, <2>3, <2>4, <2>5
<1>18. Inherited'
  BY <1>0, <1>6, <1>7 DEF Inherited, IsEnd
<1> QED BY <1>11, <1>12, <1>13, <1>14, <1>15, <1>16, <1>17, <1>18 DEF PInv

-----------------------------------------------------------------------------
(* Where an end of a pipe is in the child's first table: where the parent    *)
(* has it, for what is not the Command's, or as the stream it was made for.  *)
LEMMA ChildHas ==
  ASSUME PTypes, TableRight, NEW t, InPlace(t, Streams), NEW e \in Fds, IsEnd(t[e])
  PROVE  \/ e \in High /\ t[e] = fds[e] /\ \A s \in Streams : e \notin UsedBy(cmd[s])
         \/ \E s \in Streams : e = Number[s] /\ IsPiped(cmd[s]) /\ t[e] = fds[Mine(cmd[s], s)]
<1>1. CASE e \in High
  <2>1. t[e] = IF \E s \in Streams : e \in UsedBy(cmd[s]) THEN Closed ELSE fds[e]
    BY <1>1 DEF InPlace
  <2> QED BY <1>1, <2>1, ThingsApart
<1>2. CASE e \notin High
  <2>1. e \in 0..2
    BY <1>2, ProcessAssumption DEF Fds, High
  <2>2. PICK s \in Streams : Number[s] = e
    BY <2>1, Descriptors DEF Streams
  <2>3. t[e] = StreamOf(fds, cmd[s], s)
    BY <2>2 DEF InPlace
  <2>4. cmd[s] \in Stdios
    BY CommandReady
  <2>5. CASE cmd[s].kind = "Piped"
    BY <2>2, <2>3, <2>5 DEF StreamOf, IsPiped
  <2>6. CASE cmd[s].kind = "Raw"
    <3>1. t[e] = File
      BY <2>3, <2>6 DEF StreamOf, TableRight
    <3> QED BY <3>1, ThingsApart
  <2>7. CASE cmd[s].kind = "Null"
    <3>1. t[e] = Closed
      BY <2>3, <2>7 DEF StreamOf
    <3> QED BY <3>1, ThingsApart
  <2>8. CASE cmd[s].kind = "Inherit"
    <3>1. t[e] = fds[e]
      BY <2>2, <2>3, <2>8 DEF StreamOf
    <3>2. fds[e] = Terminal
      BY <2>1 DEF TableRight
    <3> QED BY <3>1, <3>2, ThingsApart
  <2> QED BY <2>4, <2>5, <2>6, <2>7, <2>8, StdioOf
<1> QED BY <1>1, <1>2

(* The Command's pipes: two ends, each in one place.                         *)
LEMMA CommandPipes ==
  ASSUME PTypes, TableRight, NEW s \in Streams, IsPiped(cmd[s])
  PROVE  /\ Mine(cmd[s], s) \in UsedBy(cmd[s]) /\ Theirs(cmd[s], s) \in UsedBy(cmd[s])
         /\ Mine(cmd[s], s) \in High /\ Theirs(cmd[s], s) \in High
         /\ Mine(cmd[s], s) # Theirs(cmd[s], s) /\ GivenTo(cmd[s], s) = {Mine(cmd[s], s)}
         /\ IsEnd(fds[Mine(cmd[s], s)]) /\ IsEnd(fds[Theirs(cmd[s], s)])
<1>1. cmd[s] \in Stdios /\ cmd[s].kind = "Piped" /\ cmd[s].read # cmd[s].write
  BY CommandReady DEF IsPiped
<1>2. IsEnd(fds[cmd[s].read]) /\ IsEnd(fds[cmd[s].write])
  BY <1>1 DEF TableRight, IsEnd
<1>3. /\ Mine(cmd[s], s) \in High /\ Theirs(cmd[s], s) \in High
      /\ UsedBy(cmd[s]) = {Mine(cmd[s], s), Theirs(cmd[s], s)} /\ Mine(cmd[s], s) # Theirs(cmd[s], s)
  BY <1>1, EndsOf
<1>4. Mine(cmd[s], s) \in {cmd[s].read, cmd[s].write} /\ Theirs(cmd[s], s) \in {cmd[s].read, cmd[s].write}
  BY DEF Mine, Theirs
<1>5. GivenTo(cmd[s], s) = {Mine(cmd[s], s)}
  BY <1>1 DEF GivenTo
<1> QED BY <1>2, <1>3, <1>4, <1>5

LEMMA SpawnKeeps ==
  ASSUME PInv, NEW t, InPlace(t, Streams), LetGo(fds', Streams), NEW x,
         x = [t |-> t, asked |-> cmd, from |-> fds, ends |-> ChildEnds,
              told |-> Yes, status |-> -1, got |-> -1],
         kids' = Append(kids, x), cmd' = NewCommand, aside' = aside, sets' = sets
  PROVE  PInv'
<1> DEFINE n == Len(kids) + 1
<1>0. /\ PTypes /\ Numbered /\ TableRight /\ CommandNew /\ AsideRight /\ Inherited /\ KidMade /\ EndsRight
      /\ sets \in Nat /\ fds \in Tables /\ cmd \in [Streams -> Stdios] /\ kids \in Seq(Kid)
      /\ High \subseteq Fds /\ t \in Tables /\ fds' \in Tables
  BY Descriptors DEF PInv, PTypes, InPlace, LetGo
<1>1. ChildEnds \in [Streams -> High \cup {-1}]
  <2> SUFFICES ASSUME NEW s \in Streams, cmd[s].kind = "Piped" PROVE Theirs(cmd[s], s) \in High
    BY DEF ChildEnds
  <2> QED BY <1>0, CommandPipes DEF IsPiped
<1>2. /\ x \in Kid /\ x.t = t /\ x.asked = cmd /\ x.from = fds /\ x.ends = ChildEnds /\ x.status = -1
  BY <1>0, <1>1 DEF Kid
<1>3. /\ Len(kids) \in Nat /\ DOMAIN kids = 1..Len(kids) /\ kids' \in Seq(Kid) /\ DOMAIN kids' = 1..n
      /\ kids'[n] = x /\ \A j \in DOMAIN kids : kids'[j] = kids[j]
  BY <1>0, <1>2
<1>4. /\ n \notin DOMAIN kids /\ n \in DOMAIN kids'
      /\ \A j \in DOMAIN kids' : j = n \/ j \in DOMAIN kids
      /\ \A j \in DOMAIN kids : j \in DOMAIN kids'
  BY <1>3
<1> HIDE DEF n
<1>5. \A s \in Streams : cmd'[s].kind = "Inherit" /\ UsedBy(cmd'[s]) = {} /\ cmd'[s] \in Stdios
  BY DEF NewCommand, UsedBy, Stdios
<1>6. \A d \in Fds : fds'[d] = fds[d] \/ fds'[d] = Closed
  BY DEF LetGo
<1>7. \A d \in Fds : IsEnd(fds'[d]) => fds'[d] = fds[d] /\ \A s \in Streams : d \notin GivenTo(cmd[s], s)
  BY ThingsApart DEF LetGo
<1>8. PTypes'
  BY <1>0, <1>3, <1>5 DEF PTypes, NewCommand
<1>9. \A d \in Fds : fds[d][2] <= sets
  BY <1>0 DEF Numbered
<1>10. \A e \in Fds : t[e][2] <= sets
  <2> TAKE e \in Fds
  <2>1. CASE IsEnd(t[e])
    <3>1. \E d \in Fds : t[e] = fds[d]
      BY <1>0, <2>1, ChildHas, CommandPipes
    <3> QED BY <1>9, <3>1
  <2>2. CASE ~ IsEnd(t[e])
    <3>1. CASE e \in High
      BY <1>0, <1>9, <3>1, ThingsApart DEF InPlace
    <3>2. CASE e \notin High
      <4>1. PICK s \in Streams : Number[s] = e
        BY <3>2, ProcessAssumption, Descriptors DEF Fds, High, Streams
      <4>2. t[e] = StreamOf(fds, cmd[s], s) /\ cmd[s] \in Stdios
        BY <1>0, <4>1 DEF InPlace
      <4>3. CASE cmd[s].kind = "Piped"
        <5>1. Mine(cmd[s], s) \in Fds
          BY <1>0, <4>3, CommandPipes DEF IsPiped
        <5> QED BY <1>9, <4>2, <4>3, <5>1 DEF StreamOf
      <4>4. CASE cmd[s].kind = "Raw"
        <5>1. cmd[s].fd \in Fds
          BY <1>0, <4>2, <4>4, StdioOf
        <5> QED BY <1>9, <4>2, <4>4, <5>1 DEF StreamOf
      <4>5. CASE cmd[s].kind = "Null"
        BY <1>0, <4>2, <4>5, ThingsApart DEF StreamOf
      <4>6. CASE cmd[s].kind = "Inherit"
        BY <1>9, <4>1, <4>2, <4>6 DEF StreamOf
      <4> QED BY <4>2, <4>3, <4>4, <4>5, <4>6, StdioOf
    <3> QED BY <3>1, <3>2
  <2> QED BY <2>1, <2>2
<1>11. Numbered'
  <2>1. \A d \in Fds : fds'[d][2] <= sets
    BY <1>0, <1>6, <1>9, ThingsApart
  <2>2. \A k \in DOMAIN kids', d \in Fds : kids'[k].t[d][2] <= sets /\ kids'[k].from[d][2] <= sets
    <3> TAKE k \in DOMAIN kids', d \in Fds
    <3>1. CASE k = n
      BY <1>2, <1>3, <1>9, <1>10, <3>1
    <3>2. CASE k \in DOMAIN kids
      BY <1>0, <1>3, <3>2 DEF Numbered
    <3> QED BY <1>4, <3>1, <3>2
  <2> QED BY <2>1, <2>2 DEF Numbered
<1>12. TableRight'
  <2>1. ASSUME NEW d \in 0..2 PROVE fds'[d] = Terminal
    <3>1. d \in Fds /\ d \notin High
      BY Descriptors
    <3>2. \A s \in Streams : d \notin GivenTo(cmd[s], s)
      BY <1>0, <3>1, CommandReady
    <3>3. fds'[d] = fds[d]
      BY <3>1, <3>2 DEF LetGo
    <3> QED BY <1>0, <3>3 DEF TableRight
  <2>2. ASSUME NEW d \in Fds, NEW e \in Fds, fds'[d] = fds'[e], IsEnd(fds'[d]) PROVE d = e
    BY <1>0, <1>7, <2>2 DEF TableRight
  <2> QED BY <1>5, <2>1, <2>2 DEF TableRight, IsEnd
<1>13. CommandNew'
  BY <1>5 DEF CommandNew, NoChilds
<1>14. ASSUME NEW s \in Streams, IsPiped(cmd[s]), NEW e \in Fds
       PROVE  /\ t[e] = fds[Mine(cmd[s], s)] => e = Number[s]
              /\ t[e] # fds[Theirs(cmd[s], s)]
  <2> DEFINE m == Mine(cmd[s], s)
             h == Theirs(cmd[s], s)
  <2>1. /\ m \in UsedBy(cmd[s]) /\ h \in UsedBy(cmd[s]) /\ m \in High /\ h \in High /\ m # h
        /\ IsEnd(fds[m]) /\ IsEnd(fds[h])
    BY <1>0, <1>14, CommandPipes
  <2> HIDE DEF m, h
  <2>2. CASE e \in High /\ t[e] = fds[e] /\ \A u \in Streams : e \notin UsedBy(cmd[u])
    BY <1>0, <2>1, <2>2 DEF TableRight, m, h
  <2>3. ASSUME NEW u \in Streams, e = Number[u], IsPiped(cmd[u]), t[e] = fds[Mine(cmd[u], u)]
        PROVE  /\ t[e] = fds[m] => e = Number[s]
               /\ t[e] # fds[h]
    <3>1. Mine(cmd[u], u) \in UsedBy(cmd[u]) /\ Mine(cmd[u], u) \in High
      BY <1>0, <2>3, CommandPipes
    <3>2. ASSUME t[e] = fds[m] PROVE e = Number[s]
      <4>1. Mine(cmd[u], u) = m
        BY <1>0, <2>1, <2>3, <3>1, <3>2 DEF TableRight
      <4>2. u = s
        BY <1>0, <2>1, <3>1, <4>1 DEF TableRight
      <4> QED BY <2>3, <4>2
    <3>3. ASSUME t[e] = fds[h] PROVE FALSE
      <4>1. Mine(cmd[u], u) = h
        BY <1>0, <2>1, <2>3, <3>1, <3>3 DEF TableRight
      <4>2. u = s
        BY <1>0, <2>1, <3>1, <4>1 DEF TableRight
      <4> QED BY <2>1, <4>1, <4>2 DEF m
    <3> QED BY <3>2, <3>3
  <2>4. CASE ~ IsEnd(t[e])
    BY <2>1, <2>4 DEF m, h
  <2>5. CASE IsEnd(t[e])
    <3>1. \/ e \in High /\ t[e] = fds[e] /\ \A u \in Streams : e \notin UsedBy(cmd[u])
          \/ \E u \in Streams : e = Number[u] /\ IsPiped(cmd[u]) /\ t[e] = fds[Mine(cmd[u], u)]
      BY <1>0, <2>5, ChildHas
    <3> QED BY <2>2, <2>3, <3>1 DEF m, h
  <2> QED BY <2>4, <2>5
<1>15. \A s \in Streams : MineOf(x, s) = fds[Mine(cmd[s], s)] /\ TheirsOf(x, s) = fds[Theirs(cmd[s], s)]
                          /\ Wanted(x, s) = StreamOf(fds, cmd[s], s)
  BY <1>2 DEF MineOf, TheirsOf, Wanted, StreamOf
<1>16. KidMade'
  <2> SUFFICES ASSUME NEW k \in DOMAIN kids', kids'[k].status = -1, NEW s \in Streams
               PROVE  /\ kids'[k].t[Number[s]] = Wanted(kids'[k], s)
                      /\ IsPiped(kids'[k].asked[s]) =>
                           \A d \in Fds : kids'[k].t[d] = MineOf(kids'[k], s) => d = Number[s]
    BY DEF KidMade, IsPiped, Wanted, MineOf
  <2>1. CASE k = n
    <3>1. t[Number[s]] = StreamOf(fds, cmd[s], s)
      BY DEF InPlace
    <3> QED BY <1>2, <1>3, <1>14, <1>15, <2>1, <3>1
  <2>2. CASE k \in DOMAIN kids
    BY <1>0, <1>3, <2>2 DEF KidMade
  <2> QED BY <1>4, <2>1, <2>2
<1>17. EndsRight'
  <2>1. ASSUME NEW k \in DOMAIN kids, NEW s \in Streams, IsPiped(kids[k].asked[s])
        PROVE  /\ IsEnd(MineOf(kids[k], s)) /\ IsEnd(TheirsOf(kids[k], s))
               /\ \A d \in Fds : /\ fds'[d] # MineOf(kids[k], s) /\ kids[k].t[d] # TheirsOf(kids[k], s)
                                 /\ fds'[d] = TheirsOf(kids[k], s) => d = kids[k].ends[s]
               /\ \A i \in DOMAIN kids', d \in Fds : i > k => kids'[i].t[d] # MineOf(kids[k], s)
    <3>1. /\ IsEnd(MineOf(kids[k], s)) /\ IsEnd(TheirsOf(kids[k], s))
          /\ \A d \in Fds : /\ fds[d] # MineOf(kids[k], s) /\ kids[k].t[d] # TheirsOf(kids[k], s)
                            /\ fds[d] = TheirsOf(kids[k], s) => d = kids[k].ends[s]
          /\ \A i \in DOMAIN kids, d \in Fds : i > k => kids[i].t[d] # MineOf(kids[k], s)
      BY <1>0, <2>1 DEF EndsRight
    <3>2. \A d \in Fds : fds'[d] # MineOf(kids[k], s) /\ (fds'[d] = TheirsOf(kids[k], s) => d = kids[k].ends[s])
      BY <1>7, <3>1
    <3>3. \A d \in Fds : t[d] # MineOf(kids[k], s)
      <4> TAKE d \in Fds
      <4> SUFFICES ASSUME t[d] = MineOf(kids[k], s) PROVE FALSE
        OBVIOUS
      <4>1. IsEnd(t[d])
        BY <3>1
      <4>2. \E e \in Fds : t[d] = fds[e]
        BY <1>0, <4>1, ChildHas, CommandPipes
      <4> QED BY <3>1, <4>2
    <3>4. ASSUME NEW i \in DOMAIN kids', NEW d \in Fds, i > k PROVE kids'[i].t[d] # MineOf(kids[k], s)
      BY <1>2, <1>3, <1>4, <3>1, <3>3, <3>4
    <3> QED BY <3>1, <3>2, <3>4
  <2>2. ASSUME NEW s \in Streams, IsPiped(cmd[s])
        PROVE  /\ IsEnd(MineOf(x, s)) /\ IsEnd(TheirsOf(x, s))
               /\ \A d \in Fds : /\ fds'[d] # MineOf(x, s) /\ t[d] # TheirsOf(x, s)
                                 /\ fds'[d] = TheirsOf(x, s) => d = x.ends[s]
               /\ \A i \in DOMAIN kids, u \in Streams :
                    IsPiped(kids[i].asked[u]) => TheirsOf(kids[i], u) # TheirsOf(x, s)
               /\ x.ends[s] = Theirs(cmd[s], s) /\ fds'[Theirs(cmd[s], s)] = TheirsOf(x, s)
    <3> DEFINE m == Mine(cmd[s], s)
               h == Theirs(cmd[s], s)
    <3>1. /\ m \in UsedBy(cmd[s]) /\ h \in UsedBy(cmd[s]) /\ m \in Fds /\ h \in Fds /\ m # h
          /\ IsEnd(fds[m]) /\ IsEnd(fds[h]) /\ GivenTo(cmd[s], s) = {m}
      BY <1>0, <2>2, CommandPipes
    <3>2. MineOf(x, s) = fds[m] /\ TheirsOf(x, s) = fds[h] /\ x.ends[s] = h
      BY <1>2, <1>15, <2>2 DEF ChildEnds, IsPiped
    <3> HIDE DEF m, h
    <3>3. \A d \in Fds : fds'[d] # fds[m] /\ (fds'[d] = fds[h] => d = h)
      BY <1>0, <1>7, <3>1 DEF TableRight
    <3>4. \A d \in Fds : t[d] # fds[h]
      BY <1>14, <2>2 DEF h
    <3>5. \A i \in DOMAIN kids, u \in Streams : IsPiped(kids[i].asked[u]) => TheirsOf(kids[i], u) # fds[h]
      BY <1>0, <3>1 DEF CommandNew, NoChilds
    <3>6. \A u \in Streams : h \notin GivenTo(cmd[u], u)
      <4> TAKE u \in Streams
      <4>1. CASE u = s
        BY <3>1, <4>1
      <4>2. CASE u # s
        <5>1. h \notin UsedBy(cmd[u])
          BY <1>0, <3>1, <4>2 DEF TableRight
        <5> QED BY <1>0, <5>1, CommandReady
      <4> QED BY <4>1, <4>2
    <3>7. fds'[h] = fds[h]
      BY <3>1, <3>6 DEF LetGo
    <3> QED BY <3>1, <3>2, <3>3, <3>4, <3>5, <3>7 DEF h
  <2>3. ASSUME NEW k \in DOMAIN kids', NEW s \in Streams, IsPiped(kids'[k].asked[s])
        PROVE  /\ IsEnd(MineOf(kids'[k], s)) /\ IsEnd(TheirsOf(kids'[k], s))
               /\ \A d \in Fds : /\ fds'[d] # MineOf(kids'[k], s) /\ kids'[k].t[d] # TheirsOf(kids'[k], s)
                                 /\ fds'[d] = TheirsOf(kids'[k], s) => d = kids'[k].ends[s]
               /\ \A i \in DOMAIN kids', d \in Fds : i > k => kids'[i].t[d] # MineOf(kids'[k], s)
    <3>1. CASE k = n
      <4>1. IsPiped(cmd[s]) /\ kids'[k] = x
        BY <1>2, <1>3, <2>3, <3>1
      <4>2. \A i \in DOMAIN kids' : ~ (i > k)
        BY <1>3, <3>1 DEF n
      <4> QED BY <1>2, <2>2, <4>1, <4>2
    <3>2. CASE k \in DOMAIN kids
      BY <1>3, <2>1, <2>3, <3>2
    <3> QED BY <1>4, <3>1, <3>2
  <2>4. ASSUME NEW k \in DOMAIN kids', NEW s \in Streams, kids'[k].ends[s] # -1
        PROVE  IsPiped(kids'[k].asked[s]) /\ fds'[kids'[k].ends[s]] = TheirsOf(kids'[k], s)
    <3>1. CASE k = n
      <4>1. kids'[k] = x /\ x.ends[s] = IF cmd[s].kind = "Piped" THEN Theirs(cmd[s], s) ELSE -1
        BY <1>2, <1>3, <3>1 DEF ChildEnds
      <4>2. IsPiped(cmd[s])
        BY <2>4, <4>1 DEF IsPiped
      <4> QED BY <1>2, <2>2, <4>1, <4>2
    <3>2. CASE k \in DOMAIN kids
      <4>1. kids'[k] = kids[k]
        BY <1>3, <3>2
      <4>2. IsPiped(kids[k].asked[s]) /\ fds[kids[k].ends[s]] = TheirsOf(kids[k], s)
        BY <1>0, <2>4, <3>2, <4>1 DEF EndsRight
      <4>3. kids[k].ends[s] \in Fds
        BY <1>0, <2>4, <3>2, <4>1, KidOf
      <4>4. IsEnd(TheirsOf(kids[k], s))
        BY <2>1, <3>2, <4>2
      <4>5. ASSUME NEW u \in Streams PROVE kids[k].ends[s] \notin GivenTo(cmd[u], u)
        <5>1. kids[k].ends[s] \notin UsedBy(cmd[u])
          BY <1>0, <3>2, <4>2, <4>4 DEF CommandNew, NoChilds
        <5> QED BY <1>0, <5>1, CommandReady
      <4>6. fds'[kids[k].ends[s]] = fds[kids[k].ends[s]]
        BY <4>3, <4>5 DEF LetGo
      <4> QED BY <4>1, <4>2, <4>6
    <3> QED BY <1>4, <3>1, <3>2
  <2>5. ASSUME NEW j \in DOMAIN kids', NEW k \in DOMAIN kids', NEW s \in Streams, NEW u \in Streams,
               IsPiped(kids'[j].asked[s]), IsPiped(kids'[k].asked[u]),
               TheirsOf(kids'[j], s) = TheirsOf(kids'[k], u)
        PROVE  j = k /\ s = u
    <3>1. CASE j \in DOMAIN kids /\ k \in DOMAIN kids
      BY <1>0, <1>3, <2>5, <3>1 DEF EndsRight
    <3>2. CASE j = n /\ k \in DOMAIN kids
      BY <1>2, <1>3, <2>2, <2>5, <3>2
    <3>3. CASE k = n /\ j \in DOMAIN kids
      BY <1>2, <1>3, <2>2, <2>5, <3>3
    <3>4. CASE j = n /\ k = n
      <4>1. IsPiped(cmd[s]) /\ IsPiped(cmd[u]) /\ fds[Theirs(cmd[s], s)] = fds[Theirs(cmd[u], u)]
        BY <1>2, <1>3, <1>15, <2>5, <3>4
      <4>2. /\ Theirs(cmd[s], s) \in UsedBy(cmd[s]) /\ Theirs(cmd[s], s) \in High
            /\ Theirs(cmd[u], u) \in UsedBy(cmd[u]) /\ Theirs(cmd[u], u) \in High
            /\ IsEnd(fds[Theirs(cmd[s], s)])
        BY <1>0, <4>1, CommandPipes
      <4>3. Theirs(cmd[s], s) = Theirs(cmd[u], u)
        BY <1>0, <4>1, <4>2 DEF TableRight
      <4>4. s = u
        BY <1>0, <4>2, <4>3 DEF TableRight
      <4> QED BY <3>4, <4>4
    <3> QED BY <1>4, <3>1, <3>2, <3>3, <3>4
  <2> QED BY <2>3, <2>4, <2>5, EndsRightNext
<1>18. AsideRight'
  <2> SUFFICES ASSUME NEW i \in 1..MaxAside, NEW v \in Streams, NEW d \in UsedBy(aside[i][v])
               PROVE  /\ fds'[d] = fds[d]
                      /\ \A u \in Streams : d \notin UsedBy(cmd'[u])
                      /\ IsEnd(fds[d]) => \A j \in DOMAIN kids', u \in Streams :
                           IsPiped(kids'[j].asked[u]) => TheirsOf(kids'[j], u) # fds[d]
    BY <1>0, AsideKeeps, Zenon
  <2>1. d \in High /\ d \in Fds /\ \A u \in Streams : d \notin UsedBy(cmd[u])
    BY <1>0, AsideReady DEF AsideRight
  <2>2. \A u \in Streams : d \notin GivenTo(cmd[u], u)
    BY <1>0, <2>1, CommandReady
  <2>3. fds'[d] = fds[d]
    BY <2>1, <2>2 DEF LetGo
  <2>4. ASSUME IsEnd(fds[d]), NEW j \in DOMAIN kids', NEW u \in Streams, IsPiped(kids'[j].asked[u])
        PROVE  TheirsOf(kids'[j], u) # fds[d]
    <3>1. CASE j \in DOMAIN kids
      BY <1>0, <1>3, <2>4, <3>1 DEF AsideRight, NoChilds
    <3>2. CASE j = n
      <4>1. IsPiped(cmd[u]) /\ TheirsOf(kids'[j], u) = fds[Theirs(cmd[u], u)]
        BY <1>2, <1>3, <1>15, <2>4, <3>2
      <4>2. Theirs(cmd[u], u) \in UsedBy(cmd[u]) /\ Theirs(cmd[u], u) \in Fds
        BY <1>0, <4>1, CommandPipes
      <4> QED BY <1>0, <2>1, <2>4, <4>1, <4>2 DEF TableRight
    <3> QED BY <1>4, <3>1, <3>2
  <2> QED BY <1>5, <2>3, <2>4
<1>19. Inherited'
  <2> SUFFICES ASSUME NEW k \in DOMAIN kids', NEW d \in Fds, IsEnd(kids'[k].t[d])
               PROVE  \E e \in Fds : kids'[k].from[e] = kids'[k].t[d]
    BY DEF Inherited, IsEnd
  <2>1. CASE k \in DOMAIN kids
    BY <1>0, <1>3, <2>1 DEF Inherited
  <2>2. CASE k = n
    <3>1. kids'[k].t = t /\ kids'[k].from = fds
      BY <1>2, <1>3, <2>2
    <3>2. \E e \in Fds : t[d] = fds[e]
      BY <1>0, <3>1, ChildHas, CommandPipes
    <3> QED BY <3>1, <3>2
  <2> QED BY <1>4, <2>1, <2>2
<1> QED BY <1>8, <1>11, <1>12, <1>13, <1>16, <1>17, <1>18, <1>19 DEF PInv

LEMMA TurnKeeps ==
  ASSUME PInv, NEW i \in 1..MaxAside, Turn(i)
  PROVE  PInv'
<1>0. /\ PTypes /\ Numbered /\ TableRight /\ CommandNew /\ AsideRight /\ Inherited /\ KidMade /\ EndsRight
      /\ cmd' = aside[i] /\ fds' = fds /\ sets' = sets /\ kids' = kids
      /\ cmd \in [Streams -> Stdios] /\ aside \in [1..MaxAside -> [Streams -> Stdios]]
  BY DEF PInv, PTypes, Turn
<1>1. aside' \in [1..MaxAside -> [Streams -> Stdios]]
      /\ \A j \in 1..MaxAside : aside'[j] = IF j = i THEN cmd ELSE aside[j]
  BY <1>0 DEF Turn
<1>2. PTypes'
  BY <1>0, <1>1 DEF PTypes
<1>3. Numbered' /\ KidMade' /\ EndsRight' /\ Inherited'
  BY <1>0 DEF Numbered, KidMade, EndsRight, Inherited
<1>4. TableRight'
  <2>1. \A s \in Streams :
          /\ cmd'[s].kind = "Raw" => fds'[cmd'[s].fd] = File
          /\ cmd'[s].kind = "Piped" => fds'[cmd'[s].read][1] = "r" /\ fds'[cmd'[s].write][1] = "w"
    BY <1>0 DEF AsideRight
  <2>2. \A s, u \in Streams : s # u => UsedBy(cmd'[s]) \cap UsedBy(cmd'[u]) = {}
    BY <1>0 DEF AsideRight
  <2>3. /\ \A d \in 0..2 : fds'[d] = Terminal
        /\ \A d, e \in Fds : fds'[d] = fds'[e] /\ IsEnd(fds'[d]) => d = e
    BY <1>0 DEF TableRight
  <2> QED BY <2>1, <2>2, <2>3 DEF TableRight, IsEnd
<1>6. CommandNew'
  BY <1>0 DEF CommandNew, AsideRight, NoChilds
<1>5. AsideRight'
  <2>1. ASSUME NEW j \in 1..MaxAside, NEW s \in Streams
        PROVE  /\ aside'[j][s].kind = "Raw" => fds'[aside'[j][s].fd] = File
               /\ aside'[j][s].kind = "Piped" =>
                    fds'[aside'[j][s].read][1] = "r" /\ fds'[aside'[j][s].write][1] = "w"
    BY <1>0, <1>1 DEF AsideRight, TableRight
  <2>4. ASSUME NEW j \in 1..MaxAside PROVE NoChilds(aside[j])'
    BY <1>0, <1>1 DEF AsideRight, CommandNew, NoChilds
  <2>2. ASSUME NEW j \in 1..MaxAside, NEW s \in Streams, NEW u \in Streams
        PROVE  /\ s # u => UsedBy(aside'[j][s]) \cap UsedBy(aside'[j][u]) = {}
               /\ UsedBy(aside'[j][s]) \cap UsedBy(cmd'[u]) = {}
    <3>1. CASE j = i
      BY <1>0, <1>1, <3>1 DEF AsideRight, TableRight
    <3>2. CASE j # i
      BY <1>0, <1>1, <3>2 DEF AsideRight
    <3> QED BY <3>1, <3>2
  <2>3. ASSUME NEW j \in 1..MaxAside, NEW k \in 1..MaxAside, NEW s \in Streams, NEW u \in Streams, j # k
        PROVE  UsedBy(aside'[j][s]) \cap UsedBy(aside'[k][u]) = {}
    <3>1. CASE j = i
      BY <1>0, <1>1, <2>3, <3>1 DEF AsideRight
    <3>2. CASE k = i
      BY <1>0, <1>1, <2>3, <3>2 DEF AsideRight
    <3>3. CASE j # i /\ k # i
      BY <1>0, <1>1, <2>3, <3>3 DEF AsideRight
    <3> QED BY <3>1, <3>2, <3>3
  <2> QED BY <2>1, <2>2, <2>3, <2>4 DEF AsideRight
<1> QED BY <1>2, <1>3, <1>4, <1>5, <1>6 DEF PInv

LEMMA ProcessKeeps ==
  ASSUME PInv, [ProcessNext]_processVars
  PROVE  PInv'
<1>0. PTypes /\ TableRight
  BY DEF PInv
<1>1. ASSUME spawn PROVE PInv'
  <2>1. PICK t : child_code(Fine(fds)) = Fine(t) /\ InPlace(t, Streams)
    BY <1>0, ChildTable
  <2>2. PICK u : parent_code(Fine(fds)) = Fine(u) /\ LetGo(u, Streams)
    BY <1>0, ParentTable
  <2>3. Fine(fds) = [ok |-> TRUE, t |-> fds]
    BY Zenon DEF Fine, Yes
  <2>4. Fine(t).t = t /\ Fine(u).t = u /\ Fine(u).ok = Yes
    BY DEF Fine
  <2> DEFINE x == [t |-> t, asked |-> cmd, from |-> fds, ends |-> ChildEnds,
                   told |-> Yes, status |-> -1, got |-> -1]
  <2>5. /\ cmd' = NewCommand /\ sets' = sets /\ aside' = aside
        /\ \/ /\ fds' = parent_code([ok |-> TRUE, t |-> fds]).t
              /\ kids' = Append(kids, [t |-> child_code([ok |-> TRUE, t |-> fds]).t, asked |-> cmd,
                                       from |-> fds, ends |-> ChildEnds,
                                       told |-> parent_code([ok |-> TRUE, t |-> fds]).ok,
                                       status |-> -1, got |-> -1])
           \/ fds' = fds /\ kids' = kids
    BY <1>1 DEF spawn
  <2>6. CASE fds' = fds /\ kids' = kids
    <3>1. \A s \in Streams : cmd'[s].kind = "Inherit" /\ UsedBy(cmd'[s]) = {} /\ cmd'[s] \in Stdios
      BY <2>5 DEF NewCommand, UsedBy, Stdios
    <3>2. PTypes'
      BY <1>0, <2>5, <2>6, <3>1 DEF PTypes, NewCommand
    <3>3. Numbered' /\ KidMade' /\ EndsRight' /\ Inherited'
      BY <2>5, <2>6 DEF PInv, Numbered, KidMade, EndsRight, Inherited
    <3>4. TableRight'
      BY <1>0, <2>6, <3>1 DEF TableRight
    <3>5. CommandNew'
      BY <3>1 DEF CommandNew, NoChilds
    <3>6. AsideRight'
      <4>1. \A i \in 1..MaxAside, s \in Streams : \A d \in UsedBy(aside[i][s]) :
               /\ fds'[d] = fds[d]
               /\ \A v \in Streams : d \notin UsedBy(cmd'[v])
               /\ IsEnd(fds[d]) => \A j \in DOMAIN kids', v \in Streams :
                    IsPiped(kids'[j].asked[v]) => TheirsOf(kids'[j], v) # fds[d]
        <5>1. AsideRight
          BY DEF PInv
        <5>2. \A i \in 1..MaxAside, s \in Streams : \A d \in UsedBy(aside[i][s]) :
                IsEnd(fds[d]) => \A j \in DOMAIN kids, v \in Streams :
                  IsPiped(kids[j].asked[v]) => TheirsOf(kids[j], v) # fds[d]
          BY <5>1 DEF AsideRight, NoChilds
        <5> QED BY <2>6, <3>1, <5>2
      <4> QED BY <1>0, <2>5, <4>1, AsideKeeps, Zenon DEF PInv
    <3> QED BY <3>2, <3>3, <3>4, <3>5, <3>6 DEF PInv
  <2>7. CASE fds' = u /\ kids' = Append(kids, x)
    BY <2>1, <2>2, <2>5, <2>7, SpawnKeeps
  <2>8. \/ fds' = u /\ kids' = Append(kids, x)
        \/ fds' = fds /\ kids' = kids
    BY <2>1, <2>2, <2>3, <2>4, <2>5, Zenon
  <2> QED BY <2>6, <2>7, <2>8
<1>2. ASSUME UNCHANGED processVars PROVE PInv'
  <2>1. fds' = fds /\ cmd' = cmd /\ aside' = aside /\ sets' = sets /\ kids' = kids
    BY <1>2 DEF processVars
  <2>2. PTypes' /\ Numbered' /\ TableRight' /\ CommandNew' /\ KidMade'
    <3>1. PTypes' /\ Numbered'
      BY <2>1 DEF PInv, PTypes, Numbered
    <3>2. TableRight'
      BY <2>1 DEF PInv, TableRight
    <3>3. CommandNew' /\ KidMade'
      BY <2>1 DEF PInv, CommandNew, NoChilds, KidMade
    <3> QED BY <3>1, <3>2, <3>3
  <2>3. AsideRight' /\ Inherited'
    <3>1. Inherited'
      BY <2>1 DEF PInv, Inherited
    <3>2. \A i \in 1..MaxAside : NoChilds(aside[i])'
      BY <2>1 DEF PInv, AsideRight, NoChilds
    <3>3. AsideRight
      BY DEF PInv
    <3> QED BY <2>1, <3>1, <3>2, <3>3 DEF AsideRight
  <2>4. EndsRight'
    BY <2>1 DEF PInv, EndsRight
  <2> QED BY <2>2, <2>3, <2>4 DEF PInv
<1> QED BY <1>1, <1>2, TurnKeeps, PipedKeeps, NullKeeps, RawKeeps, DropKeeps, ExitKeeps, WaitKeeps DEF ProcessNext

(* Through any number of Commands made side by side, of children and of      *)
(* streams dropped, the program's table holds what the Commands and the      *)
(* Childs say it does, every end of a pipe once: PInv.                       *)
THEOREM ProcessInvariance == ProcessSpec => []PInv
BY ProcessStarts, ProcessKeeps, PTL DEF ProcessSpec

(* With any number of descriptors, children, redirections and Commands half  *)
(* made, a child has at 0, 1 and 2 what its Command asked for; its own end   *)
(* of a pipe is in no child spawned later and not in the program, and other  *)
(* children have an end only if it was open in the program when they were    *)
(* spawned: ChildStreams (spawn, process.rs).                                *)
THEOREM ChildrenGetTheirStreams == ProcessSpec => []ChildStreams
<1>1. ASSUME PInv PROVE ChildStreams
  <2>0. PTypes /\ KidMade /\ EndsRight /\ Inherited /\ DOMAIN fds = Fds
    BY <1>1 DEF PInv, PTypes, Tables
  <2> SUFFICES ASSUME NEW k \in DOMAIN kids, kids[k].status = -1
               PROVE  /\ kids[k].told
                      /\ \A s \in Streams :
                           /\ kids[k].t[Number[s]] = Wanted(kids[k], s)
                           /\ IsPiped(kids[k].asked[s]) =>
                                /\ \A d \in Fds : /\ fds[d] # MineOf(kids[k], s)
                                                  /\ kids[k].t[d] = MineOf(kids[k], s) => d = Number[s]
                                                  /\ kids[k].t[d] # TheirsOf(kids[k], s)
                                                  /\ fds[d] = TheirsOf(kids[k], s) => d = kids[k].ends[s]
                                /\ \A j \in DOMAIN kids, d \in Fds :
                                     /\ kids[j].t[d] = MineOf(kids[k], s) => j <= k
                                     /\ kids[j].t[d] \in {MineOf(kids[k], s), TheirsOf(kids[k], s)} =>
                                          \E e \in Fds : kids[j].from[e] = kids[j].t[d]
    BY <2>0 DEF ChildStreams, IsPiped, MineOf, TheirsOf
  <2>1. kids[k].told
    <3>1. kids[k].told = Yes
      BY <2>0, KidOf
    <3> QED BY <3>1, Zenon DEF Yes
  <2>2. ASSUME NEW s \in Streams
        PROVE  /\ kids[k].t[Number[s]] = Wanted(kids[k], s)
               /\ IsPiped(kids[k].asked[s]) =>
                    \A d \in Fds : /\ fds[d] # MineOf(kids[k], s)
                                   /\ kids[k].t[d] = MineOf(kids[k], s) => d = Number[s]
                                   /\ kids[k].t[d] # TheirsOf(kids[k], s)
                                   /\ fds[d] = TheirsOf(kids[k], s) => d = kids[k].ends[s]
    BY <2>0 DEF KidMade, EndsRight
  <2>3. ASSUME NEW s \in Streams, IsPiped(kids[k].asked[s]), NEW j \in DOMAIN kids, NEW d \in Fds
        PROVE  /\ kids[j].t[d] = MineOf(kids[k], s) => j <= k
               /\ kids[j].t[d] \in {MineOf(kids[k], s), TheirsOf(kids[k], s)} =>
                    \E e \in Fds : kids[j].from[e] = kids[j].t[d]
    <3>1. /\ IsEnd(MineOf(kids[k], s)) /\ IsEnd(TheirsOf(kids[k], s))
          /\ j > k => kids[j].t[d] # MineOf(kids[k], s)
      BY <2>0, <2>3 DEF EndsRight
    <3>2. j \in Int /\ k \in Int
      BY <2>0, KidOf
    <3>3. IsEnd(kids[j].t[d]) => \E e \in Fds : kids[j].from[e] = kids[j].t[d]
      BY <2>0 DEF Inherited
    <3> QED BY <3>1, <3>2, <3>3
  <2> QED BY <2>1, <2>2, <2>3, Zenon
<1> QED BY <1>1, ProcessInvariance, PTL

(***************************************************************************)
(* Durations, for every number of nanoseconds to a second.                 *)
(***************************************************************************)

Sec == NANOS_PER_SEC
Times == [secs : Int, nanos : Int]

LEMMA Constants ==
  /\ Sec \in Nat /\ Sec > 0 /\ NANOS_PER_MILLI \in Nat /\ NANOS_PER_MILLI > 0
  /\ MaxSecs \in Nat /\ MaxFactor \in Nat /\ I32 \in Nat /\ I32 > 0
<1>1. Sec \in Nat /\ Sec > 0 /\ I32 \in Nat /\ 2 * Sec < I32
  BY DurationsAssumption DEF Sec
<1>2. I32 > 0
  BY <1>1
<1> QED BY <1>1, <1>2, DurationsAssumption DEF Sec

(* Multiplication, as far as the laws need it.                               *)
LEMMA Distributes ==
  ASSUME NEW a \in Int, NEW b \in Int, NEW c \in Int
  PROVE  /\ (a + b) * c = a * c + b * c /\ (a - b) * c = a * c - b * c
         /\ a * b \in Int /\ a * b = b * a /\ (a * b) * c = a * (b * c)
         /\ (-a) * c = -(a * c) /\ 0 * c = 0 /\ 1 * c = c
OBVIOUS

LEMMA Monotone ==
  ASSUME NEW a \in Int, NEW b \in Int, NEW c \in Nat, a <= b
  PROVE  a * c <= b * c
<1>1. b - a \in Nat
  OBVIOUS
<1>2. (b - a) * c \in Nat
  BY <1>1
<1> QED BY <1>2, Distributes

LEMMA Quotient ==
  ASSUME NEW a \in Int, NEW d \in Nat, d > 0
  PROVE  /\ a \div d \in Int /\ a % d \in 0..(d - 1) /\ a = (a \div d) * d + (a % d)
         /\ a \in Nat => a \div d \in Nat
OBVIOUS

LEMMA QuotientNat ==
  ASSUME NEW a \in Nat, NEW d \in Nat, d > 0
  PROVE  a \div d \in Nat /\ a % d \in 0..(d - 1) /\ a = (a \div d) * d + (a % d)
BY Quotient

(* A quotient is the only number with a remainder below the divisor.         *)
LEMMA QuotientIs ==
  ASSUME NEW a \in Int, NEW d \in Nat, d > 0, NEW q \in Int, NEW r \in 0..(d - 1), a = q * d + r
  PROVE  a \div d = q /\ a % d = r
<1> DEFINE p == a \div d
<1>1. /\ p \in Int /\ a % d \in 0..(d - 1) /\ a = p * d + (a % d)
  BY Quotient
<1> HIDE DEF p
<1>2. (q - p) * d = (a % d) - r
  BY <1>1, Distributes
<1>3. CASE q - p >= 1
  <2>1. 1 * d <= (q - p) * d
    BY <1>1, <1>3, Monotone
  <2> QED BY <2>1, <1>1, <1>2, Distributes
<1>4. CASE p - q >= 1
  <2>1. 1 * d <= (p - q) * d
    BY <1>1, <1>4, Monotone
  <2>2. (p - q) * d = r - (a % d)
    BY <1>1, Distributes
  <2> QED BY <2>1, <2>2, <1>1, Distributes
<1>5. CASE p = q
  BY <1>5, <1>1 DEF p
<1> QED BY <1>1, <1>3, <1>4, <1>5


LEMMA MinIs ==
  ASSUME NEW T \in SUBSET Nat, T # {}
  PROVE  Min(T) \in T /\ \A m \in T : Min(T) <= m
BY LeastNumber DEF Min

(* The kernel's Duration::new: what a turn of its loops does, and when they  *)
(* go on.                                                                    *)
Carried(d, j) == [secs |-> d.secs + j, nanos |-> d.nanos - j * Sec]
Turns(d) == 0..(Magnitude(d.nanos) \div Sec) + 1
Over(d) == d.nanos >= Sec \/ (d.nanos > 0 /\ d.secs < 0)
Under(d) == d.nanos < 0 /\ d.secs > 0
Lifted(d) == Carried(d, Min({j \in Turns(d) : ~ Over(Carried(d, j))}))
Lowered(d) == Carried(d, -Min({j \in Turns(d) : ~ Under(Carried(d, -j))}))

LEMMA NewIs ==
  ASSUME NEW s, NEW n
  PROVE  kernel_new(s, n) = Lowered(Lifted([secs |-> s, nanos |-> n]))
BY DEF kernel_new, Lowered, Lifted, Carried, Turns, Over, Under, Sec

LEMMA CarriedKeeps ==
  ASSUME NEW d \in Times, NEW j \in Int
  PROVE  /\ Carried(d, j) \in Times /\ Total(Carried(d, j)) = Total(d) /\ Total(d) \in Int
         /\ Carried(d, j).secs = d.secs + j /\ Carried(d, j).nanos = d.nanos - j * Sec
<1>1. /\ d.secs \in Int /\ d.nanos \in Int /\ Sec \in Int
  BY Constants DEF Times
<1>2. j * Sec \in Int /\ d.secs * Sec \in Int /\ (d.secs + j) * Sec = d.secs * Sec + j * Sec
  BY <1>1, Distributes
<1> QED BY <1>1, <1>2 DEF Carried, Times, Total, Sec

LEMMA TurnsEnough ==
  ASSUME NEW d \in Times
  PROVE  /\ Turns(d) \subseteq Nat /\ 0 \in Turns(d)
         /\ \A j \in Turns(d) : j > 0 => j - 1 \in Turns(d)
         /\ \E j \in Turns(d) : d.nanos - j * Sec < 0
         /\ \E j \in Turns(d) : d.nanos + j * Sec > 0
<1> DEFINE m == Magnitude(d.nanos) \div Sec
<1>1. d.nanos \in Int /\ Magnitude(d.nanos) \in Nat /\ Sec \in Nat /\ Sec > 0
  BY Constants DEF Times, Magnitude
<1>2. m \in Nat /\ Magnitude(d.nanos) = m * Sec + (Magnitude(d.nanos) % Sec) /\ Magnitude(d.nanos) % Sec \in 0..(Sec - 1)
  BY <1>1, Quotient
<1> HIDE DEF m
<1>3. Turns(d) = 0..(m + 1)
  BY DEF m, Turns
<1>4. (m + 1) * Sec = m * Sec + Sec /\ m * Sec \in Int
  BY <1>1, <1>2, Distributes
<1>5. d.nanos <= Magnitude(d.nanos) /\ -Magnitude(d.nanos) <= d.nanos
  BY <1>1 DEF Magnitude
<1>6. d.nanos - (m + 1) * Sec < 0 /\ d.nanos + (m + 1) * Sec > 0
  BY <1>1, <1>2, <1>4, <1>5
<1>7. m + 1 \in Turns(d)
  BY <1>2, <1>3
<1>8. \A j \in Turns(d) : j > 0 => j - 1 \in Turns(d)
  BY <1>2, <1>3
<1> QED BY <1>2, <1>3, <1>6, <1>7, <1>8

LEMMA LiftedEnds ==
  ASSUME NEW d \in Times
  PROVE  Lifted(d) \in Times /\ Total(Lifted(d)) = Total(d) /\ ~ Over(Lifted(d))
<1> DEFINE T == {j \in Turns(d) : ~ Over(Carried(d, j))}
<1>1. PICK j \in Turns(d) : d.nanos - j * Sec < 0
  BY TurnsEnough
<1>2. j \in Nat
  BY TurnsEnough
<1>3. ~ Over(Carried(d, j))
  <2>1. Carried(d, j).nanos = d.nanos - j * Sec
    BY <1>2, CarriedKeeps
  <2>2. d.nanos \in Int /\ j * Sec \in Int /\ Sec \in Nat
    BY <1>2, Constants, Distributes DEF Times
  <2>3. Carried(d, j).nanos < 0 /\ Carried(d, j).nanos \in Int
    BY <1>1, <2>1, <2>2
  <2> QED BY <2>2, <2>3 DEF Over
<1>4. T \in SUBSET Nat /\ T # {}
  BY <1>3, TurnsEnough
<1>5. Min(T) \in T
  BY <1>4, MinIs
<1>6. Lifted(d) = Carried(d, Min(T))
  BY DEF Lifted
<1> QED BY <1>4, <1>5, <1>6, CarriedKeeps

LEMMA LoweredEnds ==
  ASSUME NEW d \in Times, ~ Over(d)
  PROVE  /\ Lowered(d) \in Times /\ Total(Lowered(d)) = Total(d)
         /\ ~ Over(Lowered(d)) /\ ~ Under(Lowered(d))
<1> DEFINE T == {j \in Turns(d) : ~ Under(Carried(d, -j))}
           k == Min(T)
<1>0. d.secs \in Int /\ d.nanos \in Int /\ Sec \in Nat /\ Sec > 0
  BY Constants DEF Times
<1>a. ASSUME NEW j \in Nat
      PROVE  /\ Carried(d, -j) \in Times /\ Total(Carried(d, -j)) = Total(d) /\ j * Sec \in Int
             /\ Carried(d, -j).secs = d.secs - j /\ Carried(d, -j).nanos = d.nanos + j * Sec
  <2>1. -j \in Int /\ (-j) * Sec = -(j * Sec) /\ j * Sec \in Int
    BY <1>0, Distributes
  <2>2. /\ Carried(d, -j) \in Times /\ Total(Carried(d, -j)) = Total(d)
        /\ Carried(d, -j).secs = d.secs + (-j) /\ Carried(d, -j).nanos = d.nanos - (-j) * Sec
    BY <2>1, CarriedKeeps
  <2> QED BY <1>0, <2>1, <2>2
<1>1. PICK i \in Turns(d) : d.nanos + i * Sec > 0
  BY TurnsEnough
<1>2. i \in Nat
  BY TurnsEnough
<1>3. ~ Under(Carried(d, -i))
  BY <1>0, <1>1, <1>2, <1>a DEF Under
<1>4. T \in SUBSET Nat /\ T # {}
  BY <1>3, TurnsEnough
<1>5. k \in T /\ \A m \in T : k <= m
  BY <1>4, MinIs
<1>6. k \in Nat /\ k \in Turns(d) /\ ~ Under(Carried(d, -k))
  BY <1>4, <1>5
<1>7. Lowered(d) = Carried(d, -k)
  BY DEF Lowered
<1> HIDE DEF k
<1>8. ~ Over(Carried(d, -k))
  <2>1. CASE k = 0
    <3>1. k * Sec = 0
      BY <2>1, <1>0, Distributes
    <3> QED BY <1>0, <1>a, <1>6, <2>1, <3>1 DEF Over
  <2>2. CASE k # 0
    <3>1. k - 1 \in Turns(d) /\ k - 1 \in Nat
      BY <1>6, <2>2, TurnsEnough
    <3>2. Under(Carried(d, -(k - 1)))
      <4>1. k - 1 \notin T
        BY <1>5, <1>6, <3>1
      <4> QED BY <4>1, <3>1
    <3>3. d.nanos + (k - 1) * Sec < 0 /\ d.secs - (k - 1) > 0
      BY <3>1, <3>2, <1>a DEF Under
    <3>4. (k - 1) * Sec = k * Sec - Sec /\ k * Sec \in Int
      BY <1>0, <1>6, Distributes
    <3>5. d.nanos + k * Sec < Sec /\ d.secs - k >= 0
      BY <1>0, <1>6, <3>3, <3>4
    <3> QED BY <1>0, <1>a, <1>6, <3>4, <3>5 DEF Over
  <2> QED BY <2>1, <2>2
<1> QED BY <1>6, <1>7, <1>8, <1>a

(* A kernel duration is never of two signs, though its nanoseconds may be    *)
(* many seconds below zero.                                                  *)
LEMMA KernelNew ==
  ASSUME NEW s \in Int, NEW n \in Int
  PROVE  /\ kernel_new(s, n) \in Times /\ Total(kernel_new(s, n)) = s * Sec + n
         /\ ~ Over(kernel_new(s, n)) /\ ~ Under(kernel_new(s, n))
<1> DEFINE d == [secs |-> s, nanos |-> n]
<1>1. d \in Times /\ Total(d) = s * Sec + n
  BY DEF Times, Total, Sec
<1> HIDE DEF d
<1>2. Lifted(d) \in Times /\ Total(Lifted(d)) = Total(d) /\ ~ Over(Lifted(d))
  BY <1>1, LiftedEnds
<1>3. kernel_new(s, n) = Lowered(Lifted(d))
  BY NewIs DEF d
<1> QED BY <1>1, <1>2, <1>3, LoweredEnds


(* Its sign is that of its seconds or, if there are none, its nanoseconds.   *)
LEMMA SignOf ==
  ASSUME NEW d \in Times, ~ Over(d), ~ Under(d)
  PROVE  /\ d.secs \in Int /\ d.nanos \in Int /\ Total(d) \in Int
         /\ d.secs > 0 => Total(d) > 0
         /\ d.secs < 0 => Total(d) < 0
         /\ d.secs = 0 => Total(d) = d.nanos
<1>1. d.secs \in Int /\ d.nanos \in Int /\ Sec \in Nat /\ Sec > 0
  BY Constants DEF Times
<1>2. d.secs * Sec \in Int /\ Total(d) = d.secs * Sec + d.nanos
  BY <1>1, Distributes DEF Total, Sec
<1>3. CASE d.secs > 0
  <2>1. 1 * Sec <= d.secs * Sec
    BY <1>1, <1>3, Monotone
  <2> QED BY <1>1, <1>2, <1>3, <2>1 DEF Under
<1>4. CASE d.secs < 0
  <2>1. d.secs * Sec <= (-1) * Sec
    BY <1>1, <1>4, Monotone
  <2> QED BY <1>1, <1>2, <1>4, <2>1 DEF Over
<1>5. CASE d.secs = 0
  <2>1. d.secs * Sec = 0
    BY <1>1, <1>5, Distributes
  <2> QED BY <1>1, <1>2, <1>5, <2>1
<1> QED BY <1>1, <1>2, <1>3, <1>4, <1>5

DifferenceLaws(a, b) ==
  /\ Total(kernel_sub(a, b)) = Total(a) - Total(b)
  /\ kernel_eq(a, b) <=> Total(a) = Total(b)
  /\ partial_cmp(a, b) = IF Total(a) > Total(b) THEN "Greater"
                         ELSE IF Total(a) < Total(b) THEN "Less" ELSE "Equal"

LEMMA WidthOf ==
  ASSUME NEW x \in Int
  PROVE  i32(x) \in Int /\ (Within(x) => i32(x) = x)
<1> DEFINE w == 2 * I32
           y == x + I32
<1>1. I32 \in Nat /\ w \in Nat /\ w > 0 /\ y \in Int /\ w = I32 + I32
  BY Constants
<1>2. i32(x) = (y % w) - I32
  BY DEF i32
<1> HIDE DEF w, y
<1>3. y % w \in 0..(w - 1)
  BY <1>1, Quotient
<1>4. i32(x) \in Int
  BY <1>1, <1>2, <1>3
<1>5. ASSUME Within(x) PROVE i32(x) = x
  <2>1. y \in 0..(w - 1) /\ y = 0 * w + y
    BY <1>1, <1>5 DEF Within, y
  <2>2. y % w = y
    BY <1>1, <2>1, QuotientIs
  <2> QED BY <1>1, <1>2, <2>2 DEF y
<1> QED BY <1>4, <1>5

LEMMA KernelSums ==
  ASSUME NEW a \in Times, NEW b \in Times
  PROVE  /\ kernel_add(a, b) \in Times
         /\ Within(a.nanos + b.nanos) => Total(kernel_add(a, b)) = Total(a) + Total(b)
<1>1. /\ a.secs \in Int /\ a.nanos \in Int /\ b.secs \in Int /\ b.nanos \in Int /\ Sec \in Nat
  BY Constants DEF Times
<1>2. /\ Total(a) = a.secs * Sec + a.nanos /\ Total(b) = b.secs * Sec + b.nanos
      /\ a.secs * Sec \in Int /\ b.secs * Sec \in Int
      /\ (a.secs + b.secs) * Sec = a.secs * Sec + b.secs * Sec
  BY <1>1, Distributes DEF Total, Sec
<1> DEFINE n == i32(a.nanos + b.nanos)
           s == a.secs + b.secs
<1>3. s \in Int /\ n \in Int /\ (Within(a.nanos + b.nanos) => n = a.nanos + b.nanos)
  <2>1. a.nanos + b.nanos \in Int
    BY <1>1
  <2> QED BY <1>1, <2>1, WidthOf
<1>4. kernel_add(a, b) = kernel_new(s, n)
  BY DEF kernel_add
<1> HIDE DEF s, n
<1>5. kernel_new(s, n) \in Times /\ Total(kernel_new(s, n)) = s * Sec + n
  BY <1>3, KernelNew
<1> QED BY <1>1, <1>2, <1>3, <1>4, <1>5 DEF s

LEMMA KernelDifferences ==
  ASSUME NEW a \in Times, NEW b \in Times, Within(a.nanos - b.nanos)
  PROVE  DifferenceLaws(a, b)
<1> DEFINE dif == kernel_sub(a, b)
<1>1. /\ a.secs \in Int /\ a.nanos \in Int /\ b.secs \in Int /\ b.nanos \in Int /\ Sec \in Nat
  BY Constants DEF Times
<1>2. /\ Total(a) = a.secs * Sec + a.nanos /\ Total(b) = b.secs * Sec + b.nanos
      /\ a.secs * Sec \in Int /\ b.secs * Sec \in Int
      /\ (a.secs - b.secs) * Sec = a.secs * Sec - b.secs * Sec
  BY <1>1, Distributes DEF Total, Sec
<1>4. /\ dif \in Times /\ ~ Over(dif) /\ ~ Under(dif)
      /\ Total(dif) = (a.secs - b.secs) * Sec + (a.nanos - b.nanos)
  <2>1. a.secs - b.secs \in Int /\ a.nanos - b.nanos \in Int
    BY <1>1
  <2>2. i32(a.nanos - b.nanos) = a.nanos - b.nanos
    BY <2>1, WidthOf
  <2> QED BY <2>1, <2>2, KernelNew DEF kernel_sub
<1>6. Total(dif) = Total(a) - Total(b) /\ Total(a) \in Int /\ Total(b) \in Int
  BY <1>1, <1>2, <1>4
<1> HIDE DEF dif
<1>7. /\ dif.secs \in Int /\ dif.nanos \in Int /\ Total(dif) \in Int
      /\ dif.secs > 0 => Total(dif) > 0
      /\ dif.secs < 0 => Total(dif) < 0
      /\ dif.secs = 0 => Total(dif) = dif.nanos
  BY <1>4, SignOf
<1>8. dif = [secs |-> 0, nanos |-> 0] <=> Total(dif) = 0
  <2>1. ASSUME Total(dif) = 0 PROVE dif.secs = 0 /\ dif.nanos = 0
    BY <1>7, <2>1
  <2>2. dif = [secs |-> dif.secs, nanos |-> dif.nanos]
    BY <1>4 DEF Times
  <2>3. ASSUME dif = [secs |-> 0, nanos |-> 0] PROVE Total(dif) = 0
    <3>1. dif.secs = 0 /\ dif.nanos = 0
      BY <2>3
    <3> QED BY <1>7, <3>1
  <2> QED BY <2>1, <2>2, <2>3
<1>9. kernel_eq(a, b) <=> Total(a) = Total(b)
  BY <1>6, <1>8 DEF kernel_eq, dif
<1>10. partial_cmp(a, b) = IF Total(dif) > 0 THEN "Greater" ELSE IF Total(dif) < 0 THEN "Less" ELSE "Equal"
  <2>1. partial_cmp(a, b) = CASE dif.secs > 0 -> "Greater"
                              [] dif.secs < 0 -> "Less"
                              [] dif.secs = 0 /\ dif.nanos > 0 -> "Greater"
                              [] dif.secs = 0 /\ dif.nanos < 0 -> "Less"
                              [] OTHER -> "Equal"
    BY DEF partial_cmp, dif
  <2>2. CASE dif.secs > 0
    BY <2>1, <2>2, <1>7
  <2>3. CASE dif.secs < 0
    BY <2>1, <2>3, <1>7
  <2>4. CASE dif.secs = 0
    BY <2>1, <2>4, <1>7
  <2> QED BY <1>7, <2>2, <2>3, <2>4
<1>11. partial_cmp(a, b) = IF Total(a) > Total(b) THEN "Greater"
                           ELSE IF Total(a) < Total(b) THEN "Less" ELSE "Equal"
  BY <1>6, <1>10
<1> QED BY <1>6, <1>9, <1>11 DEF DifferenceLaws, dif

(* libstd: a whole number of seconds and less than a second is normal form.  *)
LEMMA MadeFits ==
  ASSUME NEW s \in Int, NEW n \in 0..(Sec - 1), NEW total \in Int, total = s * Sec + n
  PROVE  Fits(total, Made(s, n))
<1> DEFINE top == (MaxSecs + 1) * Sec
<1>0. Sec \in Nat /\ Sec > 0 /\ MaxSecs \in Nat /\ s * Sec \in Int /\ n \in Int /\ 0 <= n /\ n <= Sec - 1
  BY Constants, Distributes
<1>1. top \in Int /\ top = MaxSecs * Sec + Sec /\ MaxSecs * Sec \in Int
  BY <1>0, Distributes
<1> HIDE DEF top
<1>2. CASE s \in 0..MaxSecs
  <2>1. 0 * Sec <= s * Sec /\ s * Sec <= MaxSecs * Sec /\ 0 * Sec = 0
    BY <1>0, <1>2, Monotone, Distributes
  <2>2. total \in 0..(top - 1)
    BY <1>0, <1>1, <2>1
  <2>3. Made(s, n) = [secs |-> s, nanos |-> n]
    BY <1>2 DEF Made
  <2>4. Unsigned(Made(s, n)) /\ Total(Made(s, n)) = total
    BY <1>2, <2>3 DEF Unsigned, Total, Sec
  <2> QED BY <2>2, <2>4 DEF Fits, top, Sec
<1>3. CASE s < 0
  <2>1. s * Sec <= (-1) * Sec /\ (-1) * Sec = -Sec
    BY <1>0, <1>3, Monotone, Distributes
  <2>2. total \notin 0..(top - 1)
    BY <1>0, <2>1
  <2>3. Made(s, n) = Panic
    BY <1>3 DEF Made
  <2> QED BY <2>2, <2>3 DEF Fits, top, Sec
<1>4. CASE s > MaxSecs
  <2>1. (MaxSecs + 1) * Sec <= s * Sec
    BY <1>0, <1>4, Monotone
  <2>2. total \notin 0..(top - 1)
    BY <1>0, <1>1, <2>1 DEF top
  <2>3. Made(s, n) = Panic
    BY <1>0, <1>4 DEF Made
  <2> QED BY <2>2, <2>3 DEF Fits, top, Sec
<1> QED BY <1>0, <1>2, <1>3, <1>4

UnsignedTime(a) == a \in Times /\ Unsigned(a)

LEMMA Parts ==
  ASSUME NEW a, UnsignedTime(a)
  PROVE  /\ a.secs \in 0..MaxSecs /\ a.nanos \in 0..(Sec - 1) /\ a = [secs |-> a.secs, nanos |-> a.nanos]
         /\ Total(a) = a.secs * Sec + a.nanos /\ a.secs * Sec \in Int /\ Total(a) \in Int
<1>1. a.secs \in 0..MaxSecs /\ a.nanos \in 0..(Sec - 1) /\ a = [secs |-> a.secs, nanos |-> a.nanos]
  BY DEF UnsignedTime, Unsigned, Times, Sec
<1>2. a.secs \in Int /\ a.nanos \in Int /\ Sec \in Int
  BY <1>1, Constants
<1> QED BY <1>1, <1>2, Distributes DEF Total, Sec

LEMMA NewOfNormal ==
  ASSUME NEW s \in 0..MaxSecs, NEW n \in 0..(Sec - 1)
  PROVE  std_new(s, n) = [secs |-> s, nanos |-> n]
<1>1. n = 0 * Sec + n /\ n \in Int /\ Sec \in Nat /\ Sec > 0 /\ s \in Int
  BY Constants
<1>2. n \div Sec = 0 /\ n % Sec = n
  BY <1>1, QuotientIs
<1>3. s + 0 = s
  BY <1>1
<1> DEFINE M == MaxSecs + 1
<1>4. M \in Nat /\ M > 0 /\ s \in 0..(M - 1) /\ s = 0 * M + s
  BY Constants
<1>5. s % M = s
  <2> HIDE DEF M
  <2> QED BY <1>1, <1>4, QuotientIs
<1> QED BY <1>2, <1>3, <1>5 DEF std_new, Sec

LEMMA SumFits ==
  ASSUME NEW a, NEW b, UnsignedTime(a), UnsignedTime(b)
  PROVE  Fits(Total(a) + Total(b), std_add(a, b))
<1> DEFINE x == a.secs * Sec
           y == b.secs * Sec
           w == (a.secs + b.secs) * Sec
           z == (a.secs + b.secs + 1) * Sec
           n == a.nanos + b.nanos
<1>1. /\ a.secs \in Int /\ a.nanos \in 0..(Sec - 1) /\ b.secs \in Int /\ b.nanos \in 0..(Sec - 1)
      /\ Total(a) = x + a.nanos /\ x \in Int
      /\ Total(b) = y + b.nanos /\ y \in Int
      /\ Sec \in Nat /\ Sec > 0
  BY Parts, Constants
<1>2. w = x + y /\ z = x + y + Sec
  BY <1>1, Distributes
<1> HIDE DEF x, y, w, z
<1>3. CASE n >= Sec
  <2>1. std_add(a, b) = Made(a.secs + b.secs + 1, n - Sec)
    BY <1>3 DEF std_add, Sec
  <2>2. n - Sec \in 0..(Sec - 1) /\ a.secs + b.secs + 1 \in Int
    BY <1>1, <1>3
  <2>3. Total(a) + Total(b) = z + (n - Sec) /\ Total(a) + Total(b) \in Int
    BY <1>1, <1>2
  <2> QED BY <2>1, <2>2, <2>3, MadeFits DEF w, z
<1>4. CASE ~ (n >= Sec)
  <2>1. std_add(a, b) = Made(a.secs + b.secs, n)
    BY <1>4 DEF std_add, Sec
  <2>2. n \in 0..(Sec - 1) /\ a.secs + b.secs \in Int
    BY <1>1, <1>4
  <2>3. Total(a) + Total(b) = w + n /\ Total(a) + Total(b) \in Int
    BY <1>1, <1>2
  <2> QED BY <2>1, <2>2, <2>3, MadeFits DEF w, z
<1> QED BY <1>3, <1>4

LEMMA DifferenceFits ==
  ASSUME NEW a, NEW b, UnsignedTime(a), UnsignedTime(b)
  PROVE  Fits(Total(a) - Total(b), duration_since(a, b))
<1> DEFINE x == a.secs * Sec
           y == b.secs * Sec
           w == (a.secs - b.secs) * Sec
           z == (a.secs - b.secs - 1) * Sec
<1>0. duration_since(a, b) = std_sub(a, b)
  BY Parts, NewOfNormal DEF duration_since, Instant
<1>1. /\ a.secs \in Int /\ a.nanos \in 0..(Sec - 1) /\ b.secs \in Int /\ b.nanos \in 0..(Sec - 1)
      /\ Total(a) = x + a.nanos /\ x \in Int
      /\ Total(b) = y + b.nanos /\ y \in Int
      /\ Sec \in Nat /\ Sec > 0
  BY Parts, Constants
<1>2. w = x - y /\ z = x - y - Sec
  BY <1>1, Distributes
<1> HIDE DEF x, y, w, z
<1>3. CASE a.nanos >= b.nanos
  <2>1. std_sub(a, b) = Made(a.secs - b.secs, a.nanos - b.nanos)
    BY <1>3 DEF std_sub
  <2>2. a.nanos - b.nanos \in 0..(Sec - 1) /\ a.secs - b.secs \in Int
    BY <1>1, <1>3
  <2>3. Total(a) - Total(b) = w + (a.nanos - b.nanos) /\ Total(a) - Total(b) \in Int
    BY <1>1, <1>2
  <2> QED BY <1>0, <2>1, <2>2, <2>3, MadeFits DEF w, z
<1>4. CASE ~ (a.nanos >= b.nanos)
  <2>1. std_sub(a, b) = Made(a.secs - b.secs - 1, a.nanos + Sec - b.nanos)
    BY <1>4 DEF std_sub, Sec
  <2>2. a.nanos + Sec - b.nanos \in 0..(Sec - 1) /\ a.secs - b.secs - 1 \in Int
    BY <1>1, <1>4
  <2>3. Total(a) - Total(b) = z + (a.nanos + Sec - b.nanos) /\ Total(a) - Total(b) \in Int
    BY <1>1, <1>2
  <2> QED BY <1>0, <2>1, <2>2, <2>3, MadeFits DEF w, z
<1> QED BY <1>3, <1>4

LEMMA ProductFits ==
  ASSUME NEW a, UnsignedTime(a), NEW k \in Nat
  PROVE  Fits(Total(a) * k, std_mul(a, k))
<1> DEFINE q == (a.nanos * k) \div Sec
           r == (a.nanos * k) % Sec
<1>1. /\ a.secs \in Int /\ a.nanos \in Int /\ Total(a) = a.secs * Sec + a.nanos /\ a.secs * Sec \in Int
      /\ Sec \in Nat /\ Sec > 0
  BY Parts, Constants
<1>2. a.nanos * k \in Int /\ a.secs * k \in Int
  BY <1>1, Distributes
<1>3. q \in Int /\ r \in 0..(Sec - 1) /\ a.nanos * k = q * Sec + r
  BY <1>1, <1>2, Quotient
<1>4. std_mul(a, k) = Made(a.secs * k + q, r)
  BY DEF std_mul, Sec
<1> HIDE DEF q, r
<1>5. Total(a) * k = (a.secs * Sec) * k + a.nanos * k
  BY <1>1, Distributes
<1>6. (a.secs * Sec) * k = (a.secs * k) * Sec
  BY <1>1, Distributes
<1>7. (a.secs * k + q) * Sec = (a.secs * k) * Sec + q * Sec /\ q * Sec \in Int /\ (a.secs * k) * Sec \in Int
  BY <1>1, <1>2, <1>3, Distributes
<1>8. Total(a) * k = (a.secs * k + q) * Sec + r /\ Total(a) * k \in Int
  BY <1>3, <1>5, <1>6, <1>7
<1> QED BY <1>2, <1>3, <1>4, <1>8, MadeFits


LEMMA CarryLaw ==
  ASSUME NEW a, UnsignedTime(a), NEW f \in 0..MaxFactor
  PROVE  /\ Unsigned(std_new(a.secs, a.nanos + f))
         /\ Total(std_new(a.secs, a.nanos + f)) = (Total(a) + f) % ((MaxSecs + 1) * Sec)
<1> DEFINE M == MaxSecs + 1
           n == a.nanos + f
           q == n \div Sec
           r == n % Sec
           t == a.secs + q
           p == t \div M
           s == t % M
           d == std_new(a.secs, a.nanos + f)
<1>0. /\ a.secs \in Int /\ a.nanos \in Nat /\ Sec \in Nat /\ Sec > 0 /\ M \in Nat /\ M > 0
      /\ f \in Int /\ n \in Int /\ Total(a) = a.secs * Sec + a.nanos /\ MaxSecs \in Nat /\ MaxSecs = M - 1
  BY Parts, Constants
<1>1. q \in Int /\ r \in 0..(Sec - 1) /\ n = q * Sec + r
  BY <1>0, Quotient
<1>2. d = [secs |-> s, nanos |-> r]
  BY DEF std_new, Sec
<1> HIDE DEF q, r, M
<1>3. t \in Int /\ p \in Int /\ s \in 0..(M - 1) /\ t = p * M + s
  <2>1. t \in Int
    BY <1>0, <1>1
  <2> HIDE DEF t
  <2> QED BY <1>0, <2>1, Quotient
<1> HIDE DEF d, p, s
<1>4. d.secs = s /\ d.nanos = r /\ Total(d) = s * Sec + r
  BY <1>2 DEF Total, Sec
<1>5. Unsigned(d)
  BY <1>0, <1>1, <1>3, <1>4 DEF Unsigned, Sec
<1> DEFINE sS == s * Sec
           MS == M * Sec
           X == Total(a) + f
<1>6. sS \in Int /\ MS \in Int /\ p * MS \in Int /\ a.secs * Sec \in Int /\ q * Sec \in Int
  BY <1>0, <1>1, <1>3, Distributes
<1>7. X = t * Sec + r /\ t * Sec \in Int
  <2> DEFINE A == a.secs * Sec
             Q == q * Sec
             T == t * Sec
  <2>1. T = A + Q
    BY <1>0, <1>1, Distributes
  <2>2. A \in Int /\ Q \in Int /\ Total(a) = A + a.nanos /\ a.nanos + f = Q + r
    BY <1>0, <1>1, <1>6
  <2> HIDE DEF A, Q, T
  <2>3. (A + a.nanos) + f = T + r /\ T \in Int
    BY <1>0, <1>1, <2>1, <2>2
  <2> QED BY <2>2, <2>3 DEF T
<1> HIDE DEF t, X
<1>8. t * Sec = p * MS + sS
  <2>1. (p * M + s) * Sec = (p * M) * Sec + s * Sec /\ p * M \in Int
    BY <1>0, <1>3, Distributes
  <2>2. (p * M) * Sec = p * (M * Sec)
    BY <1>0, <1>3, Distributes
  <2> QED BY <1>3, <2>1, <2>2
<1>9. sS + r \in 0..(MS - 1) /\ MS \in Nat /\ MS > 0
  <2>1. 0 * Sec <= s * Sec /\ s * Sec <= (M - 1) * Sec /\ 1 * Sec <= M * Sec
    BY <1>0, <1>3, Monotone
  <2>2. 0 * Sec = 0 /\ 1 * Sec = Sec /\ (M - 1) * Sec = MS - Sec
    BY <1>0, Distributes
  <2> HIDE DEF sS, MS
  <2>3. 0 <= sS /\ sS <= MS - Sec /\ Sec <= MS
    BY <2>1, <2>2 DEF sS, MS
  <2> QED BY <1>0, <1>1, <1>6, <2>3
<1> HIDE DEF sS, MS
<1>10. X = p * MS + (sS + r) /\ X \in Int
  <2> DEFINE pp == p * MS
  <2>1. pp \in Int /\ t * Sec = pp + sS
    BY <1>6, <1>8
  <2> HIDE DEF pp
  <2>2. X = pp + (sS + r) /\ X \in Int
    BY <1>1, <1>6, <1>7, <2>1
  <2> QED BY <2>2 DEF pp
<1>11. X % MS = sS + r
  BY <1>3, <1>9, <1>10, QuotientIs
<1>12. Total(d) = X % MS
  BY <1>4, <1>11 DEF sS
<1> QED BY <1>5, <1>12 DEF d, X, MS, M

(* A number of milliseconds as seconds and nanoseconds.                      *)
Milli == NANOS_PER_MILLI
Per == NANOS_PER_SEC \div NANOS_PER_MILLI

LEMMA Millis ==
  ASSUME NEW ms \in 0..MaxSecs
  PROVE  /\ ms \div Per \in 0..MaxSecs /\ (ms % Per) * Milli \in 0..(Sec - 1)
         /\ ms * Milli = (ms \div Per) * Sec + (ms % Per) * Milli /\ ms * Milli \in Int
<1> DEFINE a == ms \div Per
           b == ms % Per
<1>0. Sec \in Nat /\ Sec > 0 /\ Milli \in Nat /\ Milli > 0 /\ MaxSecs \in Nat /\ ms \in Nat /\ Sec % Milli = 0
  BY Constants, DurationsAssumption DEF Milli, Sec
<1>1. Per \in Nat /\ Sec = Per * Milli
  <2>1. Per \in Nat /\ Sec = Per * Milli + (Sec % Milli)
    BY <1>0, Quotient DEF Per, Milli, Sec
  <2>2. Per * Milli \in Int
    BY <1>0, <2>1, Distributes
  <2> QED BY <1>0, <2>1, <2>2
<1>2. Per > 0
  <2>1. CASE Per = 0
    BY <1>0, <1>1, <2>1, Distributes
  <2> QED BY <1>1, <2>1
<1>3. a \in Nat /\ b \in 0..(Per - 1) /\ ms = a * Per + b
  BY <1>0, <1>1, <1>2, Quotient
<1> HIDE DEF a, b
<1>4. a <= ms
  <2>1. a * 1 <= a * Per
    <3>1. 1 * a <= Per * a
      BY <1>1, <1>2, <1>3, Monotone
    <3> QED BY <1>1, <1>3, <3>1, Distributes
  <2>2. a * 1 = a /\ a * Per \in Int
    BY <1>1, <1>3, Distributes
  <2> QED BY <1>0, <1>1, <1>3, <2>1, <2>2
<1>5. b * Milli \in 0..(Sec - 1)
  <2>1. 0 * Milli <= b * Milli /\ b * Milli <= (Per - 1) * Milli
    BY <1>0, <1>1, <1>3, Monotone
  <2>2. 0 * Milli = 0 /\ (Per - 1) * Milli = Per * Milli - Milli /\ b * Milli \in Int
    BY <1>0, <1>1, <1>3, Distributes
  <2> QED BY <1>0, <1>1, <2>1, <2>2
<1>6. ms * Milli = a * Sec + b * Milli /\ ms * Milli \in Int
  <2>1. (a * Per + b) * Milli = (a * Per) * Milli + b * Milli /\ a * Per \in Int
    BY <1>0, <1>1, <1>3, Distributes
  <2>2. (a * Per) * Milli = a * (Per * Milli)
    BY <1>0, <1>1, <1>3, Distributes
  <2>3. ms * Milli \in Int
    BY <1>0, Distributes
  <2> QED BY <1>1, <1>3, <2>1, <2>2, <2>3
<1> QED BY <1>0, <1>3, <1>4, <1>5, <1>6 DEF a, b

LEMMA MillisFit ==
  ASSUME NEW ms \in 0..MaxSecs
  PROVE  /\ Fits(ms * Milli, from_millis(ms))
         /\ Total(sleep_ms(ms)) = ms * Milli
<1> DEFINE s == ms \div Per
           n == (ms % Per) * Milli
<1>1. s \in 0..MaxSecs /\ n \in 0..(Sec - 1) /\ ms * Milli = s * Sec + n /\ ms * Milli \in Int
  BY Millis
<1>2. s \in Int /\ n \in Int
  BY <1>1, Constants
<1>3. from_millis(ms) = Made(s, n)
  BY DEF from_millis, Per, Milli
<1>4. sleep_ms(ms) = kernel_new(std_new(s, n).secs, std_new(s, n).nanos)
  BY DEF sleep_ms, Per, Milli
<1> HIDE DEF s, n
<1>5. std_new(s, n) = [secs |-> s, nanos |-> n]
  BY <1>1, NewOfNormal
<1>6. sleep_ms(ms) = kernel_new(s, n)
  BY <1>4, <1>5
<1> QED BY <1>1, <1>2, <1>3, <1>6, MadeFits, KernelNew

LEMMA QuotientFits ==
  ASSUME NEW a, UnsignedTime(a), NEW k \in Nat, k > 0
  PROVE  /\ Unsigned(std_div(a, k))
         /\ Total(a) \div k - Total(std_div(a, k)) \in 0..1
<1> DEFINE q == a.secs \div k
           r == a.secs % k
           p == a.nanos \div k
           t == a.nanos % k
           u == (r * Sec) \div k
           v == (r * Sec) % k
<1>0. /\ a.secs \in 0..MaxSecs /\ a.nanos \in 0..(Sec - 1) /\ MaxSecs \in Nat
      /\ a.secs \in Nat /\ a.nanos \in Nat /\ Sec \in Nat /\ Sec > 0
      /\ Total(a) = a.secs * Sec + a.nanos
  BY Parts, Constants
<1>1. q \in Nat /\ r \in 0..(k - 1) /\ a.secs = q * k + r
  BY <1>0, QuotientNat, Zenon
<1>2. p \in Nat /\ t \in 0..(k - 1) /\ a.nanos = p * k + t
  BY <1>0, QuotientNat, Zenon
<1>3. r * Sec \in Nat
  <2> HIDE DEF r
  <2> QED BY <1>0, <1>1
<1>4. u \in Nat /\ v \in 0..(k - 1) /\ r * Sec = u * k + v
  <2> HIDE DEF r
  <2> QED BY <1>3, QuotientNat, Zenon
<1>5. a.secs - q * k = r
  <2> HIDE DEF q, r
  <2>1. q * k \in Int
    BY <1>1, Distributes
  <2> QED BY <1>1, <2>1
<1>6. std_div(a, k) = Made(q, p + u)
  BY <1>5 DEF std_div, Sec
<1> HIDE DEF q, r, p, t, u, v
<1> DEFINE qk == q * k
           pk == p * k
           uk == u * k
           rn == r * Sec
           kn == k * Sec
<1>7. /\ qk \in Int /\ pk \in Int /\ uk \in Int /\ rn \in Int /\ kn \in Int
      /\ a.secs = qk + r /\ a.nanos = pk + t /\ rn = uk + v
  BY <1>0, <1>1, <1>2, <1>3, <1>4, Distributes
<1>8. q <= a.secs
  <2>1. 1 * q <= k * q /\ 1 * q = q /\ k * q = qk
    BY <1>1, Monotone, Distributes
  <2> HIDE DEF qk
  <2> QED BY <1>0, <1>1, <1>7, <2>1
<1>9. p + u <= Sec - 1
  <2>1. rn <= (k - 1) * Sec
    BY <1>0, <1>1, Monotone
  <2>2. (k - 1) * Sec = kn - Sec
    BY <1>0, Distributes
  <2>3. CASE p + u >= Sec
    <3>1. Sec * k <= (p + u) * k
      BY <1>0, <1>2, <1>4, <2>3, Monotone
    <3>2. Sec * k = kn /\ (p + u) * k = pk + uk
      BY <1>0, <1>2, <1>4, Distributes
    <3> HIDE DEF qk, pk, uk, rn, kn
    <3>3. FALSE
      BY <1>0, <1>2, <1>4, <1>7, <2>1, <2>2, <3>1, <3>2
    <3> QED BY <3>3
  <2> QED BY <1>0, <1>2, <1>4, <2>3
<1>10. std_div(a, k) = [secs |-> q, nanos |-> p + u]
  BY <1>0, <1>1, <1>6, <1>8 DEF Made
<1>11. Unsigned(std_div(a, k))
  BY <1>0, <1>1, <1>2, <1>4, <1>8, <1>9, <1>10 DEF Unsigned, Sec
<1> DEFINE e == q * Sec + (p + u)
<1>12. Total(std_div(a, k)) = e
  BY <1>10 DEF Total, Sec
<1>13. e \in Int /\ Total(a) = e * k + (t + v)
  <2> DEFINE qn == q * Sec
             qnk == qn * k
  <2>1. qn \in Int /\ qnk \in Int
    BY <1>0, <1>1, Distributes
  <2>2. qk * Sec = qnk
    BY <1>0, <1>1, Distributes
  <2>3. (qk + r) * Sec = qk * Sec + rn
    BY <1>0, <1>1, <1>7, Distributes
  <2>4. (qn + (p + u)) * k = qnk + (p + u) * k
    BY <1>2, <1>4, <2>1, Distributes
  <2>5. (p + u) * k = pk + uk
    BY <1>2, <1>4, Distributes
  <2>6. Total(a) = (qk + r) * Sec + a.nanos
    BY <1>0, <1>7
  <2>7. e = qn + (p + u)
    OBVIOUS
  <2> HIDE DEF qk, pk, uk, rn, kn, qn, qnk, e
  <2>8. e * k = qnk + (pk + uk)
    BY <2>4, <2>5, <2>7
  <2>9. Total(a) = qnk + rn + a.nanos
    BY <2>2, <2>3, <2>6
  <2>10. qnk + rn + a.nanos = (qnk + (pk + uk)) + (t + v)
    BY <1>1, <1>2, <1>4, <1>7, <2>1
  <2>11. e \in Int
    BY <1>2, <1>4, <2>1, <2>7
  <2> QED BY <2>8, <2>9, <2>10, <2>11
<1> HIDE DEF e
<1>14. e * k \in Int /\ (e + 1) * k = e * k + k /\ Total(a) \in Int
  <2>1. e * k \in Int /\ (e + 1) * k = e * k + k
    BY <1>13, Distributes
  <2> QED BY <1>2, <1>4, <1>13, <2>1
<1>15. CASE t + v < k
  <2>1. t + v \in 0..(k - 1)
    BY <1>2, <1>4, <1>15
  <2>2. Total(a) \div k = e
    BY <1>13, <1>14, <2>1, QuotientIs, Zenon
  <2> QED BY <1>11, <1>12, <1>13, <2>2
<1>16. CASE ~ (t + v < k)
  <2>1. t + v - k \in 0..(k - 1) /\ e + 1 \in Int
    BY <1>2, <1>4, <1>13, <1>16
  <2>2. Total(a) = (e + 1) * k + (t + v - k)
    <3> DEFINE ek == e * k
    <3>1. ek \in Int /\ Total(a) = ek + (t + v) /\ (e + 1) * k = ek + k
      BY <1>13, <1>14
    <3> HIDE DEF ek
    <3> QED BY <1>2, <1>4, <3>1
  <2>3. Total(a) \div k = e + 1
    <3> DEFINE g == e + 1
               h == t + v - k
               w == Total(a)
    <3>1. g \in Int /\ h \in 0..(k - 1) /\ w \in Int /\ w = g * k + h
      BY <1>14, <2>1, <2>2
    <3> HIDE DEF g, h, w
    <3>2. w \div k = g
      BY <3>1, QuotientIs, Zenon
    <3> QED BY <3>2 DEF g, w
  <2>4. (e + 1) - e \in 0..1
    BY <1>13
  <2> QED BY <1>11, <1>12, <2>3, <2>4
<1> QED BY <1>15, <1>16

(***************************************************************************)
(* The invariant: operands are pairs of whole numbers, however far apart   *)
(* their signs.                                                            *)
(***************************************************************************)
DInv == clock \in Times /\ other \in Times /\ factor \in 0..MaxFactor

LEMMA LawsHold ==
  ASSUME DInv
  PROVE  DurationLaws
<1>1. /\ Within(clock.nanos + other.nanos) => Total(kernel_add(clock, other)) = Total(clock) + Total(other)
      /\ Within(clock.nanos - other.nanos) => DifferenceLaws(clock, other)
  BY KernelSums, KernelDifferences DEF DInv
<1>2. ASSUME Unsigned(clock)
      PROVE  /\ Unsigned(std_new(clock.secs, clock.nanos + factor))
             /\ Total(std_new(clock.secs, clock.nanos + factor))
                  = (Total(clock) + factor) % ((MaxSecs + 1) * NANOS_PER_SEC)
             /\ Fits(Total(clock) * factor, std_mul(clock, factor))
             /\ Fits(clock.secs * NANOS_PER_MILLI, from_millis(clock.secs))
             /\ Total(sleep_ms(clock.secs)) = clock.secs * NANOS_PER_MILLI
             /\ factor > 0 => /\ Unsigned(std_div(clock, factor))
                              /\ Total(clock) \div factor - Total(std_div(clock, factor)) \in 0..1
             /\ Unsigned(other) => /\ Fits(Total(clock) + Total(other), std_add(clock, other))
                                   /\ Fits(Total(clock) - Total(other), duration_since(clock, other))
  <2>1. UnsignedTime(clock) /\ factor \in 0..MaxFactor /\ factor \in Nat
    BY <1>2, Constants DEF DInv, UnsignedTime
  <2>2. clock.secs \in 0..MaxSecs
    BY <1>2 DEF Unsigned
  <2>3. Unsigned(other) => UnsignedTime(other)
    BY DEF DInv, UnsignedTime
  <2>4. /\ Unsigned(std_new(clock.secs, clock.nanos + factor))
        /\ Total(std_new(clock.secs, clock.nanos + factor))
             = (Total(clock) + factor) % ((MaxSecs + 1) * NANOS_PER_SEC)
    BY <2>1, CarryLaw DEF Sec
  <2>5. Fits(Total(clock) * factor, std_mul(clock, factor))
    BY <2>1, ProductFits
  <2>6. /\ Fits(clock.secs * NANOS_PER_MILLI, from_millis(clock.secs))
        /\ Total(sleep_ms(clock.secs)) = clock.secs * NANOS_PER_MILLI
    BY <2>2, MillisFit DEF Milli
  <2>7. factor > 0 => /\ Unsigned(std_div(clock, factor))
                      /\ Total(clock) \div factor - Total(std_div(clock, factor)) \in 0..1
    BY <2>1, QuotientFits
  <2>8. Unsigned(other) => /\ Fits(Total(clock) + Total(other), std_add(clock, other))
                           /\ Fits(Total(clock) - Total(other), duration_since(clock, other))
    BY <2>1, <2>3, SumFits, DifferenceFits
  <2> QED BY <2>4, <2>5, <2>6, <2>7, <2>8
<1> QED BY <1>1, <1>2 DEF DurationLaws, DifferenceLaws

LEMMA DurationsBegin ==
  DurationsInit => DInv
<1>1. ASSUME NEW d \in {kernel_new(s, n) : s \in -2..2, n \in Small}
      PROVE  d \in Times
  <2>1. PICK s \in -2..2, n \in Small : d = kernel_new(s, n)
    OBVIOUS
  <2>2. s \in Int /\ n \in Int
    <3>1. -2 * Sec \in Int /\ 2 * Sec \in Int
      BY Constants, Distributes
    <3> QED BY <3>1 DEF Small, Sec
  <2> QED BY <2>1, <2>2, KernelNew
<1> QED BY <1>1 DEF DurationsInit, DInv

LEMMA DurationsGoOn ==
  DInv /\ [Tick]_durationVars => DInv'
<1>1. ASSUME DInv, Tick PROVE DInv'
  BY <1>1, KernelSums DEF DInv, Tick
<1> QED BY <1>1 DEF DInv, durationVars

(* The arithmetic of both Duration types is that of the times they stand     *)
(* for, whatever number of nanoseconds makes a second (time.rs): sums,       *)
(* differences and comparisons of the kernel's for all signs, as long as     *)
(* the nanoseconds do not wrap in their i32; libstd's new modulo the range   *)
(* of its seconds, its operators exact or a panic.                           *)
THEOREM DurationsKeepLaws == DurationsSpec => []DurationLaws
<1>1. DurationsInit => DInv
  BY DurationsBegin
<1>2. DInv /\ [Tick]_durationVars => DInv'
  BY DurationsGoOn
<1>3. DInv => DurationLaws
  BY LawsHold
<1> QED BY <1>1, <1>2, <1>3, PTL DEF DurationsSpec
==============================================================================
