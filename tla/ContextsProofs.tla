--------------------------- MODULE ContextsProofs ---------------------------
(***************************************************************************)
(* TLAPS proofs about Contexts and ContextsClose: the safety invariants    *)
(* and action properties of the process core hold for any number of        *)
(* contexts, any pid limit and any sleep, by the inductive invariant Inv;  *)
(* calls to a scheme are accounted for, and stacks stay with their         *)
(* contexts, by TidyInv.  Both rest on Sched, the scheduler's part.        *)
(***************************************************************************)
EXTENDS ContextsClose, FiniteSetTheorems, TLAPS

(* kidle is the head of the list for ever and never blocks, so no search     *)
(* goes past index 0; no address is in the list twice.                       *)
ListInv ==
  /\ Len(inner) >= 1 /\ inner[1] = KIdle
  /\ \A j, k \in 1..Len(inner) : inner[j] = inner[k] => j = k
  /\ pc[KIdle] = "idle" /\ ~ blocked[KIdle]

(* The search only meets indices behind current_i, and then 0.               *)
CursorInv ==
  /\ mode = "run" => /\ i < Len(inner) /\ running = At(i)
                     /\ ~ blocked[running] /\ ~ exited[running]
  /\ mode = "search" => /\ current_i < Len(inner) /\ running = At(current_i)
                        /\ i <= Len(inner) /\ (i = 0 \/ current_i < i)
  /\ \A c \in Live : regs[c] = c

(* Where a context is determines its flags; an unused address is clean.      *)
FlagInv ==
  /\ \A c \in Ptr : exited[c] <=> pc[c] = "exit"
  /\ \A c \in Ptr \ Live : pc[c] = "free" /\ ~ blocked[c]
  /\ \A c \in Live : pc[c] # "free"

(* A kexec thread and the context it works for belong to each other.         *)
ExecInv ==
  /\ \A c \in Live : pc[c] = "kexec" =>
       target[c] \in Live /\ pc[target[c]] = "exec"
  /\ \A c, d \in Live : pc[c] = "kexec" /\ pc[d] = "kexec"
                        /\ target[c] = target[d] => c = d

(* A vfork parent is blocked, has one vfork child, and neither sleeps nor    *)
(* waits for a status.                                                       *)
VforkInv ==
  /\ \A c \in Live : vfork[c] # NoCtx =>
       /\ vfork[c] \in Live /\ blocked[vfork[c]] /\ wake[vfork[c]] = NoWake
       /\ pc[vfork[c]] = "user"
  /\ \A c, d \in Live : vfork[c] # NoCtx /\ vfork[c] = vfork[d] => c = d

(* A condition's list holds its owner exactly while the owner is blocked in  *)
(* waitpid, and then the status it waits for is not there.                   *)
WaitInv ==
  /\ \A c \in Ptr : waiters[c] \subseteq {c}
  /\ \A c \in Ptr : c \in waiters[c] => /\ pc[c] = "waitpid" /\ blocked[c]
                                        /\ wake[c] = NoWake
  /\ \A c \in Ptr : pc[c] = "waitpid" /\ blocked[c] =>
       c \in waiters[c] /\ waitkey[c] \notin Keys(statuses[c])
  /\ \A c \in Ptr : pc[c] = "waitpid" => wake[c] = NoWake
  /\ \A c \in Ptr : wake[c] # NoWake => pc[c] = "user" /\ blocked[c]

(* Pids are unique, and parents stand before their children in the list.     *)
PidInv ==
  /\ \A c \in Live : pid[c] > 0
  /\ \A c, d \in Live : pid[c] = pid[d] => c = d
  /\ \A k \in 1..Len(inner) : ppid[inner[k]] # 0 =>
       \E j \in 1..(k - 1) : /\ ~ exited[inner[j]]
                             /\ pid[inner[j]] = ppid[inner[k]]
  /\ \A c \in Live : exited[c] => statuses[c] = {}

Inv == /\ TypeOK /\ ListInv /\ CursorInv /\ FlagInv /\ ExecInv /\ VforkInv
       /\ WaitInv /\ PidInv

(* The part of the invariant that is about the list, the search and kexec    *)
(* threads.  It does not depend on what else contexts may be doing, so that  *)
(* ContextsClose keeps it as well.                                           *)
AllPCs == PCs \cup {"open", "close", "serve"}
Sched ==
  /\ inner \in Seq(Ptr) /\ i \in Nat /\ current_i \in Nat
  /\ mode \in {"run", "search"} /\ running \in Ptr
  /\ blocked \in [Ptr -> BOOLEAN] /\ exited \in [Ptr -> BOOLEAN]
  /\ regs \in [Ptr -> Ptr] /\ pc \in [Ptr -> AllPCs]
  /\ target \in [Ptr -> Ptr \cup {NoCtx}]
  /\ ListInv /\ CursorInv /\ FlagInv /\ ExecInv

-----------------------------------------------------------------------------
(* What ContextManager::push does to the list.                               *)
LEMMA AppendFacts ==
  ASSUME NEW S, NEW s \in Seq(S), NEW e \in S
  PROVE  /\ Append(s, e) \in Seq(S) /\ Len(Append(s, e)) = Len(s) + 1
         /\ \A k \in 1..Len(s) : Append(s, e)[k] = s[k]
         /\ Append(s, e)[Len(s) + 1] = e
  OBVIOUS

(* What inner.remove(i) does to the list.                                    *)
LEMMA WithoutFacts ==
  ASSUME NEW S, NEW s \in Seq(S), NEW k \in 1..Len(s)
  PROVE  /\ Without(s, k) \in Seq(S) /\ Len(Without(s, k)) = Len(s) - 1
         /\ \A j \in 1..(Len(s) - 1) :
              Without(s, k)[j] = IF j < k THEN s[j] ELSE s[j + 1]
<1>1. Len(s) - 1 \in Nat
  OBVIOUS
<1>2. Without(s, k) \in [1..(Len(s) - 1) -> S]
  BY <1>1 DEF Without
<1> QED
  BY <1>1, <1>2 DEF Without

(* Init establishes the invariant.                                           *)
LEMMA InitInv == Init => Inv
<1> SUFFICES ASSUME Init PROVE Inv
  OBVIOUS
<1> USE PtrAssumption, BoundAssumption DEF Init
<1>1. TypeOK
  BY DEF TypeOK, PCs, NoWake
<1>2. inner \in Seq(Ptr) /\ Len(inner) = 2 /\ inner[1] = KIdle /\ inner[2] = KInit
  OBVIOUS
<1>3. Live = {KIdle, KInit}
  BY <1>2 DEF Live
<1>4. ListInv
  BY <1>2 DEF ListInv
<1>5. CursorInv
  BY <1>2, <1>3 DEF CursorInv, At
<1>6. FlagInv
  BY <1>3 DEF FlagInv
<1>7. ExecInv /\ VforkInv /\ WaitInv
  BY <1>3 DEF ExecInv, VforkInv, WaitInv, NoWake
<1>8. PidInv
  BY <1>2, <1>3 DEF PidInv
<1> QED
  BY <1>1, <1>4, <1>5, <1>6, <1>7, <1>8 DEF Inv

-----------------------------------------------------------------------------
(* The facts about a step that every part of the proof uses: the context on  *)
(* the processor, and the list after a push or a removal.                    *)

(* The contexts of the list are at addresses.                                *)
LEMMA SchedLive ==
  ASSUME Sched
  PROVE  Live \subseteq Ptr
<1>1. inner \in Seq(Ptr)
  BY DEF Sched
<1> QED
  BY <1>1 DEF Live

(* In mode "run" the processor is with a context of the list that is neither *)
(* blocked nor exited, and it is the one at index i.                         *)
LEMMA SchedRun ==
  ASSUME Sched, NEW p, NEW where, InKernel(p, where)
  PROVE  /\ p \in Live /\ p \in Ptr /\ p = running /\ p = At(i)
         /\ i + 1 \in 1..Len(inner) /\ ~ blocked[p] /\ ~ exited[p]
<1>1. i < Len(inner) /\ running = At(i) /\ p = running
  BY DEF Sched, CursorInv, InKernel
<1>2. i + 1 \in 1..Len(inner) /\ p \in Ptr
  BY <1>1 DEF Sched
<1>3. ~ blocked[p] /\ ~ exited[p]
  BY DEF Sched, CursorInv, InKernel
<1> QED
  BY <1>1, <1>2, <1>3 DEF At, Live

(* push adds one address to the list.                                        *)
LEMMA SchedPush ==
  ASSUME Sched, NEW c \in Ptr \ Live, inner' = Append(inner, c)
  PROVE  /\ Live' = Live \cup {c} /\ inner' \in Seq(Ptr)
         /\ Len(inner') = Len(inner) + 1 /\ inner'[Len(inner) + 1] = c
         /\ \A k \in 1..Len(inner) : inner'[k] = inner[k]
         /\ Len(inner) \in Nat
<1>1. inner \in Seq(Ptr)
  BY DEF Sched
<1>2. /\ inner' \in Seq(Ptr) /\ Len(inner') = Len(inner) + 1
      /\ inner'[Len(inner) + 1] = c
      /\ \A k \in 1..Len(inner) : inner'[k] = inner[k]
  BY <1>1, AppendFacts
<1> QED
  BY <1>1, <1>2 DEF Live

(* clean only removes an exited context that stands behind current_i, so     *)
(* neither the running context nor kidle.                                    *)
LEMMA SchedRemove ==
  ASSUME Sched, SearchClean
  PROVE  /\ At(i) \in Live /\ At(i) \in Ptr /\ exited[At(i)]
         /\ At(i) # running \/ i = current_i
         /\ i + 1 \in 2..Len(inner) /\ current_i < i /\ i <= Len(inner) - 1
         /\ inner' \in Seq(Ptr) /\ Len(inner') = Len(inner) - 1
         /\ \A j \in 1..(Len(inner) - 1) :
              inner'[j] = IF j < i + 1 THEN inner[j] ELSE inner[j + 1]
         /\ Live' = Live \ {At(i)}
<1>1. inner \in Seq(Ptr) /\ i \in Nat /\ i < Len(inner) /\ exited[At(i)]
  BY DEF Sched, SearchClean
<1>2. ~ exited[KIdle] /\ inner[1] = KIdle
  BY PtrAssumption DEF Sched, FlagInv, ListInv
<1>3. i # 0
  BY <1>1, <1>2 DEF At
<1>4. current_i < i /\ current_i \in Nat /\ running = At(current_i)
  BY <1>3 DEF Sched, CursorInv, SearchClean
<1>5. i + 1 \in 1..Len(inner) /\ inner' = Without(inner, i + 1)
  BY <1>1 DEF SearchClean, Removed
<1>6. /\ inner' \in Seq(Ptr) /\ Len(inner') = Len(inner) - 1
      /\ \A j \in 1..(Len(inner) - 1) :
           inner'[j] = IF j < i + 1 THEN inner[j] ELSE inner[j + 1]
  BY <1>1, <1>5, WithoutFacts
<1>7. At(i) # running
  BY <1>1, <1>4 DEF Sched, ListInv, At
<1>8. Live' = Live \ {At(i)}
  <2>1. \A j, k \in 1..Len(inner) : inner[j] = inner[k] => j = k
    BY DEF Sched, ListInv
  <2>2. Live' \subseteq Live \ {At(i)}
    <3>1. SUFFICES ASSUME NEW j \in 1..Len(inner') PROVE inner'[j] \in Live \ {At(i)}
      BY DEF Live
    <3>2. j \in 1..(Len(inner) - 1) /\ Len(inner) \in Nat
      BY <1>1, <1>6
    <3>3. PICK k \in 1..Len(inner) : k # i + 1 /\ inner'[j] = inner[k]
      <4>1. CASE j < i + 1
        <5>1. j \in 1..Len(inner) /\ j # i + 1 /\ inner'[j] = inner[j]
          BY <1>1, <1>6, <3>2, <4>1
        <5> QED
          BY <5>1
      <4>2. CASE ~ (j < i + 1)
        <5>1. j + 1 \in 1..Len(inner) /\ j + 1 # i + 1 /\ inner'[j] = inner[j + 1]
          BY <1>1, <1>6, <3>2, <4>2
        <5> QED
          BY <5>1
      <4> QED
        BY <4>1, <4>2
    <3>4. inner[k] # inner[i + 1]
      BY <1>5, <2>1, <3>3
    <3> QED
      BY <3>3, <3>4 DEF Live, At
  <2>3. ASSUME NEW k \in 1..Len(inner), inner[k] # At(i) PROVE inner[k] \in Live'
    <3>1. k # i + 1
      BY <2>3 DEF At
    <3>2. CASE k < i + 1
      BY <1>1, <1>6, <3>2 DEF Live
    <3>3. CASE k > i + 1
      <4>1. k - 1 \in 1..(Len(inner) - 1) /\ ~ (k - 1 < i + 1)
        BY <1>1, <3>3
      <4>2. inner'[k - 1] = inner[k]
        BY <1>1, <1>6, <4>1
      <4> QED
        BY <1>6, <4>1, <4>2 DEF Live
    <3> QED
      BY <1>1, <3>1, <3>2, <3>3
  <2> QED
    BY <2>2, <2>3 DEF Live
<1>9. At(i) \in Live /\ At(i) \in Ptr
  BY <1>1, <1>5 DEF Live, At
<1> QED
  BY <1>1, <1>3, <1>4, <1>6, <1>7, <1>8, <1>9

(* What the scheduler needs is part of Inv.                                  *)
LEMMA InvSched == Inv => Sched
<1> SUFFICES ASSUME Inv PROVE Sched
  OBVIOUS
<1>1. pc \in [Ptr -> AllPCs]
  BY DEF Inv, TypeOK, AllPCs
<1> QED
  BY <1>1 DEF Inv, TypeOK, Sched

(* The list, in a state of Inv.                                              *)
LEMMA LiveFacts ==
  ASSUME Inv
  PROVE  Live \subseteq Ptr
  BY InvSched, SchedLive

(* The context on the processor, in a state of Inv.                          *)
LEMMA RunFacts ==
  ASSUME Inv, NEW p, NEW where, InKernel(p, where)
  PROVE  /\ p \in Live /\ p \in Ptr /\ p = running /\ p = At(i)
         /\ i + 1 \in 1..Len(inner) /\ ~ blocked[p] /\ ~ exited[p]
  BY InvSched, SchedRun

(* A push, in a state of Inv.                                                *)
LEMMA PushFacts ==
  ASSUME Inv, NEW c \in Ptr \ Live, inner' = Append(inner, c)
  PROVE  /\ Live' = Live \cup {c} /\ inner' \in Seq(Ptr)
         /\ Len(inner') = Len(inner) + 1 /\ inner'[Len(inner) + 1] = c
         /\ \A k \in 1..Len(inner) : inner'[k] = inner[k]
         /\ Len(inner) \in Nat
  BY InvSched, SchedPush

(* A removal, in a state of Inv.                                             *)
LEMMA RemoveFacts ==
  ASSUME Inv, SearchClean
  PROVE  /\ At(i) \in Live /\ At(i) \in Ptr /\ exited[At(i)]
         /\ At(i) # running \/ i = current_i
         /\ i + 1 \in 2..Len(inner) /\ current_i < i /\ i <= Len(inner) - 1
         /\ inner' \in Seq(Ptr) /\ Len(inner') = Len(inner) - 1
         /\ \A j \in 1..(Len(inner) - 1) :
              inner'[j] = IF j < i + 1 THEN inner[j] ELSE inner[j + 1]
         /\ Live' = Live \ {At(i)}
  BY InvSched, SchedRemove

(* The type invariant is preserved by every step.                            *)
LEMMA NextTypeOK == Inv /\ [Next]_vars => TypeOK'
<1> SUFFICES ASSUME Inv, [Next]_vars PROVE TypeOK'
  OBVIOUS
<1>0. TypeOK
  BY DEF Inv
<1>1. ASSUME NEW n, n \in next_pid..(next_pid + Len(inner)), AllocPid(n)
      PROVE  n \in Nat /\ next_pid' \in 1..(PidLimit - 1)
  BY <1>0, <1>1, BoundAssumption DEF AllocPid, TypeOK
<1>a. 0..MaxSleep \subseteq -1..MaxSleep /\ -1 \in -1..MaxSleep
  BY BoundAssumption
<1>b. \A w \in -1..MaxSleep : w > 0 => w - 1 \in -1..MaxSleep
  BY BoundAssumption
<1>c. WaitKeys \subseteq Nat
  BY BoundAssumption
<1> USE DEF TypeOK, PCs, NoWake
<1>2. ASSUME NEW p \in Ptr, NEW c \in Ptr, Clone(p, c) PROVE TypeOK'
  <2>1. PICK n \in next_pid..(next_pid + Len(inner)) :
          AllocPid(n) /\ NewContext(c, n, pid[p], NoCtx, "user", NoCtx)
    BY <1>2 DEF Clone
  <2>2. n \in Nat /\ next_pid' \in 1..(PidLimit - 1) /\ inner' \in Seq(Ptr)
    BY <2>1, <1>1, PushFacts DEF NewContext
  <2>3. UNCHANGED <<sched, blocked, exited, wake, statuses, waiters, waitkey>>
    BY <1>2 DEF Clone
  <2> QED
    BY <1>0, <2>1, <2>2, <2>3 DEF NewContext, sched
<1>3. ASSUME NEW p \in Ptr, NEW c \in Ptr, CloneVfork(p, c) PROVE TypeOK'
  <2>1. PICK n \in next_pid..(next_pid + Len(inner)) :
          AllocPid(n) /\ NewContext(c, n, pid[p], p, "user", NoCtx)
    BY <1>3 DEF CloneVfork
  <2>2. n \in Nat /\ next_pid' \in 1..(PidLimit - 1) /\ inner' \in Seq(Ptr)
    BY <2>1, <1>1, PushFacts DEF NewContext
  <2>3. StartSwitch /\ blocked' = [blocked EXCEPT ![p] = TRUE]
        /\ UNCHANGED <<running, exited, wake, statuses, waiters, waitkey>>
    BY <1>3 DEF CloneVfork
  <2>4. blocked' \in [Ptr -> BOOLEAN] /\ i' \in Nat /\ current_i' \in Nat
    BY <1>0, <2>3 DEF StartSwitch
  <2>5. pid' \in [Ptr -> Nat] /\ ppid' \in [Ptr -> Nat] /\ pc' \in [Ptr -> PCs]
    BY <1>0, <2>1, <2>2 DEF NewContext
  <2> QED
    BY <1>0, <2>1, <2>2, <2>3, <2>4, <2>5 DEF NewContext, StartSwitch
<1>4. ASSUME NEW p \in Ptr, NEW c \in Ptr, Execve(p, c) PROVE TypeOK'
  <2>1. PICK n \in next_pid..(next_pid + Len(inner)) :
          AllocPid(n) /\ NewContext(c, n, 0, NoCtx, "kexec", p)
    BY <1>4 DEF Execve
  <2>2. n \in Nat /\ next_pid' \in 1..(PidLimit - 1) /\ inner' \in Seq(Ptr)
    BY <2>1, <1>1, PushFacts DEF NewContext
  <2>3. StartSwitch
        /\ UNCHANGED <<running, blocked, exited, wake, statuses, waiters, waitkey>>
    BY <1>4 DEF Execve
  <2>4. i' \in Nat /\ current_i' \in Nat
    BY <1>0, <2>3 DEF StartSwitch
  <2>5. pid' \in [Ptr -> Nat] /\ ppid' \in [Ptr -> Nat] /\ pc' \in [Ptr -> PCs]
    BY <1>0, <2>1, <2>2 DEF NewContext
  <2> QED
    BY <1>0, <2>1, <2>2, <2>3, <2>4, <2>5 DEF NewContext, StartSwitch
<1>d. ASSUME NEW p \in Ptr, NEW k \in Nat, At(i) \in Ptr, Receive(p, k),
             UNCHANGED <<inner, next_pid, pid, ppid, exited, vfork, wake, regs,
                         target>>
      PROVE  TypeOK'
  <2>1. CASE TakeStatus(p, k)
    BY <1>0, <1>d, <2>1 DEF TakeStatus, sched
  <2>2. CASE WaitStatus(p, k)
    <3>1. waiters' \in [Ptr -> SUBSET Ptr] /\ blocked' \in [Ptr -> BOOLEAN]
      BY <1>0, <1>d, <2>2 DEF WaitStatus
    <3>2. i' \in Nat /\ current_i' \in Nat /\ mode' \in {"run", "search"}
      BY <1>0, <2>2 DEF WaitStatus, StartSwitch
    <3>3. pc' \in [Ptr -> PCs] /\ waitkey' \in [Ptr -> Nat]
      BY <1>0, <2>2 DEF WaitStatus
    <3> QED
      BY <1>0, <1>d, <2>2, <3>1, <3>2, <3>3 DEF WaitStatus
  <2> QED
    BY <1>d, <2>1, <2>2 DEF Receive
<1>5. ASSUME NEW p \in Ptr, NEW k \in WaitKeys, Waitpid(p, k) PROVE TypeOK'
  BY <1>5, <1>c, <1>d, RunFacts DEF Waitpid
<1>6. ASSUME NEW p \in Ptr, WaitpidRetry(p) PROVE TypeOK'
  <2>1. waitkey[p] \in Nat
    BY <1>0
  <2> QED
    BY <1>6, <1>d, <2>1, RunFacts DEF WaitpidRetry
<1>7. ASSUME NEW p \in Ptr, NEW t \in 0..MaxSleep, Nanosleep(p, t) PROVE TypeOK'
  <2>1. wake' \in [Ptr -> -1..MaxSleep] /\ blocked' \in [Ptr -> BOOLEAN]
    BY <1>0, <1>7, <1>a DEF Nanosleep
  <2>2. /\ i' \in Nat /\ current_i' \in Nat /\ mode' \in {"run", "search"}
        /\ UNCHANGED <<inner, next_pid, running, pid, ppid, exited, vfork, regs,
                       statuses, waiters, pc, waitkey, target>>
    BY <1>0, <1>7 DEF Nanosleep, StartSwitch
  <2> QED
    BY <1>0, <2>1, <2>2
<1>8. ASSUME NEW p \in Ptr, Exit(p) PROVE TypeOK'
  <2>1. exited' \in [Ptr -> BOOLEAN] /\ blocked' \in [Ptr -> BOOLEAN]
    BY <1>0, <1>8 DEF Exit, Notified
  <2>2. ASSUME NEW v \in Status, NEW c \in Ptr PROVE Bequeathed(p, v)[c] \in SUBSET (Nat \X Status)
    BY <1>0 DEF Bequeathed, Inserted
  <2>3. statuses' \in [Ptr -> SUBSET (Nat \X Status)]
    BY <1>8, <2>2 DEF Exit, Bequeathed
  <2>4. waiters' \in [Ptr -> SUBSET Ptr]
    BY <1>0, <1>8 DEF Exit
  <2>5. ppid' \in [Ptr -> Nat] /\ pc' \in [Ptr -> PCs]
    BY <1>0, <1>8 DEF Exit, Reparented
  <2>6. i' \in Nat /\ current_i' \in Nat /\ mode' \in {"run", "search"}
    BY <1>0, <1>8 DEF Exit, StartSwitch
  <2> QED
    BY <1>0, <1>8, <2>1, <2>3, <2>4, <2>5, <2>6 DEF Exit
<1>9. ASSUME NEW p \in Ptr, Yield(p) \/ IdleSwitch(p) PROVE TypeOK'
  <2>1. /\ i' \in Nat /\ current_i' \in Nat /\ mode' \in {"run", "search"}
        /\ UNCHANGED <<inner, next_pid, running, pid, ppid, blocked, exited,
                       vfork, wake, regs, statuses, waiters, pc, waitkey, target>>
    BY <1>0, <1>9 DEF Yield, IdleSwitch, StartSwitch
  <2> QED
    BY <1>0, <2>1
<1>10. ASSUME NEW p \in Ptr, Timer(p) PROVE TypeOK'
  <2>1. wake' \in [Ptr -> -1..MaxSleep]
    BY <1>0, <1>10, <1>b DEF Timer
  <2>2. /\ i' \in Nat /\ current_i' \in Nat /\ mode' \in {"run", "search"}
        /\ UNCHANGED <<inner, next_pid, running, pid, ppid, blocked, exited,
                       vfork, regs, statuses, waiters, pc, waitkey, target>>
    BY <1>0, <1>10 DEF Timer, StartSwitch
  <2> QED
    BY <1>0, <2>1, <2>2
<1>11. ASSUME NEW p \in Ptr, KExec(p) PROVE TypeOK'
  <2>1. /\ regs' \in [Ptr -> Ptr] /\ pc' \in [Ptr -> PCs]
        /\ vfork' \in [Ptr -> Ptr \cup {NoCtx}]
    BY <1>0, <1>11 DEF KExec
  <2>2. blocked' \in [Ptr -> BOOLEAN] /\ target' \in [Ptr -> Ptr \cup {NoCtx}]
    BY <1>0, <1>11 DEF KExec
  <2>3. UNCHANGED <<inner, sched, next_pid, pid, ppid, exited, wake, statuses,
                    waiters, waitkey>>
    BY <1>11 DEF KExec
  <2> QED
    BY <1>0, <2>1, <2>2, <2>3 DEF sched
<1>12. CASE SearchWrap \/ SearchSkip
  <2>1. i' \in Nat
    BY <1>0, <1>12 DEF SearchWrap, SearchSkip
  <2> QED
    BY <1>0, <1>12, <2>1 DEF SearchWrap, SearchSkip
<1>13. CASE SearchClean
  <2>1. inner' \in Seq(Ptr)
    BY <1>13, RemoveFacts
  <2>2. /\ blocked' \in [Ptr -> BOOLEAN] /\ exited' \in [Ptr -> BOOLEAN]
        /\ vfork' \in [Ptr -> Ptr \cup {NoCtx}]
        /\ pid' \in [Ptr -> Nat] /\ ppid' \in [Ptr -> Nat]
    BY <1>0, <1>13 DEF SearchClean, Removed
  <2>3. /\ wake' \in [Ptr -> -1..MaxSleep] /\ statuses' \in [Ptr -> SUBSET (Nat \X Status)]
        /\ waiters' \in [Ptr -> SUBSET Ptr] /\ pc' \in [Ptr -> PCs]
    BY <1>0, <1>13, <1>a DEF SearchClean, Removed
  <2>4. waitkey' \in [Ptr -> Nat] /\ target' \in [Ptr -> Ptr \cup {NoCtx}]
    BY <1>0, <1>13 DEF SearchClean, Removed
  <2>5. UNCHANGED <<sched, next_pid, regs>>
    BY <1>13 DEF SearchClean
  <2> QED
    BY <1>0, <2>1, <2>2, <2>3, <2>4, <2>5 DEF sched
<1>14. CASE SearchStop
  <2>0. i + 1 \in 1..Len(inner)
    BY <1>0, <1>14 DEF SearchStop, SwitchTo
  <2>a. inner \in Seq(Ptr) /\ regs \in [Ptr -> Ptr]
    BY <1>0
  <2>1. At(i) \in Ptr /\ regs[At(i)] \in Ptr
    BY <2>0, <2>a DEF At
  <2>2. blocked' \in [Ptr -> BOOLEAN] /\ wake' \in [Ptr -> -1..MaxSleep]
    BY <1>0, <1>14, <1>a DEF SearchStop, SwitchTo
  <2> QED
    BY <1>0, <1>14, <2>1, <2>2 DEF SearchStop, SwitchTo
<1>15. CASE UNCHANGED vars
  BY <1>0, <1>15 DEF vars
<1> QED
  BY <1>2, <1>3, <1>4, <1>5, <1>6, <1>7, <1>8, <1>9, <1>10, <1>11, <1>12,
     <1>13, <1>14, <1>15 DEF Next, Search

(* kidle keeps its place, its state and its flags.                           *)
LEMMA NextListInv == Sched /\ [Next]_vars => ListInv'
<1> SUFFICES ASSUME Sched, [Next]_vars PROVE ListInv'
  OBVIOUS
<1>0. /\ ListInv /\ inner \in Seq(Ptr) /\ KIdle \in Ptr
      /\ pc \in [Ptr -> AllPCs] /\ blocked \in [Ptr -> BOOLEAN]
  BY PtrAssumption DEF Sched
<1> USE DEF ListInv
<1>1. ASSUME NEW p, NEW where, InKernel(p, where), where # "idle"
      PROVE  p # KIdle
  BY <1>0, <1>1 DEF InKernel
<1>2. ASSUME NEW p \in Ptr, NEW c \in Ptr, Clone(p, c) \/ CloneVfork(p, c) \/ Execve(p, c)
      PROVE  ListInv'
  <2>1. c \in Ptr \ Live /\ inner' = Append(inner, c)
    BY <1>2 DEF Clone, CloneVfork, Execve, NewContext
  <2>2. c # KIdle /\ \A k \in 1..Len(inner) : inner[k] # c
    BY <1>0, <2>1 DEF Live
  <2>3. p # KIdle /\ p = running
    BY <1>1, <1>2 DEF Clone, CloneVfork, Execve, InKernel
  <2>4. pc'[KIdle] = "idle"
    BY <1>0, <1>2, <2>2, <2>3 DEF Clone, CloneVfork, Execve, NewContext
  <2>5. ~ blocked'[KIdle]
    BY <1>0, <1>2, <2>3 DEF Clone, CloneVfork, Execve
  <2>6. \A j, k \in 1..Len(inner') : inner'[j] = inner'[k] => j = k
    BY <1>0, <2>1, <2>2, SchedPush
  <2> QED
    BY <1>0, <2>1, <2>4, <2>5, <2>6, SchedPush
<1>3. ASSUME NEW p \in Ptr, NEW k, Waitpid(p, k) \/ (WaitpidRetry(p) /\ k = waitkey[p])
      PROVE  ListInv'
  <2>1. p # KIdle /\ At(i) = p /\ Receive(p, k) /\ inner' = inner
    BY <1>1, <1>3, SchedRun DEF Waitpid, WaitpidRetry
  <2>2. pc'[KIdle] = "idle" /\ ~ blocked'[KIdle]
    BY <1>0, <2>1 DEF Receive, TakeStatus, WaitStatus
  <2> QED
    BY <1>0, <2>1, <2>2
<1>4. ASSUME NEW p \in Ptr, NEW t, Nanosleep(p, t) PROVE ListInv'
  <2>1. p # KIdle
    BY <1>1, <1>4 DEF Nanosleep
  <2> QED
    BY <1>0, <1>4, <2>1 DEF Nanosleep
<1>5. ASSUME NEW p \in Ptr, Exit(p) PROVE ListInv'
  <2>1. p # KIdle
    BY <1>1, <1>5 DEF Exit
  <2> QED
    BY <1>0, <1>5, <2>1 DEF Exit, Notified
<1>6. ASSUME NEW p \in Ptr, Yield(p) \/ IdleSwitch(p) \/ Timer(p) PROVE ListInv'
  BY <1>0, <1>6 DEF Yield, IdleSwitch, Timer
<1>7. ASSUME NEW p \in Ptr, KExec(p) PROVE ListInv'
  <2>1. p # KIdle /\ p \in Live /\ pc[p] = "kexec"
    BY <1>1, <1>7, SchedRun DEF KExec, InKernel
  <2>2. target[p] # KIdle
    BY <1>0, <2>1 DEF Sched, ExecInv
  <2>3. pc'[KIdle] = "idle" /\ ~ blocked'[KIdle]
    BY <1>0, <1>7, <2>1, <2>2 DEF KExec
  <2> QED
    BY <1>0, <1>7, <2>3 DEF KExec
<1>8. CASE SearchWrap \/ SearchSkip
  BY <1>0, <1>8 DEF SearchWrap, SearchSkip
<1>9. CASE SearchStop
  BY <1>0, <1>9 DEF SearchStop, SwitchTo
<1>10. CASE SearchClean
  <2>1. At(i) # KIdle
    BY <1>0, <1>10, SchedRemove DEF At
  <2>2. pc'[KIdle] = "idle" /\ ~ blocked'[KIdle]
    BY <1>0, <1>10, <2>1 DEF SearchClean, Removed, At
  <2>3. Len(inner') >= 1 /\ inner'[1] = KIdle
    <3>1. i \in Nat /\ Len(inner) \in Nat
      BY <1>0 DEF Sched
    <3>2. i + 1 \in 2..Len(inner) /\ Len(inner') = Len(inner) - 1
      BY <1>10, SchedRemove
    <3>3. \A j \in 1..(Len(inner) - 1) :
            inner'[j] = IF j < i + 1 THEN inner[j] ELSE inner[j + 1]
      BY <1>10, SchedRemove
    <3>4. 1 \in 1..(Len(inner) - 1) /\ 1 < i + 1
      BY <3>1, <3>2
    <3>5. inner'[1] = inner[1]
      BY <3>3, <3>4
    <3> QED
      BY <1>0, <3>1, <3>2, <3>4, <3>5
  <2>4. ASSUME NEW j \in 1..Len(inner'), NEW k \in 1..Len(inner'),
               inner'[j] = inner'[k]
        PROVE  j = k
    <3>1. i \in Nat /\ Len(inner) \in Nat
      BY <1>0 DEF Sched
    <3>2. Len(inner') = Len(inner) - 1
      BY <1>10, SchedRemove
    <3>3. \A l \in 1..(Len(inner) - 1) :
            inner'[l] = IF l < i + 1 THEN inner[l] ELSE inner[l + 1]
      BY <1>10, SchedRemove
    <3>4. PICK a \in {j, j + 1}, b \in {k, k + 1} :
            /\ inner[a] = inner[b]
            /\ a = IF j < i + 1 THEN j ELSE j + 1
            /\ b = IF k < i + 1 THEN k ELSE k + 1
      BY <2>4, <3>2, <3>3
    <3>5. a \in 1..Len(inner) /\ b \in 1..Len(inner)
      BY <3>1, <3>2, <3>4
    <3>6. a = b
      BY <1>0, <3>4, <3>5
    <3> QED
      BY <3>1, <3>2, <3>4, <3>6
  <2> QED
    BY <2>2, <2>3, <2>4
<1>11. CASE UNCHANGED vars
  BY <1>0, <1>11 DEF vars
<1> QED
  BY <1>2, <1>3, <1>4, <1>5, <1>6, <1>7, <1>8, <1>9, <1>10, <1>11
  DEF Next, Search

(* The processor stays with the context that the index designates.           *)
LEMMA NextCursorInv == Sched /\ [Next]_vars => CursorInv'
<1> SUFFICES ASSUME Sched, [Next]_vars PROVE CursorInv'
  OBVIOUS
<1>0. /\ CursorInv /\ inner \in Seq(Ptr) /\ i \in Nat /\ current_i \in Nat
      /\ regs \in [Ptr -> Ptr] /\ blocked \in [Ptr -> BOOLEAN]
      /\ exited \in [Ptr -> BOOLEAN] /\ mode \in {"run", "search"}
  BY DEF Sched
<1>1. ASSUME NEW p, NEW where, InKernel(p, where), StartSwitch,
             UNCHANGED <<inner, running, regs>>
      PROVE  CursorInv'
  <2>1. running = At(i) /\ i + 1 \in 1..Len(inner)
    BY <1>1, SchedRun
  <2>2. /\ mode' = "search" /\ current_i' < Len(inner') /\ running' = At(current_i)'
        /\ i' <= Len(inner') /\ current_i' < i'
    BY <1>0, <1>1, <2>1 DEF StartSwitch, At
  <2>3. \A c \in Live' : regs'[c] = c
    BY <1>0, <1>1 DEF CursorInv, Live
  <2> QED
    BY <2>2, <2>3 DEF CursorInv
<1>2. ASSUME NEW p \in Ptr, NEW c \in Ptr, Clone(p, c) \/ CloneVfork(p, c) \/ Execve(p, c)
      PROVE  CursorInv'
  <2>1. /\ c \in Ptr \ Live /\ inner' = Append(inner, c) /\ running' = running
        /\ regs' = [regs EXCEPT ![c] = c]
    BY <1>2 DEF Clone, CloneVfork, Execve, NewContext, sched
  <2>2. \A d \in Live' : regs'[d] = d
    BY <1>0, <2>1, SchedPush DEF CursorInv
  <2>3. /\ running = At(i) /\ i + 1 \in 1..Len(inner) /\ ~ blocked[p]
        /\ ~ exited[p] /\ p = running
    BY <1>2, SchedRun DEF Clone, CloneVfork, Execve
  <2>4. At(i) = inner'[i + 1] /\ Len(inner') = Len(inner) + 1
    BY <2>1, <2>3, SchedPush DEF At
  <2>5. CASE Clone(p, c)
    <3>1. /\ mode' = "run" /\ i' = i /\ ~ blocked'[running'] /\ ~ exited'[running']
      BY <2>3, <2>5 DEF Clone, sched, InKernel
    <3> QED
      BY <1>0, <2>1, <2>2, <2>3, <2>4, <3>1 DEF CursorInv, At
  <2>6. CASE CloneVfork(p, c) \/ Execve(p, c)
    <3>1. mode' = "search" /\ i' = i + 1 /\ current_i' = i
      BY <2>6 DEF CloneVfork, Execve, StartSwitch
    <3> QED
      BY <1>0, <2>1, <2>2, <2>3, <2>4, <3>1 DEF CursorInv, At
  <2> QED
    BY <1>2, <2>5, <2>6
<1>3. ASSUME NEW p \in Ptr, NEW k, Waitpid(p, k) \/ (WaitpidRetry(p) /\ k = waitkey[p])
      PROVE  CursorInv'
  <2>1. Receive(p, k) /\ UNCHANGED <<inner, regs, exited>>
    BY <1>3 DEF Waitpid, WaitpidRetry
  <2>2. PICK where : InKernel(p, where)
    BY <1>3 DEF Waitpid, WaitpidRetry
  <2>3. CASE TakeStatus(p, k)
    BY <1>0, <2>1, <2>3 DEF TakeStatus, sched, CursorInv, At, Live
  <2>4. CASE WaitStatus(p, k)
    BY <1>1, <2>1, <2>2, <2>4 DEF WaitStatus
  <2> QED
    BY <2>1, <2>3, <2>4 DEF Receive
<1>4. ASSUME NEW p \in Ptr, NEW t, Nanosleep(p, t) PROVE CursorInv'
  BY <1>1, <1>4 DEF Nanosleep
<1>5. ASSUME NEW p \in Ptr, Exit(p) PROVE CursorInv'
  BY <1>1, <1>5 DEF Exit
<1>6. ASSUME NEW p \in Ptr, Yield(p) \/ IdleSwitch(p) \/ Timer(p) PROVE CursorInv'
  BY <1>1, <1>6 DEF Yield, IdleSwitch, Timer
<1>7. ASSUME NEW p \in Ptr, KExec(p) PROVE CursorInv'
  <2>1. p = running /\ ~ blocked[running] /\ ~ exited[running] /\ mode = "run"
    BY <1>7, SchedRun DEF KExec, InKernel
  <2>2. UNCHANGED <<inner, i, current_i, mode, running, exited>>
    BY <1>7 DEF KExec, sched
  <2>3. ~ blocked'[running]
    BY <1>0, <1>7, <2>1 DEF KExec
  <2>4. \A c \in Live : regs'[c] = c
    BY <1>0, <1>7 DEF KExec, CursorInv
  <2> QED
    BY <1>0, <2>1, <2>2, <2>3, <2>4 DEF CursorInv, At, Live
<1>8. CASE SearchWrap
  <2>1. i = Len(inner) /\ i' = 0
    BY <1>0, <1>8 DEF SearchWrap, CursorInv
  <2> QED
    BY <1>0, <1>8, <2>1 DEF SearchWrap, CursorInv, At, Live
<1>9. CASE SearchSkip
  <2>1. i # 0
    BY <1>9, PtrAssumption DEF Sched, ListInv, SearchSkip, CanRun, At
  <2> QED
    BY <1>0, <1>9, <2>1 DEF SearchSkip, CursorInv, At, Live
<1>10. CASE SearchStop
  <2>1. /\ i < Len(inner) /\ current_i < Len(inner) /\ running = At(current_i)
        /\ ~ exited[At(i)] /\ (i = 0 \/ current_i < i)
    BY <1>0, <1>10 DEF SearchStop, SwitchTo, CursorInv
  <2>2. i + 1 \in 1..Len(inner) /\ current_i + 1 \in 1..Len(inner)
    BY <1>0, <2>1
  <2>3. At(i) \in Live /\ At(current_i) \in Live /\ At(i) \in Ptr
    BY <1>0, <2>2 DEF At, Live
  <2>4. regs[At(i)] = At(i) /\ regs[At(current_i)] = At(current_i)
    BY <1>0, <2>3 DEF CursorInv
  <2>5. running' = At(i)
    BY <1>10, <2>1, <2>4 DEF SearchStop, SwitchTo
  <2>6. regs' = regs
    BY <1>0, <1>10, <2>1, <2>4 DEF SearchStop, SwitchTo
  <2>7. ~ blocked'[At(i)]
    <3>1. CASE CanRun(At(i))
      BY <1>0, <1>10, <2>3, <3>1 DEF SearchStop, SwitchTo, CanRun
    <3>2. CASE i = current_i
      <4>1. At(i) = KIdle
        BY <1>0, <2>1, <3>2 DEF Sched, ListInv, At
      <4> QED
        BY <1>0, <1>10, <2>3, <4>1 DEF Sched, ListInv, SearchStop, SwitchTo
    <3> QED
      BY <1>10, <3>1, <3>2 DEF SearchStop, SwitchTo
  <2>8. mode' = "run" /\ UNCHANGED <<inner, i, exited>>
    BY <1>10 DEF SearchStop, SwitchTo
  <2> QED
    BY <1>0, <2>1, <2>5, <2>6, <2>7, <2>8 DEF CursorInv, At, Live
<1>11. CASE SearchClean
  <2>1. mode' = "search" /\ UNCHANGED <<i, current_i, running, regs>>
    BY <1>11 DEF SearchClean, sched
  <2>2. /\ current_i < i /\ i <= Len(inner) - 1 /\ Len(inner') = Len(inner) - 1
        /\ \A j \in 1..(Len(inner) - 1) :
             inner'[j] = IF j < i + 1 THEN inner[j] ELSE inner[j + 1]
        /\ Live' \subseteq Live
    BY <1>11, SchedRemove
  <2>3. running = inner[current_i + 1]
    BY <1>0, <1>11 DEF CursorInv, SearchClean, At
  <2>4. inner'[current_i + 1] = inner[current_i + 1]
    BY <1>0, <2>2
  <2> QED
    BY <1>0, <2>1, <2>2, <2>3, <2>4 DEF CursorInv, At
<1>12. CASE UNCHANGED vars
  BY <1>0, <1>12 DEF vars, CursorInv, At, Live
<1> QED
  BY <1>2, <1>3, <1>4, <1>5, <1>6, <1>7, <1>8, <1>9, <1>10, <1>11, <1>12
  DEF Next, Search

(* Flags and program counters stay in step, and free addresses clean.        *)
LEMMA NextFlagInv == Sched /\ [Next]_vars => FlagInv'
<1> SUFFICES ASSUME Sched, [Next]_vars PROVE FlagInv'
  OBVIOUS
<1>0. /\ FlagInv /\ inner \in Seq(Ptr) /\ pc \in [Ptr -> AllPCs]
      /\ blocked \in [Ptr -> BOOLEAN] /\ exited \in [Ptr -> BOOLEAN]
      /\ Live \subseteq Ptr
  BY SchedLive DEF Sched
<1>1. ASSUME UNCHANGED <<inner, pc, exited>>,
             \A c \in Ptr : blocked'[c] => blocked[c] \/ c \in Live
      PROVE  FlagInv'
  BY <1>0, <1>1 DEF FlagInv, Live
<1>2. ASSUME NEW p \in Ptr, NEW c \in Ptr, Clone(p, c) \/ CloneVfork(p, c) \/ Execve(p, c)
      PROVE  FlagInv'
  <2>1. /\ c \in Ptr \ Live /\ inner' = Append(inner, c) /\ exited' = exited
        /\ \E new \in {"user", "kexec"}, own \in {pc[running], "exec"} :
             pc' = [pc EXCEPT ![c] = new, ![running] = own]
    BY <1>2 DEF Clone, CloneVfork, Execve, NewContext
  <2>2. p = running /\ p \in Live /\ ~ exited[p]
    BY <1>2, SchedRun DEF Clone, CloneVfork, Execve
  <2>3. \A d \in Ptr \ {p} : blocked'[d] = blocked[d]
    BY <1>0, <1>2 DEF Clone, CloneVfork, Execve
  <2>4. Live' = Live \cup {c}
    BY <2>1, SchedPush
  <2>5. \A d \in Ptr : exited'[d] <=> pc'[d] = "exit"
    BY <1>0, <2>1, <2>2 DEF FlagInv
  <2>6. \A d \in Ptr \ Live' : pc'[d] = "free" /\ ~ blocked'[d]
    BY <1>0, <2>1, <2>2, <2>3, <2>4 DEF FlagInv
  <2>7. \A d \in Live' : pc'[d] # "free"
    BY <1>0, <2>1, <2>2, <2>4 DEF FlagInv
  <2> QED
    BY <2>5, <2>6, <2>7 DEF FlagInv
<1>3. ASSUME NEW p \in Ptr, NEW k, Waitpid(p, k) \/ (WaitpidRetry(p) /\ k = waitkey[p])
      PROVE  FlagInv'
  <2>1. Receive(p, k) /\ UNCHANGED <<inner, exited>> /\ p \in Live /\ At(i) = p
        /\ ~ exited[p]
    BY <1>3, SchedRun DEF Waitpid, WaitpidRetry
  <2>2. \E new \in {"user", "waitpid"} : pc' = [pc EXCEPT ![p] = new]
    BY <2>1 DEF Receive, TakeStatus, WaitStatus
  <2>3. \A d \in Ptr \ {p} : blocked'[d] = blocked[d]
    BY <1>0, <2>1 DEF Receive, TakeStatus, WaitStatus
  <2> QED
    BY <1>0, <2>1, <2>2, <2>3 DEF FlagInv, Live
<1>4. ASSUME NEW p \in Ptr, NEW t, Nanosleep(p, t) PROVE FlagInv'
  BY <1>0, <1>1, <1>4, SchedRun DEF Nanosleep
<1>5. ASSUME NEW p \in Ptr, Exit(p) PROVE FlagInv'
  <2>1. p \in Live
    BY <1>5, SchedRun DEF Exit
  <2>2. \A d \in Ptr : blocked'[d] => blocked[d]
    BY <1>5 DEF Exit, Notified
  <2> QED
    BY <1>0, <1>5, <2>1, <2>2 DEF FlagInv, Live, Exit
<1>6. ASSUME NEW p \in Ptr, Yield(p) \/ IdleSwitch(p) \/ Timer(p) PROVE FlagInv'
  BY <1>1, <1>6 DEF Yield, IdleSwitch, Timer
<1>7. ASSUME NEW p \in Ptr, KExec(p) PROVE FlagInv'
  <2>1. p \in Live /\ pc[p] = "kexec"
    BY <1>7, SchedRun DEF KExec, InKernel
  <2>2. target[p] \in Live /\ pc[target[p]] = "exec"
    BY <2>1 DEF Sched, ExecInv
  <2>3. \A d \in Ptr : blocked'[d] => blocked[d]
    BY <1>7 DEF KExec
  <2>4. /\ pc' = [pc EXCEPT ![target[p]] = "user", ![p] = "kexit"]
        /\ exited' = exited /\ Live' = Live
    BY <1>7 DEF KExec, Live
  <2> QED
    BY <1>0, <2>1, <2>2, <2>3, <2>4 DEF FlagInv
<1>8. CASE SearchWrap \/ SearchSkip
  BY <1>1, <1>8 DEF SearchWrap, SearchSkip
<1>9. CASE SearchStop
  BY <1>1, <1>9 DEF SearchStop, SwitchTo
<1>10. CASE SearchClean
  <2>1. Live' = Live \ {At(i)} /\ At(i) \in Ptr
    BY <1>10, SchedRemove
  <2>2. /\ pc' = [pc EXCEPT ![At(i)] = "free"]
        /\ exited' = [exited EXCEPT ![At(i)] = FALSE]
    BY <1>10 DEF SearchClean, Removed, At
  <2>3. \A d \in Ptr : blocked'[d] => blocked[d] /\ d # At(i)
    BY <1>10 DEF SearchClean, Removed, At
  <2> QED
    BY <1>0, <2>1, <2>2, <2>3 DEF FlagInv
<1>11. CASE UNCHANGED vars
  BY <1>1, <1>11 DEF vars
<1> QED
  BY <1>2, <1>3, <1>4, <1>5, <1>6, <1>7, <1>8, <1>9, <1>10, <1>11
  DEF Next, Search

(* A kexec thread's target stays in place until the thread has run.          *)
LEMMA NextExecInv == Sched /\ [Next]_vars => ExecInv'
<1> SUFFICES ASSUME Sched, [Next]_vars PROVE ExecInv'
  OBVIOUS
<1>0. /\ ExecInv /\ inner \in Seq(Ptr) /\ pc \in [Ptr -> AllPCs]
      /\ target \in [Ptr -> Ptr \cup {NoCtx}] /\ Live \subseteq Ptr
  BY SchedLive DEF Sched
<1>1. ASSUME UNCHANGED <<inner, pc, target>> PROVE ExecInv'
  BY <1>0, <1>1 DEF ExecInv, Live
<1>2. ASSUME NEW p \in Live, NEW new \in AllPCs \ {"kexec"}, pc[p] # "exec",
             pc' = [pc EXCEPT ![p] = new], UNCHANGED <<inner, target>>
      PROVE  ExecInv'
  BY <1>0, <1>2 DEF ExecInv, Live
<1>3. ASSUME NEW p \in Ptr, NEW c \in Ptr, Clone(p, c) \/ CloneVfork(p, c)
      PROVE  ExecInv'
  <2>1. /\ c \in Ptr \ Live /\ inner' = Append(inner, c)
        /\ pc' = [pc EXCEPT ![c] = "user"] /\ target' = [target EXCEPT ![c] = NoCtx]
    BY <1>0, <1>3 DEF Clone, CloneVfork, NewContext
  <2>2. Live' = Live \cup {c}
    BY <2>1, SchedPush
  <2> QED
    BY <1>0, <2>1, <2>2 DEF ExecInv
<1>4. ASSUME NEW p \in Ptr, NEW c \in Ptr, Execve(p, c) PROVE ExecInv'
  <2>1. /\ c \in Ptr \ Live /\ inner' = Append(inner, c) /\ p \in Live
        /\ pc' = [pc EXCEPT ![c] = "kexec", ![p] = "exec"]
        /\ target' = [target EXCEPT ![c] = p] /\ pc[p] \in {"user", "kinit"}
    BY <1>4, SchedRun DEF Execve, NewContext, InKernel
  <2>2. Live' = Live \cup {c}
    BY <2>1, SchedPush
  <2>3. \A d \in Live : pc'[d] = "kexec" => pc[d] = "kexec" /\ target'[d] # p
    BY <1>0, <2>1 DEF ExecInv
  <2>4. c # p /\ pc'[c] = "kexec" /\ target'[c] = p /\ pc'[p] = "exec"
    BY <1>0, <2>1
  <2>5. \A d \in Live : target'[d] = target[d] /\ (pc[d] = "exec" => pc'[d] = "exec")
    BY <1>0, <2>1
  <2> QED
    BY <1>0, <2>1, <2>2, <2>3, <2>4, <2>5 DEF ExecInv
<1>5. ASSUME NEW p \in Ptr, NEW k, Waitpid(p, k) \/ (WaitpidRetry(p) /\ k = waitkey[p])
      PROVE  ExecInv'
  <2>1. /\ Receive(p, k) /\ UNCHANGED <<inner, target>> /\ p \in Live
        /\ pc[p] # "exec"
    BY <1>5, SchedRun DEF Waitpid, WaitpidRetry, InKernel
  <2>2. \E new \in AllPCs \ {"kexec"} : pc' = [pc EXCEPT ![p] = new]
    BY <2>1 DEF Receive, TakeStatus, WaitStatus, AllPCs, PCs
  <2> QED
    BY <1>2, <2>1, <2>2
<1>6. ASSUME NEW p \in Ptr, Exit(p) PROVE ExecInv'
  <2>1. p \in Live /\ pc[p] # "exec" /\ "exit" \in AllPCs \ {"kexec"}
    BY <1>6, SchedRun DEF Exit, InKernel, AllPCs, PCs
  <2> QED
    BY <1>2, <1>6, <2>1 DEF Exit
<1>7. ASSUME NEW p \in Ptr, KExec(p) PROVE ExecInv'
  <2>1. p \in Live /\ pc[p] = "kexec"
    BY <1>7, SchedRun DEF KExec, InKernel
  <2>2. target[p] \in Live /\ pc[target[p]] = "exec"
    BY <1>0, <2>1 DEF ExecInv
  <2>3. /\ inner' = inner /\ target' = [target EXCEPT ![p] = NoCtx]
        /\ pc' = [pc EXCEPT ![target[p]] = "user", ![p] = "kexit"]
    BY <1>7 DEF KExec
  <2>4. \A d \in Live : pc'[d] = "kexec" => /\ d # p /\ pc[d] = "kexec"
                                            /\ target'[d] = target[d]
    BY <1>0, <2>1, <2>2, <2>3
  <2>5. \A d \in Live : d # p /\ pc[d] = "kexec" => target[d] # target[p]
    BY <1>0, <2>1 DEF ExecInv
  <2>6. \A d \in Live : pc[d] = "exec" /\ d # target[p] => pc'[d] = "exec"
    BY <1>0, <2>1, <2>2, <2>3
  <2>7. Live' = Live
    BY <2>3 DEF Live
  <2> QED
    BY <1>0, <2>4, <2>5, <2>6, <2>7 DEF ExecInv
<1>8. ASSUME NEW p \in Ptr, NEW t, Nanosleep(p, t) PROVE ExecInv'
  BY <1>1, <1>8 DEF Nanosleep
<1>9. ASSUME NEW p \in Ptr, Yield(p) \/ IdleSwitch(p) \/ Timer(p) PROVE ExecInv'
  BY <1>1, <1>9 DEF Yield, IdleSwitch, Timer
<1>10. CASE SearchWrap \/ SearchSkip \/ SearchStop
  BY <1>1, <1>10 DEF SearchWrap, SearchSkip, SearchStop, SwitchTo
<1>11. CASE SearchClean
  <2>1. Live' = Live \ {At(i)} /\ At(i) \in Ptr /\ exited[At(i)]
    BY <1>11, SchedRemove
  <2>2. pc[At(i)] = "exit"
    BY <2>1 DEF Sched, FlagInv
  <2>3. /\ pc' = [pc EXCEPT ![At(i)] = "free"]
        /\ target' = [target EXCEPT ![At(i)] = NoCtx]
    BY <1>11 DEF SearchClean, Removed, At
  <2> QED
    BY <1>0, <2>1, <2>2, <2>3 DEF ExecInv
<1>12. CASE UNCHANGED vars
  BY <1>1, <1>12 DEF vars
<1> QED
  BY <1>3, <1>4, <1>5, <1>6, <1>7, <1>8, <1>9, <1>10, <1>11, <1>12
  DEF Next, Search

(* A vfork parent stays blocked until its child is dropped or execs.         *)
LEMMA NextVforkInv == Inv /\ [Next]_vars => VforkInv'
<1> SUFFICES ASSUME Inv, [Next]_vars PROVE VforkInv'
  OBVIOUS
<1>0. /\ VforkInv /\ inner \in Seq(Ptr) /\ pc \in [Ptr -> PCs]
      /\ blocked \in [Ptr -> BOOLEAN] /\ wake \in [Ptr -> -1..MaxSleep]
      /\ vfork \in [Ptr -> Ptr \cup {NoCtx}] /\ Live \subseteq Ptr
      /\ NoCtx \notin Ptr
  BY LiveFacts, PtrAssumption DEF Inv, TypeOK
<1> DEFINE Parent(d) == d \in Live /\ blocked[d] /\ wake[d] = NoWake
                        /\ pc[d] = "user"
<1>1. ASSUME UNCHANGED <<inner, vfork>>,
             \A d \in Ptr : Parent(d) =>
               blocked'[d] /\ wake'[d] = wake[d] /\ pc'[d] = pc[d]
      PROVE  VforkInv'
  <2>1. Live' = Live
    BY <1>1 DEF Live
  <2>2. \A c \in Live : vfork[c] # NoCtx => vfork[c] \in Ptr /\ Parent(vfork[c])
    BY <1>0 DEF VforkInv
  <2>3. \A c \in Live : vfork[c] # NoCtx =>
          /\ vfork[c] \in Live /\ blocked'[vfork[c]] /\ wake'[vfork[c]] = NoWake
          /\ pc'[vfork[c]] = "user"
    BY <1>1, <2>2
  <2> QED
    BY <1>0, <1>1, <2>1, <2>3 DEF VforkInv
<1>2. ASSUME NEW p, NEW where, InKernel(p, where) PROVE ~ Parent(p)
  BY <1>2, RunFacts
<1>3. ASSUME NEW p \in Ptr, NEW c \in Ptr, Clone(p, c) \/ Execve(p, c) PROVE VforkInv'
  <2>1. /\ c \in Ptr \ Live /\ inner' = Append(inner, c) /\ p = running
        /\ vfork' = [vfork EXCEPT ![c] = NoCtx] /\ UNCHANGED <<blocked, wake>>
        /\ \A d \in Ptr \ {c, p} : pc'[d] = pc[d]
    BY <1>0, <1>3 DEF Clone, Execve, NewContext, InKernel
  <2>2. Live' = Live \cup {c}
    BY <2>1, PushFacts
  <2>3. \A d \in Ptr : Parent(d) => pc'[d] = pc[d] /\ d # c
    BY <1>0, <1>2, <1>3, <2>1 DEF Clone, Execve
  <2> QED
    BY <1>0, <2>1, <2>2, <2>3 DEF VforkInv
<1>4. ASSUME NEW p \in Ptr, NEW c \in Ptr, CloneVfork(p, c) PROVE VforkInv'
  <2>1. /\ c \in Ptr \ Live /\ inner' = Append(inner, c) /\ p \in Live
        /\ vfork' = [vfork EXCEPT ![c] = p] /\ wake' = wake
        /\ blocked' = [blocked EXCEPT ![p] = TRUE]
        /\ pc' = [pc EXCEPT ![c] = "user"] /\ pc[p] = "user" /\ ~ blocked[p]
    BY <1>0, <1>4, RunFacts DEF CloneVfork, NewContext, InKernel
  <2>2. Live' = Live \cup {c}
    BY <2>1, PushFacts
  <2>3. wake[p] = NoWake
    BY <2>1 DEF Inv, WaitInv
  <2>4. \A d \in Live : vfork[d] # NoCtx => vfork[d] # p
    BY <1>0, <2>1 DEF VforkInv
  <2> QED
    BY <1>0, <2>1, <2>2, <2>3, <2>4 DEF VforkInv
<1>5. ASSUME NEW p \in Ptr, NEW k, Waitpid(p, k) \/ (WaitpidRetry(p) /\ k = waitkey[p])
      PROVE  VforkInv'
  <2>1. /\ Receive(p, k) /\ UNCHANGED <<inner, vfork, wake>> /\ At(i) = p
        /\ ~ Parent(p)
    BY <1>2, <1>5, RunFacts DEF Waitpid, WaitpidRetry
  <2>2. \A d \in Ptr \ {p} : blocked'[d] = blocked[d] /\ pc'[d] = pc[d]
    BY <1>0, <2>1 DEF Receive, TakeStatus, WaitStatus
  <2> QED
    BY <1>1, <2>1, <2>2
<1>6. ASSUME NEW p \in Ptr, NEW t, Nanosleep(p, t) PROVE VforkInv'
  BY <1>0, <1>1, <1>2, <1>6 DEF Nanosleep
<1>7. ASSUME NEW p \in Ptr, Exit(p) PROVE VforkInv'
  <2>1. ~ Parent(p)
    BY <1>2, <1>7 DEF Exit
  <2>2. \A c, d \in Ptr : Parent(d) => d \notin waiters[c]
    BY DEF Inv, WaitInv
  <2>3. \A d \in Ptr : Parent(d) => blocked'[d]
    BY <1>0, <1>7, <2>2 DEF Exit, Notified, Heirs
  <2> QED
    BY <1>0, <1>1, <1>7, <2>1, <2>3 DEF Exit
<1>8. ASSUME NEW p \in Ptr, KExec(p) PROVE VforkInv'
  <2>1. p \in Live /\ ~ Parent(p) /\ pc[p] = "kexec"
    BY <1>2, <1>8, RunFacts DEF KExec, InKernel
  <2>2. target[p] \in Live /\ pc[target[p]] = "exec"
    BY <2>1 DEF Inv, ExecInv
  <2>3. /\ inner' = inner /\ wake' = wake
        /\ vfork' = [vfork EXCEPT ![target[p]] = NoCtx]
        /\ pc' = [pc EXCEPT ![target[p]] = "user", ![p] = "kexit"]
        /\ blocked' = [d \in Ptr |-> blocked[d] /\ d # vfork[target[p]]]
    BY <1>8 DEF KExec
  <2>4. \A d \in Ptr : Parent(d) => pc'[d] = pc[d]
    BY <1>0, <2>1, <2>2, <2>3
  <2>5. \A c \in Live : vfork'[c] # NoCtx =>
          c # target[p] /\ vfork'[c] = vfork[c] /\ vfork[c] # vfork[target[p]]
    BY <1>0, <2>2, <2>3 DEF VforkInv
  <2>6. Live' = Live
    BY <2>3 DEF Live
  <2> QED
    BY <1>0, <2>3, <2>4, <2>5, <2>6 DEF VforkInv
<1>9. ASSUME NEW p \in Ptr, Timer(p) PROVE VforkInv'
  BY <1>0, <1>1, <1>9 DEF Timer, NoWake
<1>10. ASSUME NEW p \in Ptr, Yield(p) \/ IdleSwitch(p) PROVE VforkInv'
  BY <1>1, <1>10 DEF Yield, IdleSwitch
<1>11. CASE SearchWrap \/ SearchSkip
  BY <1>1, <1>11 DEF SearchWrap, SearchSkip
<1>12. CASE SearchStop
  BY <1>0, <1>1, <1>12 DEF SearchStop, SwitchTo, Due, NoWake
<1>13. CASE SearchClean
  <2>1. Live' = Live \ {At(i)} /\ At(i) \in Live /\ At(i) \in Ptr /\ exited[At(i)]
    BY <1>13, RemoveFacts
  <2>2. pc[At(i)] = "exit"
    BY <2>1 DEF Inv, FlagInv
  <2>3. /\ pc' = [pc EXCEPT ![At(i)] = "free"]
        /\ vfork' = [vfork EXCEPT ![At(i)] = NoCtx]
        /\ wake' = [wake EXCEPT ![At(i)] = NoWake]
    BY <1>13 DEF SearchClean, Removed, At
  <2>4. \A d \in Ptr : blocked'[d] <=> /\ blocked[d] /\ d # At(i)
                                       /\ d # vfork[At(i)] /\ d \notin waiters[At(i)]
    BY <1>13 DEF SearchClean, Removed, At
  <2>5. waiters[At(i)] = {}
    BY <2>1, <2>2 DEF Inv, WaitInv
  <2>6. \A c \in Live' : vfork'[c] = vfork[c]
    BY <1>0, <2>1, <2>3
  <2>7. \A c \in Live' : vfork[c] # NoCtx => vfork[c] # vfork[At(i)] /\ vfork[c] # At(i)
    BY <1>0, <2>1, <2>2 DEF VforkInv
  <2>8. \A c \in Live' : vfork[c] # NoCtx =>
          /\ vfork[c] \in Live' /\ blocked'[vfork[c]]
          /\ wake'[vfork[c]] = NoWake /\ pc'[vfork[c]] = "user"
    BY <1>0, <2>1, <2>3, <2>4, <2>5, <2>7 DEF VforkInv
  <2> QED
    BY <1>0, <2>1, <2>6, <2>8 DEF VforkInv
<1>14. CASE UNCHANGED vars
  BY <1>1, <1>14 DEF vars
<1> QED
  BY <1>3, <1>4, <1>5, <1>6, <1>7, <1>8, <1>9, <1>10, <1>11, <1>12, <1>13,
     <1>14 DEF Next, Search

(* Waiting in waitpid: the list, the flag and the map stay in step.          *)
LEMMA NextWaitInv == Inv /\ [Next]_vars => WaitInv'
<1> SUFFICES ASSUME Inv, [Next]_vars PROVE WaitInv'
  OBVIOUS
<1>0. /\ WaitInv /\ inner \in Seq(Ptr) /\ pc \in [Ptr -> PCs]
      /\ blocked \in [Ptr -> BOOLEAN] /\ wake \in [Ptr -> -1..MaxSleep]
      /\ statuses \in [Ptr -> SUBSET (Nat \X Status)] /\ waiters \in [Ptr -> SUBSET Ptr]
      /\ waitkey \in [Ptr -> Nat] /\ Live \subseteq Ptr
  BY LiveFacts DEF Inv, TypeOK
<1> DEFINE W(d) == /\ waiters[d] \subseteq {d}
                   /\ d \in waiters[d] => /\ pc[d] = "waitpid" /\ blocked[d]
                                          /\ wake[d] = NoWake
                   /\ pc[d] = "waitpid" /\ blocked[d] =>
                        d \in waiters[d] /\ waitkey[d] \notin Keys(statuses[d])
                   /\ pc[d] = "waitpid" => wake[d] = NoWake
                   /\ wake[d] # NoWake => pc[d] = "user" /\ blocked[d]
           Same(d) == /\ pc'[d] = pc[d] /\ blocked'[d] = blocked[d]
                      /\ wake'[d] = wake[d] /\ statuses'[d] = statuses[d]
                      /\ waiters'[d] = waiters[d] /\ waitkey'[d] = waitkey[d]
<1>a. \A d \in Ptr : W(d)
  BY <1>0 DEF WaitInv
<1>b. ASSUME \A d \in Ptr : W(d)' PROVE WaitInv'
  BY <1>b DEF WaitInv
<1>c. ASSUME NEW d \in Ptr, Same(d) PROVE W(d)'
  BY <1>a, <1>c
<1>1. ASSUME NEW p \in Ptr, NEW c \in Ptr, Clone(p, c) \/ CloneVfork(p, c) \/ Execve(p, c)
      PROVE  WaitInv'
  <2>1. /\ c \in Ptr \ Live /\ p \in Live /\ UNCHANGED <<wake, statuses, waiters, waitkey>>
        /\ \A d \in Ptr \ {c, p} : pc'[d] = pc[d]
        /\ \A d \in Ptr \ {p} : blocked'[d] = blocked[d]
        /\ pc'[c] \in {"user", "kexec"} /\ pc'[p] \in {pc[p], "exec"}
        /\ pc[p] \in {"user", "kinit"} /\ p = running /\ ~ blocked[p]
    BY <1>0, <1>1, RunFacts DEF Clone, CloneVfork, Execve, NewContext, InKernel
  <2>2. \A d \in Ptr \ {c, p} : W(d)'
    BY <1>c, <2>1
  <2>3. W(c)'
    <3>1. pc[c] = "free" /\ ~ blocked[c]
      BY <2>1 DEF Inv, FlagInv
    <3> QED
      BY <1>a, <2>1, <3>1
  <2>4. W(p)'
    BY <1>a, <2>1
  <2> QED
    BY <1>b, <2>2, <2>3, <2>4
<1>2. ASSUME NEW p \in Ptr, NEW k, Waitpid(p, k) \/ (WaitpidRetry(p) /\ k = waitkey[p])
      PROVE  WaitInv'
  <2>1. /\ Receive(p, k) /\ wake' = wake /\ At(i) = p /\ ~ blocked[p]
        /\ pc[p] \in {"user", "waitpid"}
    BY <1>2, RunFacts DEF Waitpid, WaitpidRetry, InKernel
  <2>2. \A d \in Ptr \ {p} : Same(d)
    BY <1>0, <2>1 DEF Receive, TakeStatus, WaitStatus
  <2>3. W(p)'
    <3>1. wake[p] = NoWake /\ waiters[p] = {}
      BY <1>a, <2>1
    <3>2. CASE TakeStatus(p, k)
      BY <1>0, <2>1, <3>1, <3>2 DEF TakeStatus
    <3>3. CASE WaitStatus(p, k)
      BY <1>0, <2>1, <3>1, <3>3 DEF WaitStatus
    <3> QED
      BY <2>1, <3>2, <3>3 DEF Receive
  <2> QED
    BY <1>b, <1>c, <2>2, <2>3
<1>3. ASSUME NEW p \in Ptr, NEW t, Nanosleep(p, t) PROVE WaitInv'
  <2>1. ~ blocked[p] /\ pc[p] = "user"
    BY <1>3, RunFacts DEF Nanosleep, InKernel
  <2>2. \A d \in Ptr \ {p} : Same(d)
    BY <1>0, <1>3 DEF Nanosleep
  <2>3. W(p)'
    BY <1>0, <1>3, <1>a, <2>1 DEF Nanosleep
  <2> QED
    BY <1>b, <1>c, <2>2, <2>3
<1>4. ASSUME NEW p \in Ptr, Exit(p) PROVE WaitInv'
  <2>1. ~ blocked[p] /\ pc[p] \in {"user", "kinit", "kexit"}
    BY <1>4, RunFacts DEF Exit, InKernel
  <2>2. \A d \in Ptr : blocked'[d] <=> blocked[d] /\ ~ (d \in Heirs(p) /\ d \in waiters[d])
    <3>1. ASSUME NEW d \in Ptr
          PROVE  d \in UNION {waiters[c] : c \in Heirs(p)} <=> d \in Heirs(p) /\ d \in waiters[d]
      BY <1>0, <1>a DEF Heirs
    <3> QED
      BY <1>4, <3>1 DEF Exit, Notified
  <2>3. /\ UNCHANGED <<wake, waitkey>> /\ pc' = [pc EXCEPT ![p] = "exit"]
        /\ \A d \in Ptr : waiters'[d] = IF d \in Heirs(p) THEN {} ELSE waiters[d]
        /\ \A d \in Ptr \ {p} : d \notin Heirs(p) => statuses'[d] = statuses[d]
    BY <1>4 DEF Exit, Bequeathed
  <2>4. W(p)'
    BY <1>0, <1>a, <2>1, <2>2, <2>3
  <2>5. ASSUME NEW d \in Ptr \ {p} PROVE W(d)'
    BY <1>0, <1>a, <2>2, <2>3, <2>5
  <2> QED
    BY <1>b, <2>4, <2>5
<1>5. ASSUME NEW p \in Ptr, KExec(p) PROVE WaitInv'
  <2>1. p \in Live /\ pc[p] = "kexec" /\ p \in Ptr
    BY <1>5, RunFacts DEF KExec, InKernel
  <2>2. target[p] \in Live /\ pc[target[p]] = "exec"
    BY <2>1 DEF Inv, ExecInv
  <2>3. /\ UNCHANGED <<wake, statuses, waiters, waitkey>>
        /\ pc' = [pc EXCEPT ![target[p]] = "user", ![p] = "kexit"]
        /\ \A d \in Ptr : blocked'[d] <=> blocked[d] /\ d # vfork[target[p]]
    BY <1>5 DEF KExec
  <2>4. \A d \in Ptr : d = vfork[target[p]] => wake[d] = NoWake /\ pc[d] = "user"
    BY <2>2, PtrAssumption DEF Inv, VforkInv
  <2>5. ASSUME NEW d \in Ptr PROVE W(d)'
    BY <1>0, <1>a, <2>1, <2>2, <2>3, <2>4
  <2> QED
    BY <1>b, <2>5
<1>6. ASSUME NEW p \in Ptr, Timer(p) PROVE WaitInv'
  <2>1. \A d \in Ptr : wake'[d] = NoWake <=> wake[d] = NoWake
    BY <1>0, <1>6 DEF Timer, NoWake
  <2>2. UNCHANGED <<pc, blocked, statuses, waiters, waitkey>>
    BY <1>6 DEF Timer
  <2> QED
    BY <1>a, <1>b, <2>1, <2>2
<1>7. ASSUME NEW p \in Ptr, Yield(p) \/ IdleSwitch(p) PROVE WaitInv'
  BY <1>b, <1>c, <1>7 DEF Yield, IdleSwitch
<1>8. CASE SearchWrap \/ SearchSkip
  BY <1>b, <1>c, <1>8 DEF SearchWrap, SearchSkip
<1>9. CASE SearchStop
  <2>1. UNCHANGED <<pc, statuses, waiters, waitkey>>
    BY <1>9 DEF SearchStop, SwitchTo
  <2>2. \A d \in Ptr : \/ blocked'[d] = blocked[d] /\ wake'[d] = wake[d]
                       \/ wake[d] = 0 /\ wake'[d] = NoWake /\ ~ blocked'[d]
    BY <1>0, <1>9 DEF SearchStop, SwitchTo, Due
  <2>3. NoWake # 0
    BY DEF NoWake
  <2>4. ASSUME NEW d \in Ptr PROVE W(d)'
    BY <1>a, <2>1, <2>2, <2>3
  <2> QED
    BY <1>b, <2>4
<1>10. CASE SearchClean
  <2>1. At(i) \in Live /\ At(i) \in Ptr /\ exited[At(i)]
    BY <1>10, RemoveFacts
  <2>2. pc[At(i)] = "exit"
    BY <2>1 DEF Inv, FlagInv
  <2>3. /\ pc' = [pc EXCEPT ![At(i)] = "free"]
        /\ wake' = [wake EXCEPT ![At(i)] = NoWake]
        /\ statuses' = [statuses EXCEPT ![At(i)] = {}]
        /\ waiters' = [waiters EXCEPT ![At(i)] = {}]
        /\ waitkey' = [waitkey EXCEPT ![At(i)] = 0]
    BY <1>10 DEF SearchClean, Removed, At
  <2>4. \A d \in Ptr : blocked'[d] <=> /\ blocked[d] /\ d # At(i)
                                       /\ d # vfork[At(i)] /\ d \notin waiters[At(i)]
    BY <1>10 DEF SearchClean, Removed, At
  <2>5. waiters[At(i)] = {}
    BY <1>a, <2>1, <2>2
  <2>6. \A d \in Ptr : d = vfork[At(i)] => wake[d] = NoWake /\ pc[d] = "user"
    BY <2>1, PtrAssumption DEF Inv, VforkInv
  <2>7. ASSUME NEW d \in Ptr, d = At(i) PROVE W(d)'
    BY <1>0, <2>3, <2>4, <2>7
  <2>8. ASSUME NEW d \in Ptr, d # At(i) PROVE W(d)'
    BY <1>0, <1>a, <2>1, <2>3, <2>4, <2>5, <2>6, <2>8
  <2> QED
    BY <1>b, <2>7, <2>8
<1>11. CASE UNCHANGED vars
  BY <1>b, <1>c, <1>11 DEF vars
<1> QED
  BY <1>1, <1>2, <1>3, <1>4, <1>5, <1>6, <1>7, <1>8, <1>9, <1>10, <1>11
  DEF Next, Search

(* Pids stay unique, parents stay ahead of their children, and nobody sends  *)
(* a status to a context that has exited.                                    *)
LEMMA NextPidInv == Inv /\ [Next]_vars => PidInv'
<1> SUFFICES ASSUME Inv, [Next]_vars PROVE PidInv'
  OBVIOUS
<1>0. /\ PidInv /\ inner \in Seq(Ptr) /\ Live \subseteq Ptr
      /\ exited \in [Ptr -> BOOLEAN] /\ statuses \in [Ptr -> SUBSET (Nat \X Status)]
      /\ pid \in [Ptr -> Nat] /\ ppid \in [Ptr -> Nat]
      /\ \A j, k \in 1..Len(inner) : inner[j] = inner[k] => j = k
      /\ \A k \in 1..Len(inner) : inner[k] \in Live
  BY LiveFacts DEF Inv, TypeOK, ListInv, Live
<1> DEFINE Ahead(k) == ppid[inner[k]] # 0 =>
             \E j \in 1..(k - 1) : ~ exited[inner[j]] /\ pid[inner[j]] = ppid[inner[k]]
<1>1. ASSUME UNCHANGED <<inner, pid, ppid, exited>>,
             \A c \in Live : exited[c] => statuses'[c] = statuses[c]
      PROVE  PidInv'
  <2>1. Live' = Live
    BY <1>1 DEF Live
  <2>2. \A k \in 1..Len(inner) : Ahead(k)'
    BY <1>0, <1>1 DEF PidInv
  <2>3. \A c \in Live : exited[c] => statuses'[c] = {}
    BY <1>0, <1>1 DEF PidInv
  <2>4. /\ \A c \in Live' : pid'[c] > 0
        /\ \A c, d \in Live' : pid'[c] = pid'[d] => c = d
    BY <1>0, <1>1, <2>1 DEF PidInv
  <2> QED
    BY <1>1, <2>1, <2>2, <2>3, <2>4 DEF PidInv
<1>2. ASSUME NEW p \in Ptr, NEW c \in Ptr, Clone(p, c) \/ CloneVfork(p, c) \/ Execve(p, c)
      PROVE  PidInv'
  <2>1. PICK n \in next_pid..(next_pid + Len(inner)) :
          /\ AllocPid(n) /\ pid' = [pid EXCEPT ![c] = n]
          /\ c \in Ptr \ Live /\ inner' = Append(inner, c)
          /\ ppid' \in {[ppid EXCEPT ![c] = pid[p]], [ppid EXCEPT ![c] = 0]}
    BY <1>2 DEF Clone, CloneVfork, Execve, NewContext
  <2>2. /\ p = inner[i + 1] /\ i + 1 \in 1..Len(inner) /\ ~ exited[p]
        /\ UNCHANGED <<exited, statuses>>
    BY <1>2, RunFacts DEF Clone, CloneVfork, Execve, At
  <2>3. /\ Live' = Live \cup {c} /\ Len(inner') = Len(inner) + 1
        /\ inner'[Len(inner) + 1] = c /\ Len(inner) \in Nat
        /\ \A k \in 1..Len(inner) : inner'[k] = inner[k]
    BY <2>1, PushFacts
  <2>4. \A d \in Live : pid[d] # n
    BY <2>1 DEF AllocPid, IsNextPid
  <2>5. \A d, e \in Live' : pid'[d] = pid'[e] => d = e
    BY <1>0, <2>1, <2>3, <2>4 DEF PidInv
  <2>6. ~ exited[c]
    BY <2>1 DEF Inv, FlagInv
  <2>7. ASSUME NEW k \in 1..Len(inner) PROVE Ahead(k)'
    <3>1. Ahead(k)
      BY <1>0 DEF PidInv
    <3>2. /\ inner'[k] = inner[k] /\ inner[k] # c /\ inner[k] \in Live
          /\ \A j \in 1..(k - 1) : /\ inner'[j] = inner[j] /\ inner[j] # c
                                   /\ inner[j] \in Live
      <4>1. \A j \in 1..Len(inner) : /\ inner'[j] = inner[j] /\ inner[j] # c
                                     /\ inner[j] \in Live
        BY <1>0, <2>1, <2>3
      <4>2. 1..(k - 1) \subseteq 1..Len(inner)
        BY <2>3
      <4> QED
        BY <4>1, <4>2
    <3>3. /\ ppid'[inner'[k]] = ppid[inner[k]]
          /\ \A j \in 1..(k - 1) : pid'[inner'[j]] = pid[inner[j]]
      <4>1. \A d \in Live : d # c => pid'[d] = pid[d] /\ ppid'[d] = ppid[d]
        BY <1>0, <2>1
      <4> QED
        BY <3>2, <4>1
    <3> QED
      BY <2>2, <3>1, <3>2, <3>3
  <2>8. ASSUME NEW k, k = Len(inner) + 1 PROVE Ahead(k)'
    <3>1. ppid'[c] \in {0, pid[p]} /\ inner'[k] = c
      BY <1>0, <2>1, <2>3, <2>8
    <3>2. i + 1 \in 1..(k - 1) /\ inner'[i + 1] = p
      BY <2>2, <2>3, <2>8
    <3>3. pid'[p] = pid[p] /\ ~ exited'[p]
      BY <1>0, <2>1, <2>2
    <3> QED
      BY <3>1, <3>2, <3>3
  <2>9. \A d \in Live' : pid'[d] > 0
    <3>1. n > 0
      <4>1. next_pid \in 1..(PidLimit - 1) /\ n >= next_pid
        BY <2>1 DEF Inv, TypeOK, AllocPid, IsNextPid
      <4> QED
        BY <4>1, BoundAssumption
    <3> QED
      BY <1>0, <2>1, <2>3, <3>1 DEF PidInv
  <2>10. \A d \in Live' : exited'[d] => statuses'[d] = {}
    BY <1>0, <2>2, <2>3, <2>6 DEF PidInv
  <2>11. \A k \in 1..Len(inner') : Ahead(k)'
    BY <2>3, <2>7, <2>8
  <2> QED
    BY <2>5, <2>9, <2>10, <2>11 DEF PidInv
<1>3. ASSUME NEW p \in Ptr, NEW k, Waitpid(p, k) \/ (WaitpidRetry(p) /\ k = waitkey[p])
      PROVE  PidInv'
  <2>1. /\ Receive(p, k) /\ UNCHANGED <<inner, pid, ppid, exited>> /\ ~ exited[p]
    BY <1>3, RunFacts DEF Waitpid, WaitpidRetry
  <2>2. \A c \in Ptr \ {p} : statuses'[c] = statuses[c]
    BY <1>0, <2>1 DEF Receive, TakeStatus, WaitStatus
  <2> QED
    BY <1>0, <1>1, <2>1, <2>2
<1>4. ASSUME NEW p \in Ptr, Exit(p) PROVE PidInv'
  <2>1. PICK m \in 1..Len(inner) : inner[m] = p /\ p \in Live /\ ~ exited[p]
    BY <1>4, RunFacts DEF Exit, At
  <2>2. /\ UNCHANGED <<inner, pid>> /\ exited' = [exited EXCEPT ![p] = TRUE]
        /\ (\E v \in Status : statuses' = Bequeathed(p, v)) /\ ppid' = Reparented(p) /\ Live' = Live
    BY <1>4 DEF Exit, Live
  <2>3. \A j \in 1..Len(inner) : pid[inner[j]] = pid[p] => j = m
    BY <1>0, <2>1 DEF PidInv
  <2>4. ASSUME NEW j \in 1..Len(inner), ~ exited[inner[j]], j # m
        PROVE  ~ exited'[inner[j]]
    BY <1>0, <2>1, <2>2, <2>4
  <2>5. ASSUME NEW k \in 1..Len(inner) PROVE Ahead(k)'
    <3>1. Ahead(k) /\ Ahead(m)
      BY <1>0, <2>1 DEF PidInv
    <3>2. CASE ppid[inner[k]] = pid[p]
      <4>1. ppid'[inner[k]] = ppid[p]
        BY <1>0, <2>2, <3>2 DEF Reparented
      <4>2. m \in 1..(k - 1)
        <5>1. ppid[inner[k]] # 0
          BY <1>0, <2>1, <3>2 DEF PidInv
        <5>2. PICK j \in 1..(k - 1) : pid[inner[j]] = pid[p]
          BY <3>1, <3>2, <5>1
        <5>3. j \in 1..Len(inner)
          BY <1>0, <5>2
        <5> QED
          BY <2>3, <5>2, <5>3
      <4>3. ppid[p] # 0 => \E j \in 1..(m - 1) : /\ ~ exited[inner[j]]
                                                 /\ pid[inner[j]] = ppid[p]
        BY <2>1, <3>1
      <4>4. \A j \in 1..(m - 1) : j \in 1..(k - 1) /\ j \in 1..Len(inner) /\ j # m
        BY <1>0, <2>1, <4>2
      <4> QED
        BY <2>2, <2>4, <4>1, <4>3, <4>4
    <3>3. CASE ppid[inner[k]] # pid[p]
      <4>1. ppid'[inner[k]] = ppid[inner[k]]
        BY <1>0, <2>2, <3>3 DEF Reparented
      <4>2. \A j \in 1..(k - 1) : /\ j \in 1..Len(inner)
                                  /\ pid[inner[j]] = ppid[inner[k]] => j # m
        BY <1>0, <2>1, <3>3
      <4> QED
        BY <2>2, <2>4, <3>1, <4>1, <4>2
    <3> QED
      BY <3>2, <3>3
  <2>6. \A c \in Heirs(p) : c \in Live /\ c # p /\ ~ exited[c]
    <3>1. ASSUME NEW c \in Live, pid[c] = ppid[p] PROVE c # p /\ ~ exited[c]
      <4>1. ppid[p] # 0
        BY <1>0, <3>1 DEF PidInv
      <4>2. PICK j \in 1..(m - 1) : ~ exited[inner[j]] /\ pid[inner[j]] = ppid[p]
        BY <1>0, <2>1, <4>1 DEF PidInv
      <4>3. j \in 1..Len(inner) /\ j # m /\ inner[j] \in Live
        BY SMTT(30), <1>0, <2>1, <4>2
      <4>4. c = inner[j]
        BY <1>0, <3>1, <4>2, <4>3 DEF PidInv
      <4> QED
        BY <1>0, <2>1, <4>2, <4>3, <4>4
    <3> QED
      BY <3>1 DEF Heirs
  <2>7. \A c \in Live : exited'[c] => statuses'[c] = {}
    BY <1>0, <2>1, <2>2, <2>6 DEF Bequeathed, PidInv
  <2> QED
    BY <1>0, <2>2, <2>5, <2>7 DEF PidInv
<1>5. CASE SearchClean
  <2>1. /\ i + 1 \in 2..Len(inner) /\ exited[At(i)] /\ Live' = Live \ {At(i)}
        /\ Len(inner') = Len(inner) - 1 /\ At(i) = inner[i + 1] /\ At(i) \in Ptr
        /\ \A j \in 1..(Len(inner) - 1) :
             inner'[j] = IF j < i + 1 THEN inner[j] ELSE inner[j + 1]
    BY <1>5, RemoveFacts DEF At
  <2>a. i \in Nat /\ Len(inner) \in Nat
    BY <1>0 DEF Inv, TypeOK
  <2>2. /\ pid' = [pid EXCEPT ![At(i)] = 0] /\ ppid' = [ppid EXCEPT ![At(i)] = 0]
        /\ exited' = [exited EXCEPT ![At(i)] = FALSE]
        /\ statuses' = [statuses EXCEPT ![At(i)] = {}]
    BY <1>5 DEF SearchClean, Removed, At
  <2>3. \A c \in Live' : /\ c \in Live /\ c # At(i) /\ pid'[c] = pid[c]
                         /\ exited'[c] = exited[c] /\ statuses'[c] = statuses[c]
                         /\ ppid'[c] = ppid[c]
    BY <1>0, <2>1, <2>2
  <2>4. ASSUME NEW k \in 1..(Len(inner) - 1) PROVE Ahead(k)'
    <3> DEFINE old(j) == IF j < i + 1 THEN j ELSE j + 1
    <3>1. \A j \in 1..(Len(inner) - 1) : /\ old(j) \in 1..Len(inner) /\ old(j) # i + 1
                                         /\ inner'[j] = inner[old(j)]
      <4>1. ASSUME NEW j \in 1..(Len(inner) - 1)
            PROVE  /\ old(j) \in 1..Len(inner) /\ old(j) # i + 1
                   /\ inner'[j] = inner[old(j)]
        <5>1. CASE j < i + 1
          BY <2>a, <2>1, <5>1
        <5>2. CASE ~ (j < i + 1)
          BY <2>a, <2>1, <5>2
        <5> QED
          BY <5>1, <5>2
      <4> QED
        BY <4>1
    <3>2. \A j \in 1..(Len(inner) - 1) : inner'[j] \in Live'
      BY <2>1 DEF Live
    <3>3. Ahead(old(k))
      BY <1>0, <3>1 DEF PidInv
    <3>4. ASSUME NEW j \in 1..(old(k) - 1), ~ exited[inner[j]]
          PROVE  \E l \in 1..(k - 1) : old(l) = j /\ l \in 1..(Len(inner) - 1)
      <4>1. j # i + 1 /\ j \in 1..Len(inner) /\ i \in Nat
        <5>1. old(k) \in 1..Len(inner)
          BY <3>1
        <5>2. old(k) \in Nat /\ j \in 1..Len(inner)
          BY <2>a, <5>1
        <5> QED
          BY <2>a, <2>1, <3>4, <5>2
      <4>2. CASE j < i + 1
        <5>1. j \in 1..(k - 1) /\ old(j) = j /\ j \in 1..(Len(inner) - 1)
          BY <2>1, <4>1, <4>2
        <5> QED
          BY <5>1
      <4>3. CASE j > i + 1
        <5>1. /\ j - 1 \in 1..(k - 1) /\ old(j - 1) = j
              /\ j - 1 \in 1..(Len(inner) - 1)
          BY <2>1, <4>1, <4>3
        <5> QED
          BY <5>1
      <4> QED
        BY <4>1, <4>2, <4>3
    <3>5. ppid'[inner'[k]] = ppid[inner[old(k)]]
      BY <2>3, <3>1, <3>2
    <3>6. ASSUME ppid[inner[old(k)]] # 0
          PROVE  \E l \in 1..(k - 1) : /\ ~ exited'[inner'[l]]
                                       /\ pid'[inner'[l]] = ppid'[inner'[k]]
      <4>1. PICK j \in 1..(old(k) - 1) : /\ ~ exited[inner[j]]
                                         /\ pid[inner[j]] = ppid[inner[old(k)]]
        BY <3>3, <3>6
      <4>2. PICK l \in 1..(k - 1) : old(l) = j /\ l \in 1..(Len(inner) - 1)
        BY <3>4, <4>1
      <4>3. inner'[l] = inner[j] /\ inner'[l] \in Live'
        BY <3>1, <3>2, <4>2
      <4> QED
        BY <2>3, <3>5, <4>1, <4>2, <4>3
    <3> QED
      BY <3>5, <3>6
  <2> QED
    BY SMTT(30), <1>0, <2>1, <2>3, <2>4 DEF PidInv
<1>6. ASSUME NEW p \in Ptr, NEW t, Nanosleep(p, t) PROVE PidInv'
  BY <1>1, <1>6 DEF Nanosleep
<1>7. ASSUME NEW p \in Ptr, Yield(p) \/ IdleSwitch(p) \/ Timer(p) \/ KExec(p)
      PROVE  PidInv'
  BY <1>1, <1>7 DEF Yield, IdleSwitch, Timer, KExec
<1>8. CASE SearchWrap \/ SearchSkip \/ SearchStop
  BY <1>1, <1>8 DEF SearchWrap, SearchSkip, SearchStop, SwitchTo
<1>9. CASE UNCHANGED vars
  BY <1>1, <1>9 DEF vars
<1> QED
  BY <1>2, <1>3, <1>4, <1>5, <1>6, <1>7, <1>8, <1>9 DEF Next, Search

-----------------------------------------------------------------------------
(* The inductive invariant holds in every reachable state.                   *)
THEOREM Invariance == Spec => []Inv
<1>1. Inv /\ [Next]_vars => Inv'
  BY NextTypeOK, InvSched, NextListInv, NextCursorInv, NextFlagInv, NextExecInv,
     NextVforkInv, NextWaitInv, NextPidInv DEF Inv
<1> QED
  BY InitInv, <1>1, PTL DEF Spec

(* Every variable of the process core keeps its type.                        *)
THEOREM TypeCorrect == Spec => []TypeOK
<1>1. Inv => TypeOK
  BY DEF Inv
<1> QED
  BY Invariance, <1>1, PTL

(* The search of context_switch never frees or displaces the context it      *)
(* runs in, and no context is resumed on another one's stack.                *)
THEOREM CpuOwned == Spec => []CpuOwnership
<1>1. Inv => CpuOwnership
  BY DEF Inv, TypeOK, CursorInv, CpuOwnership
<1> QED
  BY Invariance, <1>1, PTL

(* Only contexts that are neither blocked nor exited execute.                *)
THEOREM OnlyRunnableRuns == Spec => []RunningIsRunnable
<1>1. Inv => RunningIsRunnable
  BY DEF Inv, CursorInv, RunningIsRunnable
<1> QED
  BY Invariance, <1>1, PTL

(* next_pid never hands out the pid of a context in the list.                *)
THEOREM PidsUnique == Spec => []PidUnique
<1>1. Inv => PidUnique
  BY DEF Inv, PidInv, PidUnique
<1> QED
  BY Invariance, <1>1, PTL

(* do_sys_exit leaves no context with a parent that has exited.              *)
THEOREM ParentsAlive == Spec => []ParentAlive
<1>1. ASSUME Inv PROVE ParentAlive
  <2>1. inner \in Seq(Ptr)
    BY <1>1 DEF Inv, TypeOK
  <2>2. ASSUME NEW k \in 1..Len(inner), ppid[inner[k]] # 0
        PROVE  \E d \in Live : ~ exited[d] /\ pid[d] = ppid[inner[k]]
    <3>1. PICK j \in 1..(k - 1) : ~ exited[inner[j]] /\ pid[inner[j]] = ppid[inner[k]]
      BY <1>1, <2>2 DEF Inv, PidInv
    <3>2. inner[j] \in Live
      BY <2>1, <3>1 DEF Live
    <3> QED
      BY <3>1, <3>2
  <2> QED
    BY <2>2 DEF ParentAlive, Live
<1> QED
  BY Invariance, <1>1, PTL

(* Pids name one context each and parents live, through reuse and exits      *)
(* (next_pid and do_sys_exit).                                               *)
THEOREM FamilyIntact == Spec => []FamilyTree
<1>1. PidUnique /\ ParentAlive => FamilyTree
  BY DEF FamilyTree
<1> QED
  BY PidsUnique, ParentsAlive, <1>1, PTL

(* The vfork pointer is valid, and its target blocked, whenever the child    *)
(* may still write through it.                                               *)
THEOREM VforkSafe == Spec => []VforkParentBlocked
<1>1. ASSUME Inv PROVE VforkParentBlocked
  <2>1. mode \in {"run", "search"}
    BY <1>1 DEF Inv, TypeOK
  <2>2. mode = "run" => ~ blocked[running]
    BY <1>1 DEF Inv, CursorInv
  <2> QED
    BY <1>1, <2>1, <2>2 DEF Inv, VforkInv, VforkParentBlocked
<1> QED
  BY Invariance, <1>1, PTL

(* A context blocked in waitpid has no status to collect.                    *)
THEOREM NoLostWakeup == Spec => []WaitpidNotForgotten
<1>1. Inv => WaitpidNotForgotten
  BY LiveFacts DEF Inv, WaitInv, WaitpidNotForgotten
<1> QED
  BY Invariance, <1>1, PTL

-----------------------------------------------------------------------------
(* The search goes through the list from a context that has called execve to *)
(* the kexec thread that was pushed behind it, and cannot pass the thread.   *)
Pending(k, j) ==
  /\ pc[inner[j]] = "kexec" /\ target[inner[j]] = inner[k] /\ ~ blocked[inner[j]]
  /\ k <= i /\ i < j
OrderInv == \A k \in 1..Len(inner) : pc[inner[k]] = "exec" =>
              \E j \in 1..Len(inner) : Pending(k, j)

(* A step that makes no context call execve and touches no kexec thread, and *)
(* moves the index by at most one, and not from a thread that can run.       *)
CalmStep ==
  /\ \A c \in Live : pc'[c] = "exec" => pc[c] = "exec"
  /\ \A c \in Live : pc[c] = "kexec" => /\ pc'[c] = "kexec" /\ target'[c] = target[c]
                                        /\ ~ blocked[c] => ~ blocked'[c]
  /\ i' = i \/ (i' = i + 1 /\ (pc[inner[i + 1]] # "kexec" \/ blocked[inner[i + 1]]))

(* A calm step, which may also push a context, keeps the pairs that are      *)
(* pending.                                                                  *)
LEMMA CalmPending ==
  ASSUME Inv, CalmStep, NEW k \in 1..Len(inner), NEW j \in 1..Len(inner), Pending(k, j),
         Len(inner') >= Len(inner), \A m \in 1..Len(inner) : inner'[m] = inner[m]
  PROVE  Pending(k, j)'
<1>1. inner \in Seq(Ptr) /\ i \in Nat
  BY DEF Inv, TypeOK
<1>2. inner[j] \in Live /\ inner'[j] = inner[j] /\ inner'[k] = inner[k]
  BY <1>1 DEF Live
<1>3. /\ pc[inner[j]] = "kexec" /\ target[inner[j]] = inner[k] /\ ~ blocked[inner[j]]
      /\ k <= i /\ i < j
  BY DEF Pending
<1>4. pc'[inner[j]] = "kexec" /\ target'[inner[j]] = inner[k] /\ ~ blocked'[inner[j]]
  BY <1>2, <1>3 DEF CalmStep
<1>5. k <= i' /\ i' < j
  <2>1. CASE i' = i
    BY <2>1, <1>3
  <2>2. CASE i' = i + 1 /\ (pc[inner[i + 1]] # "kexec" \/ blocked[inner[i + 1]])
    <3>1. i + 1 # j
      BY <2>2, <1>3
    <3> QED BY <3>1, <2>2, <1>1, <1>3
  <2> QED BY <2>1, <2>2 DEF CalmStep
<1> QED BY <1>2, <1>4, <1>5 DEF Pending

(* A calm step that leaves the list alone.                                   *)
LEMMA CalmOrder ==
  ASSUME Inv, OrderInv, CalmStep, UNCHANGED inner
  PROVE  OrderInv'
<1> SUFFICES ASSUME NEW k \in 1..Len(inner), pc'[inner[k]] = "exec"
             PROVE  \E j \in 1..Len(inner) : Pending(k, j)'
  BY DEF OrderInv
<1>1. inner \in Seq(Ptr) /\ Len(inner) \in Nat
  BY DEF Inv, TypeOK
<1>2. pc[inner[k]] = "exec"
  BY DEF CalmStep, Live
<1>3. PICK j \in 1..Len(inner) : Pending(k, j)
  BY <1>2 DEF OrderInv
<1> QED BY <1>1, <1>3, CalmPending

(* A calm step that pushes a context.                                        *)
LEMMA CalmPush ==
  ASSUME Inv, OrderInv, CalmStep, NEW c \in Ptr \ Live, inner' = Append(inner, c),
         pc'[c] # "exec"
  PROVE  OrderInv'
<1>1. /\ Len(inner) \in Nat /\ Len(inner') = Len(inner) + 1 /\ inner'[Len(inner) + 1] = c
      /\ \A m \in 1..Len(inner) : inner'[m] = inner[m]
  BY PushFacts
<1> SUFFICES ASSUME NEW k \in 1..Len(inner'), pc'[inner'[k]] = "exec"
             PROVE  \E j \in 1..Len(inner') : Pending(k, j)'
  BY DEF OrderInv
<1>2. k \in 1..Len(inner) /\ inner'[k] = inner[k]
  BY <1>1
<1>3. pc[inner[k]] = "exec"
  BY <1>2 DEF CalmStep, Live
<1>4. PICK j \in 1..Len(inner) : Pending(k, j)
  BY <1>2, <1>3 DEF OrderInv
<1>5. j \in 1..Len(inner') /\ Pending(k, j)'
  BY <1>1, <1>2, <1>4, CalmPending
<1> QED BY <1>5

(* Every step keeps the order, because push appends, the search goes forward *)
(* and clean only removes contexts at the index.                             *)
LEMMA NextOrderInv == Inv /\ OrderInv /\ [Next]_vars => OrderInv'
<1> SUFFICES ASSUME Inv, OrderInv, [Next]_vars PROVE OrderInv'
  OBVIOUS
<1>0. /\ inner \in Seq(Ptr) /\ Len(inner) \in Nat /\ i \in Nat /\ pc \in [Ptr -> PCs]
      /\ blocked \in [Ptr -> BOOLEAN] /\ target \in [Ptr -> Ptr \cup {NoCtx}]
      /\ Live \subseteq Ptr
  <2>1. /\ inner \in Seq(Ptr) /\ i \in Nat /\ pc \in [Ptr -> PCs]
        /\ blocked \in [Ptr -> BOOLEAN] /\ target \in [Ptr -> Ptr \cup {NoCtx}]
    BY DEF Inv, TypeOK
  <2>2. Len(inner) \in Nat
    BY <2>1
  <2> QED BY <2>1, <2>2, LiveFacts
<1>1. ASSUME NEW p \in Ptr, NEW where, InKernel(p, where)
      PROVE  p \in Live /\ p = running /\ p = inner[i + 1] /\ i + 1 \in 1..Len(inner) /\ pc[p] = where
  BY <1>1, RunFacts DEF At, InKernel
<1>2. ASSUME NEW p \in Ptr, NEW c \in Ptr, Clone(p, c) \/ CloneVfork(p, c) PROVE OrderInv'
  <2>1. /\ c \in Ptr \ Live /\ inner' = Append(inner, c) /\ InKernel(p, "user")
        /\ pc' = [pc EXCEPT ![c] = "user"] /\ target' = [target EXCEPT ![c] = NoCtx]
        /\ blocked' = blocked \/ blocked' = [blocked EXCEPT ![p] = TRUE]
        /\ i' = i \/ i' = i + 1
    BY <1>0, <1>2 DEF Clone, CloneVfork, NewContext, StartSwitch, sched
  <2>2. p \in Live /\ p = inner[i + 1] /\ pc[p] = "user"
    BY <2>1, <1>1
  <2>3. CalmStep
    BY <1>0, <2>1, <2>2 DEF CalmStep
  <2> QED BY <1>0, <2>1, <2>3, CalmPush
<1>3. ASSUME NEW p \in Ptr, NEW c \in Ptr, Execve(p, c) PROVE OrderInv'
  <2>1. /\ c \in Ptr \ Live /\ inner' = Append(inner, c)
        /\ pc' = [pc EXCEPT ![c] = "kexec", ![p] = "exec"]
        /\ target' = [target EXCEPT ![c] = p] /\ blocked' = blocked /\ i' = i + 1
    BY <1>3, <1>1 DEF Execve, NewContext, StartSwitch, InKernel
  <2>2. p \in Live /\ p = inner[i + 1] /\ i + 1 \in 1..Len(inner) /\ pc[p] \in {"user", "kinit"}
    BY <1>3, <1>1 DEF Execve
  <2>3. /\ Len(inner') = Len(inner) + 1 /\ inner'[Len(inner) + 1] = c
        /\ \A m \in 1..Len(inner) : inner'[m] = inner[m]
    BY <2>1, PushFacts
  <2>4. PICK last \in 1..Len(inner') : last = Len(inner) + 1
    BY <1>0, <2>3
  <2>5. PICK at \in 1..Len(inner) : at = i + 1
    BY <2>2
  <2>6. Pending(at, last)'
    <3>1. ~ blocked[c] /\ c # p
      BY <2>1, <2>2 DEF Inv, FlagInv
    <3>2. pc'[c] = "kexec" /\ target'[c] = p /\ ~ blocked'[c]
      BY <3>1, <2>1, <1>0
    <3>3. inner'[last] = c /\ inner'[at] = p /\ at <= i' /\ i' < last
      BY <1>0, <2>1, <2>2, <2>3, <2>4, <2>5
    <3> QED BY <3>2, <3>3 DEF Pending
  <2>7. ASSUME NEW k \in 1..Len(inner'), pc'[inner'[k]] = "exec"
        PROVE  \E j \in 1..Len(inner') : Pending(k, j)'
    <3>1. CASE inner'[k] = p
      <4>0. c # p
        BY <2>1, <2>2
      <4>1. k \in 1..Len(inner) /\ inner[k] = p
        BY <4>0, <3>1, <1>0, <2>3
      <4>2. k = at
        BY <4>1, <2>2, <2>5 DEF Inv, ListInv
      <4> QED BY <4>2, <2>6, <2>4
    <3>2. CASE inner'[k] # p
      <4>1. inner'[k] # c
        BY <2>7, <2>1, <2>2, <1>0
      <4>2. k \in 1..Len(inner) /\ inner'[k] = inner[k] /\ inner[k] \in Live
        BY <4>1, <2>3, <1>0 DEF Live
      <4>3. pc[inner[k]] = "exec"
        BY <4>1, <4>2, <3>2, <2>1, <2>7, <1>0
      <4>4. PICK j \in 1..Len(inner) : Pending(k, j)
        BY <4>2, <4>3 DEF OrderInv
      <4>5. /\ inner[j] \in Live /\ inner[j] # c /\ inner[j] # p
            /\ inner'[j] = inner[j] /\ j \in 1..Len(inner')
        BY <4>4, <2>1, <2>2, <2>3, <1>0 DEF Live, Pending
      <4>6. i + 1 # j
        BY <4>5, <2>2
      <4>7. pc'[inner[j]] = pc[inner[j]] /\ target'[inner[j]] = target[inner[j]]
        BY <4>5, <2>1, <1>0
      <4>8. k <= i' /\ i' < j
        BY <4>4, <4>6, <2>1, <1>0 DEF Pending
      <4>9. Pending(k, j)'
        BY <4>2, <4>4, <4>5, <4>7, <4>8, <2>1 DEF Pending
      <4> QED BY <4>5, <4>9
    <3> QED BY <3>1, <3>2
  <2> QED BY <2>7 DEF OrderInv
<1>4. ASSUME NEW p \in Ptr, NEW k, Waitpid(p, k) \/ (WaitpidRetry(p) /\ k = waitkey[p])
      PROVE  OrderInv'
  <2>1. /\ Receive(p, k) /\ UNCHANGED <<inner, target>>
        /\ InKernel(p, "user") \/ InKernel(p, "waitpid")
    BY <1>4 DEF Waitpid, WaitpidRetry
  <2>2. p \in Live /\ p = inner[i + 1] /\ pc[p] \in {"user", "waitpid"}
    BY <2>1, <1>1
  <2>3. /\ pc' = [pc EXCEPT ![p] = "user"] \/ pc' = [pc EXCEPT ![p] = "waitpid"]
        /\ blocked' = blocked \/ blocked' = [blocked EXCEPT ![p] = TRUE]
        /\ i' = i \/ i' = i + 1
    BY <2>1, <2>2 DEF Receive, TakeStatus, WaitStatus, StartSwitch, sched, At
  <2>4. CalmStep
    BY <1>0, <2>1, <2>2, <2>3 DEF CalmStep
  <2> QED BY <2>1, <2>4, CalmOrder
<1>5. ASSUME NEW p \in Ptr, Exit(p) PROVE OrderInv'
  <2>1. p \in Live /\ p = inner[i + 1] /\ pc[p] \in {"user", "kinit", "kexit"}
    BY <1>5, <1>1 DEF Exit
  <2>2. /\ pc' = [pc EXCEPT ![p] = "exit"] /\ UNCHANGED <<inner, target>> /\ i' = i + 1
        /\ \A c \in Ptr : blocked'[c] => blocked[c]
    BY <1>5 DEF Exit, StartSwitch, Notified
  <2>3. CalmStep
    BY <1>0, <2>1, <2>2 DEF CalmStep
  <2> QED BY <2>2, <2>3, CalmOrder
<1>6. ASSUME NEW p \in Ptr, KExec(p) PROVE OrderInv'
  <2>1. p \in Live /\ pc[p] = "kexec"
    BY <1>6, <1>1 DEF KExec
  <2>2. target[p] \in Live /\ pc[target[p]] = "exec" /\ target[p] # p
    BY <2>1 DEF Inv, ExecInv
  <2>3. /\ inner' = inner /\ i' = i /\ target' = [target EXCEPT ![p] = NoCtx]
        /\ pc' = [pc EXCEPT ![target[p]] = "user", ![p] = "kexit"]
        /\ \A c \in Ptr : blocked'[c] => blocked[c]
    BY <1>6 DEF KExec, sched
  <2>4. ASSUME NEW k \in 1..Len(inner), pc'[inner[k]] = "exec"
        PROVE  \E j \in 1..Len(inner) : Pending(k, j)'
    <3>1. inner[k] \in Live /\ pc[inner[k]] = "exec" /\ inner[k] # target[p]
      BY <2>1, <2>2, <2>3, <2>4, <1>0 DEF Live
    <3>2. PICK j \in 1..Len(inner) : Pending(k, j)
      BY <3>1 DEF OrderInv
    <3>3. /\ inner[j] \in Live /\ pc[inner[j]] = "kexec" /\ target[inner[j]] = inner[k]
          /\ inner[j] # p /\ inner[j] # target[p]
      BY <3>1, <3>2, <2>2 DEF Pending, Live
    <3>4. pc'[inner[j]] = "kexec" /\ target'[inner[j]] = target[inner[j]]
      BY <3>3, <2>1, <2>2, <2>3, <1>0
    <3>5. ~ blocked'[inner[j]]
      BY <3>2, <3>3, <2>3, <1>0 DEF Pending
    <3> QED BY <3>2, <3>3, <3>4, <3>5, <2>3 DEF Pending
  <2> QED BY <2>3, <2>4 DEF OrderInv
<1>7. ASSUME NEW p \in Ptr, NEW t, Nanosleep(p, t) \/ Yield(p) \/ IdleSwitch(p) \/ Timer(p)
      PROVE  OrderInv'
  <2>1. /\ UNCHANGED <<inner, pc, target>> /\ i' = i + 1
        /\ blocked' = blocked \/ blocked' = [blocked EXCEPT ![p] = TRUE]
    BY <1>7 DEF Nanosleep, Yield, IdleSwitch, Timer, StartSwitch
  <2>2. p \in Live /\ p = inner[i + 1] /\ pc[p] \in {"user", "idle"}
    BY <1>7, <1>1 DEF Nanosleep, Yield, IdleSwitch, Timer
  <2>3. CalmStep
    BY <1>0, <2>1, <2>2 DEF CalmStep
  <2> QED BY <2>1, <2>3, CalmOrder
<1>8. CASE SearchWrap
  <2>1. i >= Len(inner) /\ UNCHANGED <<inner, pc>>
    BY <1>8 DEF SearchWrap
  <2>2. \A k \in 1..Len(inner) : pc[inner[k]] # "exec"
    BY <1>0, <2>1 DEF OrderInv, Pending
  <2> QED BY <2>1, <2>2 DEF OrderInv
<1>9. CASE SearchSkip \/ SearchStop
  <2>1. /\ UNCHANGED <<inner, pc, target>>
        /\ \A c \in Ptr : blocked'[c] => blocked[c]
        /\ i' = i \/ (i' = i + 1 /\ blocked[inner[i + 1]])
    BY <1>9 DEF SearchSkip, SearchStop, CanRun, At
  <2>2. CalmStep
    BY <1>0, <2>1 DEF CalmStep
  <2> QED BY <2>1, <2>2, CalmOrder
<1>10. CASE SearchClean
  <2>1. /\ exited[At(i)] /\ At(i) \in Ptr /\ i + 1 \in 1..Len(inner)
        /\ Len(inner') = Len(inner) - 1
        /\ \A j \in 1..(Len(inner) - 1) :
             inner'[j] = IF j < i + 1 THEN inner[j] ELSE inner[j + 1]
    BY <1>10, <1>0, RemoveFacts
  <2>2. pc[At(i)] = "exit"
    BY <2>1 DEF Inv, FlagInv
  <2>3. /\ pc' = [pc EXCEPT ![At(i)] = "free"] /\ target' = [target EXCEPT ![At(i)] = NoCtx]
        /\ \A c \in Ptr : blocked'[c] => blocked[c]
        /\ i' = i
    BY <1>10 DEF SearchClean, Removed, At, sched
  <2>4. ASSUME NEW k \in 1..Len(inner'), pc'[inner'[k]] = "exec"
        PROVE  \E j \in 1..Len(inner') : Pending(k, j)'
    <3>1. PICK m \in 1..Len(inner) : m = IF k < i + 1 THEN k ELSE k + 1
      BY <1>0, <2>1
    <3>2. inner'[k] = inner[m] /\ inner[m] \in Ptr
      BY <3>1, <1>0, <2>1
    <3>3. pc[inner[m]] = "exec"
      BY <3>2, <2>1, <2>3, <2>4, <1>0
    <3>4. PICK j \in 1..Len(inner) : Pending(m, j)
      BY <3>3 DEF OrderInv
    <3>5. m = k
      BY <3>1, <3>4, <1>0 DEF Pending
    <3>6. inner[j] \in Ptr /\ pc[inner[j]] = "kexec" /\ inner[j] # At(i) /\ j # i + 1
      BY <3>4, <2>2, <1>0 DEF Pending, At
    <3>7. PICK l \in 1..Len(inner') : l = j - 1
      BY <3>4, <3>6, <2>1, <1>0 DEF Pending
    <3>8. inner'[l] = inner[j] /\ i < l
      BY <3>4, <3>6, <3>7, <2>1, <1>0 DEF Pending
    <3>9. pc'[inner[j]] = "kexec" /\ target'[inner[j]] = target[inner[j]] /\ ~ blocked'[inner[j]]
      BY <3>4, <3>6, <2>3, <1>0 DEF Pending
    <3>10. Pending(k, l)'
      BY <3>2, <3>4, <3>5, <3>8, <3>9, <2>3 DEF Pending
    <3> QED BY <3>10
  <2> QED BY <2>4 DEF OrderInv
<1>11. CASE UNCHANGED vars
  <2>1. CalmStep /\ UNCHANGED inner
    BY <1>11 DEF CalmStep, vars
  <2> QED BY <2>1, CalmOrder
<1> QED
  BY <1>2, <1>3, <1>4, <1>5, <1>6, <1>7, <1>8, <1>9, <1>10, <1>11 DEF Next, Search

(* The pointer that a kexec thread of execute_thread captured is valid, and  *)
(* the context whose memory was replaced does not run before the thread has  *)
(* set up its registers, whatever else is scheduled, exits or is reaped in   *)
(* between.                                                                  *)
THEOREM ExecWaits == Spec => []ExecTargetWaits
<1>1. Init => OrderInv
  <2> SUFFICES ASSUME Init PROVE OrderInv
    OBVIOUS
  <2>1. \A c \in Ptr : pc[c] # "exec"
    BY PtrAssumption DEF Init
  <2>2. \A k \in 1..Len(inner) : inner[k] \in Ptr
    BY PtrAssumption DEF Init
  <2> QED BY <2>1, <2>2 DEF OrderInv
<1>2. Inv /\ OrderInv => ExecTargetWaits
  <2> SUFFICES ASSUME Inv, OrderInv PROVE ExecTargetWaits
    OBVIOUS
  <2>1. ASSUME mode = "run" PROVE pc[running] # "exec"
    <3>1. i \in Nat /\ inner \in Seq(Ptr) /\ i < Len(inner) /\ running = inner[i + 1]
      BY <2>1 DEF Inv, TypeOK, CursorInv, At
    <3>2. i + 1 \in 1..Len(inner) /\ ~ (i + 1 <= i)
      BY <3>1
    <3> QED BY <3>1, <3>2 DEF OrderInv, Pending
  <2> QED BY <2>1 DEF Inv, ExecInv, ExecTargetWaits
<1> QED
  BY <1>1, <1>2, Invariance, NextOrderInv, PTL DEF Spec

(* Nothing but its own time ends a sleep.                                    *)
THEOREM SleepsInFull == Spec => SleepNotCutShort
<1> DEFINE Asleep(c) == blocked[c] /\ wake[c] > 0
<1>1. ASSUME Inv, [Next]_vars, NEW c \in Live, Asleep(c) PROVE StillAsleep(c)
  <2>0. /\ c \in Ptr /\ wake \in [Ptr -> -1..MaxSleep] /\ MaxSleep \in Nat
        /\ blocked \in [Ptr -> BOOLEAN]
    BY <1>1, LiveFacts, BoundAssumption DEF Inv, TypeOK
  <2>1. wake[c] # NoWake /\ wake[c] # 0 /\ pc[c] = "user"
    BY <1>1, <2>0 DEF Inv, WaitInv, NoWake
  <2>2. ASSUME UNCHANGED wake, blocked'[c] = blocked[c] PROVE StillAsleep(c)
    BY <1>1, <2>0, <2>2 DEF StillAsleep
  <2>3. ASSUME NEW p, NEW where, InKernel(p, where) PROVE p # c
    BY <1>1, <2>3, RunFacts
  <2>4. ASSUME NEW p \in Ptr, NEW d \in Ptr, Clone(p, d) \/ CloneVfork(p, d) \/ Execve(p, d)
        PROVE  StillAsleep(c)
    BY <2>0, <2>2, <2>3, <2>4 DEF Clone, CloneVfork, Execve
  <2>5. ASSUME NEW p \in Ptr, NEW k, Waitpid(p, k) \/ (WaitpidRetry(p) /\ k = waitkey[p])
        PROVE  StillAsleep(c)
    <3>1. p # c /\ Receive(p, k) /\ At(i) = p /\ wake' = wake
      BY <1>1, <2>3, <2>5, RunFacts DEF Waitpid, WaitpidRetry
    <3> QED
      BY <2>0, <2>2, <3>1 DEF Receive, TakeStatus, WaitStatus
  <2>6. ASSUME NEW p \in Ptr, NEW t, Nanosleep(p, t) PROVE StillAsleep(c)
    <3>1. p # c
      BY <2>3, <2>6 DEF Nanosleep
    <3>2. blocked'[c] = blocked[c] /\ wake'[c] = wake[c]
      BY <2>0, <2>6, <3>1 DEF Nanosleep
    <3> QED
      BY <1>1, <3>2 DEF StillAsleep
  <2>7. ASSUME NEW p \in Ptr, Exit(p) PROVE StillAsleep(c)
    <3>1. \A d \in Ptr : c \notin waiters[d]
      BY <1>1, <2>0, <2>1 DEF Inv, WaitInv
    <3>2. c \notin UNION {waiters[d] : d \in Heirs(p)}
      BY <1>1, <3>1, LiveFacts DEF Heirs
    <3> QED
      BY <2>0, <2>2, <2>7, <3>2 DEF Exit, Notified
  <2>8. ASSUME NEW p \in Ptr, KExec(p) PROVE StillAsleep(c)
    <3>1. p \in Live /\ pc[p] = "kexec"
      BY <1>1, <2>8, RunFacts DEF KExec, InKernel
    <3>2. target[p] \in Live
      BY <1>1, <3>1 DEF Inv, ExecInv
    <3>3. c # vfork[target[p]]
      BY <1>1, <2>0, <2>1, <3>2, PtrAssumption DEF Inv, VforkInv
    <3> QED
      BY <2>0, <2>2, <2>8, <3>3 DEF KExec
  <2>9. ASSUME NEW p \in Ptr, Timer(p) PROVE StillAsleep(c)
    BY <1>1, <2>0, <2>9 DEF Timer, StillAsleep
  <2>10. ASSUME NEW p \in Ptr, Yield(p) \/ IdleSwitch(p) PROVE StillAsleep(c)
    BY <2>2, <2>10 DEF Yield, IdleSwitch
  <2>11. CASE SearchWrap \/ SearchSkip
    BY <2>2, <2>11 DEF SearchWrap, SearchSkip
  <2>12. CASE SearchStop
    <3>1. ~ Due(c)
      BY <2>1 DEF Due
    <3>2. blocked'[c] = blocked[c] /\ wake'[c] = wake[c]
      BY <2>0, <2>12, <3>1 DEF SearchStop, SwitchTo
    <3> QED
      BY <1>1, <3>2 DEF StillAsleep
  <2>13. CASE SearchClean
    <3>1. At(i) \in Live /\ At(i) \in Ptr /\ exited[At(i)]
      BY <1>1, <2>13, RemoveFacts
    <3>2. pc[At(i)] = "exit"
      BY <1>1, <3>1 DEF Inv, FlagInv
    <3>3. c # At(i) /\ c \notin waiters[At(i)] /\ c # vfork[At(i)]
      BY <1>1, <2>0, <2>1, <3>1, <3>2, PtrAssumption DEF Inv, WaitInv, VforkInv
    <3>4. blocked'[c] = blocked[c] /\ wake'[c] = wake[c]
      BY <2>0, <2>13, <3>3 DEF SearchClean, Removed, At
    <3> QED
      BY <1>1, <3>4 DEF StillAsleep
  <2>14. CASE UNCHANGED vars
    BY <2>2, <2>14 DEF vars
  <2> QED
    BY <1>1, <2>4, <2>5, <2>6, <2>7, <2>8, <2>9, <2>10, <2>11, <2>12, <2>13,
       <2>14 DEF Next, Search
<1>2. Inv /\ [Next]_vars =>
        [\A c \in Live : blocked[c] /\ wake[c] > 0 => StillAsleep(c)]_vars
  BY <1>1
<1> QED
  BY Invariance, <1>2, PTL DEF Spec, SleepNotCutShort

(* An exit status that was not collected stays with a context that can still *)
(* collect it, until its holder takes it, exits without a parent, or another *)
(* context exits under the same pid: nothing else in exit, re-parenting,     *)
(* waitpid and reaping loses or changes one.                                 *)
THEOREM StatusNeverLost == Spec => StatusesKept
<1>1. ASSUME Inv, [Next]_vars, NEW c \in Live, NEW e \in statuses[c]
      PROVE  \/ Kept(e) \/ Collected(c, e) \/ Overwritten(c, e)
             \/ exited'[c] /\ ppid[c] = 0
  <2>0. /\ c \in Ptr /\ statuses \in [Ptr -> SUBSET (Nat \X Status)] /\ inner \in Seq(Ptr)
        /\ exited \in [Ptr -> BOOLEAN] /\ ~ exited[c] /\ pc \in [Ptr -> PCs]
    BY <1>1, LiveFacts DEF Inv, TypeOK, PidInv
  <2>1. ASSUME statuses'[c] = statuses[c], exited'[c] = exited[c]
        PROVE  Kept(e)
    BY <1>1, <2>0, <2>1 DEF Kept
  <2>2. ASSUME NEW p \in Ptr, NEW d \in Ptr, Clone(p, d) \/ CloneVfork(p, d) \/ Execve(p, d)
        PROVE  Kept(e)
    BY <2>1, <2>2 DEF Clone, CloneVfork, Execve
  <2>3. ASSUME NEW p \in Ptr, NEW l, Waitpid(p, l) \/ (WaitpidRetry(p) /\ l = waitkey[p])
        PROVE  Kept(e) \/ Collected(c, e)
    <3>1. /\ Receive(p, l) /\ exited' = exited /\ p = running /\ mode = "run"
          /\ pc[p] = "user" \/ (pc[p] = "waitpid" /\ l = waitkey[p])
      BY <1>1, <2>3, RunFacts DEF Waitpid, WaitpidRetry, InKernel
    <3>2. CASE WaitStatus(p, l) \/ c # p
      BY <2>0, <2>1, <3>1, <3>2 DEF Receive, TakeStatus, WaitStatus
    <3>3. CASE TakeStatus(p, l) /\ c = p
      <4>1. statuses'[c] = {f \in statuses[c] : f[1] # l}
        BY <2>0, <3>3 DEF TakeStatus
      <4>2. CASE e[1] = l
        BY <2>0, <3>1, <3>3, <4>1, <4>2 DEF Collected
      <4>3. CASE e[1] # l
        BY <1>1, <2>0, <3>1, <4>1, <4>3 DEF Kept
      <4> QED BY <4>2, <4>3
    <3> QED
      BY <3>1, <3>2, <3>3 DEF Receive
  <2>4. ASSUME NEW p \in Ptr, Exit(p)
        PROVE  Kept(e) \/ Overwritten(c, e) \/ (exited'[c] /\ ppid[c] = 0)
    <3>1. PICK v \in Status : exited' = [exited EXCEPT ![p] = TRUE] /\ statuses' = Bequeathed(p, v)
      BY <2>4 DEF Exit
    <3>0. mode = "run" /\ running = p /\ exited'[p]
      BY <2>0, <2>4, <3>1 DEF Exit, InKernel, Inv, TypeOK
    <3>a. pid[p] \in Nat
      BY <1>1, <2>4 DEF Inv, TypeOK
    <3>2. CASE c # p /\ c \notin Heirs(p)
      <4>1. statuses'[c] = statuses[c] /\ exited'[c] = exited[c]
        BY <2>0, <3>1, <3>2 DEF Bequeathed
      <4> QED BY <2>1, <4>1
    <3>3. CASE c # p /\ c \in Heirs(p)
      <4>1. /\ statuses'[c] = Inserted(Inserted(statuses[c], {<<pid[p], v>>}), statuses[p])
            /\ ~ exited'[c]
        BY <2>0, <3>1, <3>3 DEF Bequeathed
      <4>2. CASE e[1] \notin Keys(statuses[p]) \cup {pid[p]}
        <5>1. e[1] \notin Keys({<<pid[p], v>>})
          BY <4>2 DEF Keys
        <5>2. e \in statuses'[c]
          BY <1>1, <4>1, <4>2, <5>1 DEF Inserted
        <5> QED BY <2>0, <4>1, <5>2 DEF Kept
      <4>3. CASE e[1] \in Keys(statuses[p])
        <5>1. PICK f \in statuses[p] : f[1] = e[1]
          BY <4>3 DEF Keys
        <5>2. f \in statuses'[c]
          BY <4>1, <5>1 DEF Inserted
        <5> QED BY <3>0, <3>3, <4>3, <5>1, <5>2 DEF Overwritten
      <4>4. CASE e[1] = pid[p] /\ e[1] \notin Keys(statuses[p])
        <5> DEFINE f == <<pid[p], v>>
        <5>1. f[1] = e[1] /\ f \in Inserted(statuses[c], {f})
          BY <4>4 DEF Inserted
        <5>2. f \in statuses'[c]
          BY <4>1, <4>4, <5>1 DEF Inserted
        <5> QED BY <3>0, <3>3, <4>4, <5>1, <5>2 DEF Overwritten
      <4> QED BY <4>2, <4>3, <4>4
    <3>4. CASE c = p /\ ppid[c] = 0
      BY <2>0, <3>1, <3>4
    <3>5. CASE c = p /\ ppid[c] # 0
      <4>1. PICK m \in 1..Len(inner) : inner[m] = c
        BY <1>1 DEF Live
      <4>2. PICK j \in 1..(m - 1) : ~ exited[inner[j]] /\ pid[inner[j]] = ppid[c]
        BY <1>1, <3>5, <4>1 DEF Inv, PidInv
      <4>3. j \in 1..Len(inner) /\ j # m
        BY <2>0, <4>1, <4>2
      <4>4. inner[j] \in Live /\ inner[j] # c /\ inner[j] \in Ptr
        BY <1>1, <2>0, <4>1, <4>3 DEF Inv, ListInv, Live
      <4>5. inner[j] \in Heirs(p)
        BY <3>5, <4>2, <4>4 DEF Heirs
      <4>6. e \in statuses'[inner[j]] /\ ~ exited'[inner[j]]
        BY <1>1, <2>0, <3>1, <3>5, <4>2, <4>4, <4>5 DEF Bequeathed, Inserted
      <4> QED
        BY <4>4, <4>6 DEF Kept
    <3> QED
      BY <3>2, <3>3, <3>4, <3>5
  <2>5. ASSUME NEW p \in Ptr, NEW t, Nanosleep(p, t)
        PROVE  Kept(e)
    BY <2>1, <2>5 DEF Nanosleep
  <2>6. ASSUME NEW p \in Ptr, Yield(p) \/ IdleSwitch(p) \/ Timer(p) \/ KExec(p)
        PROVE  Kept(e)
    BY <2>1, <2>6 DEF Yield, IdleSwitch, Timer, KExec
  <2>7. CASE SearchWrap \/ SearchSkip \/ SearchStop
    BY <2>1, <2>7 DEF SearchWrap, SearchSkip, SearchStop, SwitchTo
  <2>8. CASE SearchClean
    <3>1. exited[At(i)]
      BY <1>1, <2>8, RemoveFacts
    <3>2. c # At(i)
      BY <2>0, <3>1
    <3>3. statuses'[c] = statuses[c] /\ exited'[c] = exited[c]
      BY <2>0, <2>8, <3>2 DEF SearchClean, Removed, At
    <3> QED
      BY <2>1, <3>3
  <2>9. CASE UNCHANGED vars
    BY <2>1, <2>9 DEF vars
  <2> QED
    BY <1>1, <2>2, <2>3, <2>4, <2>5, <2>6, <2>7, <2>8, <2>9 DEF Next, Search
<1>2. Inv /\ [Next]_vars => [StatusKept]_vars
  BY <1>1 DEF StatusKept
<1> QED
  BY Invariance, <1>2, PTL DEF Spec, StatusesKept

-----------------------------------------------------------------------------
(* ContextsClose: calls to a scheme, with programs that close their files    *)
(* before they exit (TidySpec).  The scheduler's part of the invariant is    *)
(* Sched as before; the rest says where every call is and who waits for it.  *)

(* Where a context is on account of the scheme.                              *)
CallPCs == {"open", "close", "serve"}

(* The contexts in a call to the scheme.                                     *)
InCall == {c \in Ptr : pc[c] \in {"open", "close"}}

SchemeTypes ==
  /\ server \in Ptr \cup {NoCtx} /\ file \subseteq Ptr
  /\ todo \in Seq(Nat) /\ todoWaiters \subseteq Ptr
  /\ serving \subseteq Nat /\ done \subseteq Nat /\ doneWaiters \subseteq Ptr
  /\ next_id \in Nat \ {0}
  /\ frame \in [Ptr -> [id : Nat, cur : Nat, pc : AllPCs]]

(* Nobody sleeps, waits for a status or lends its memory.                    *)
CalmInv ==
  /\ vfork = [c \in Ptr |-> NoCtx] /\ waiters = [c \in Ptr |-> {}]
  /\ wake = [c \in Ptr |-> NoWake]

(* The server stays, only it is in serve, and whoever has a file of the      *)
(* scheme open has not exited.  The server has none, and nobody has one or   *)
(* calls before there is a server.                                           *)
ServerInv ==
  /\ server # NoCtx => server \in Live /\ pc[server] \in {"user", "serve"}
  /\ \A c \in Ptr : pc[c] = "serve" => c = server
  /\ \A c \in file : c \in Live /\ ~ exited[c] /\ c # server
  /\ server = NoCtx => file = {} /\ InCall = {}

(* A frame belongs to a call, and no two callers wait for the same number.   *)
FrameInv ==
  /\ \A c \in InCall : /\ frame[c].id \in 1..(next_id - 1)
                       /\ frame[c].pc = "user" /\ frame[c].cur = 0
  /\ \A c \in Ptr \ InCall : frame[c] = NoFrame
  /\ \A c, d \in InCall : frame[c].id = frame[d].id => c = d

(* The numbers in the queue of the server.                                   *)
Queued == {todo[n] : n \in 1..Len(todo)}

(* A number is in the queue once at most and in one of the three places at   *)
(* most, and the numbers in them are those of the callers.                   *)
PlaceInv ==
  /\ \A m, n \in 1..Len(todo) : todo[m] = todo[n] => m = n
  /\ Queued \cap serving = {} /\ Queued \cap done = {} /\ serving \cap done = {}
  /\ Queued \cup serving \cup done = {frame[c].id : c \in InCall}

(* Who is blocked is in the list that the next notify goes through, and has  *)
(* nothing to do yet.                                                        *)
WakeInv ==
  /\ \A c \in Ptr : blocked[c] => c \in InCall \cup {server}
  /\ \A c \in InCall : blocked[c] => c \in doneWaiters /\ frame[c].id \notin done
  /\ server # NoCtx /\ blocked[server] => server \in todoWaiters /\ todo = <<>>

TidyInv == /\ Sched /\ SchemeTypes /\ CalmInv /\ ServerInv /\ FrameInv
           /\ PlaceInv /\ WakeInv

(* CloseInit establishes it.                                                 *)
LEMMA CloseInitInv == CloseInit => TidyInv
<1> SUFFICES ASSUME CloseInit PROVE TidyInv
  OBVIOUS
<1>1. Sched
  BY InitInv, InvSched DEF CloseInit
<1> USE PtrAssumption DEF CloseInit
<1>2. InCall = {} /\ \A c \in Ptr : pc[c] \notin CallPCs
  BY DEF InCall, Init, CallPCs
<1>3. SchemeTypes
  <2>1. NoFrame \in [id : Nat, cur : Nat, pc : AllPCs]
    BY DEF NoFrame, AllPCs, PCs
  <2> QED
    BY <2>1 DEF SchemeTypes
<1>4. CalmInv
  BY DEF CalmInv, Init
<1>5. ServerInv
  BY <1>2 DEF ServerInv, CallPCs
<1>6. FrameInv
  BY <1>2 DEF FrameInv
<1>7. Queued = {} /\ Len(todo) = 0
  BY DEF Queued
<1>8. PlaceInv
  BY <1>2, <1>7 DEF PlaceInv
<1>9. WakeInv
  BY <1>2 DEF WakeInv, Init
<1> QED
  BY <1>1, <1>3, <1>4, <1>5, <1>6, <1>8, <1>9 DEF TidyInv

(* A step of the scheduler, of clone or of exit neither begins nor ends a    *)
(* call, blocks nobody, and takes neither the server nor the owner of a file *)
(* away.                                                                     *)
LEMMA CoreMoves ==
  ASSUME TidyInv, TidyCore, UNCHANGED scheme
  PROVE  /\ \A c \in Ptr : \/ pc'[c] = pc[c]
                           \/ /\ c # server
                              /\ pc[c] \notin CallPCs /\ pc'[c] \notin CallPCs
         /\ \A c \in Ptr : blocked'[c] => blocked[c]
         /\ \A c \in Live : ~ exited[c] => c \in Live'
         /\ \A c \in file : ~ exited'[c]
         /\ CalmInv'
<1> DEFINE Goal ==
      /\ \A c \in Ptr : \/ pc'[c] = pc[c]
                        \/ /\ c # server
                           /\ pc[c] \notin CallPCs /\ pc'[c] \notin CallPCs
      /\ \A c \in Ptr : blocked'[c] => blocked[c]
      /\ \A c \in Live : ~ exited[c] => c \in Live'
      /\ \A c \in file : ~ exited'[c]
      /\ CalmInv'
<1>0. /\ Sched /\ SchemeTypes /\ CalmInv /\ ServerInv /\ NoCtx \notin Ptr
      /\ pc \in [Ptr -> AllPCs] /\ blocked \in [Ptr -> BOOLEAN]
      /\ exited \in [Ptr -> BOOLEAN] /\ FlagInv /\ ExecInv
      /\ server \in Live \/ server = NoCtx
      /\ Live \subseteq Ptr
  BY SchedLive, PtrAssumption DEF TidyInv, Sched, ServerInv
<1>1. ASSUME UNCHANGED <<inner, pc, exited, vfork, waiters, wake>>,
             \A c \in Ptr : blocked'[c] => blocked[c]
      PROVE  Goal
  BY <1>0, <1>1 DEF CalmInv, Live, ServerInv
<1>2. ASSUME NEW p \in Ptr, NEW c \in Ptr,
             Clone(p, c) \/ (InKernel(p, "kinit") /\ Execve(p, c))
      PROVE  Goal
  <2>1. /\ c \in Ptr \ Live /\ inner' = Append(inner, c) /\ p = running
        /\ UNCHANGED <<blocked, exited, waiters, wake>>
        /\ vfork' = [vfork EXCEPT ![c] = NoCtx]
    BY <1>2 DEF Clone, Execve, NewContext, InKernel
  <2>2. Live' = Live \cup {c}
    BY <1>0, <2>1, SchedPush
  <2>3. pc[c] = "free" /\ c # server /\ p # c
    BY <1>0, <1>2, <2>1, SchedRun DEF FlagInv, Clone
  <2>4. \/ pc' = [pc EXCEPT ![c] = "user"]
        \/ pc[p] = "kinit" /\ pc' = [pc EXCEPT ![c] = "kexec", ![p] = "exec"]
    BY <1>0, <1>2, <2>1, <2>3 DEF Clone, Execve, NewContext, InKernel
  <2>5. \A d \in Ptr : \/ pc'[d] = pc[d]
                       \/ /\ d # server
                          /\ pc[d] \notin CallPCs /\ pc'[d] \notin CallPCs
    BY <1>0, <2>1, <2>3, <2>4 DEF CallPCs, ServerInv
  <2>6. CalmInv'
    BY <1>0, <2>1 DEF CalmInv
  <2> QED
    BY <1>0, <2>1, <2>2, <2>5, <2>6 DEF ServerInv
<1>3. ASSUME NEW p \in Ptr, Timer(p) PROVE Goal
  <2>1. wake' = wake
    BY <1>0, <1>3 DEF CalmInv, Timer, NoWake
  <2> QED
    BY <1>1, <1>3, <2>1 DEF Timer
<1>4. ASSUME NEW p \in Ptr, IdleSwitch(p) PROVE Goal
  BY <1>1, <1>4 DEF IdleSwitch
<1>5. ASSUME NEW p \in Ptr, KExec(p) PROVE Goal
  <2>1. p \in Live /\ pc[p] = "kexec"
    BY <1>0, <1>5, SchedRun DEF KExec, InKernel
  <2>2. target[p] \in Live /\ pc[target[p]] = "exec"
    BY <1>0, <2>1 DEF ExecInv
  <2>3. /\ inner' = inner /\ UNCHANGED <<exited, waiters, wake>>
        /\ vfork' = [vfork EXCEPT ![target[p]] = NoCtx]
        /\ pc' = [pc EXCEPT ![target[p]] = "user", ![p] = "kexit"]
        /\ \A c \in Ptr : blocked'[c] => blocked[c]
    BY <1>5 DEF KExec
  <2>4. \A d \in Ptr : \/ pc'[d] = pc[d]
                       \/ /\ d # server
                          /\ pc[d] \notin CallPCs /\ pc'[d] \notin CallPCs
    BY <1>0, <2>1, <2>2, <2>3 DEF CallPCs, ServerInv
  <2>5. CalmInv' /\ Live' = Live
    BY <1>0, <2>2, <2>3 DEF CalmInv, Live
  <2> QED
    BY <1>0, <2>3, <2>4, <2>5 DEF ServerInv
<1>6. ASSUME NEW p \in Ptr, p \notin file \cup {server}, Exit(p) PROVE Goal
  <2>1. pc[p] \in {"user", "kinit", "kexit"}
    BY <1>6 DEF Exit, InKernel
  <2>2. /\ inner' = inner /\ UNCHANGED <<vfork, wake>>
        /\ pc' = [pc EXCEPT ![p] = "exit"]
        /\ exited' = [exited EXCEPT ![p] = TRUE]
        /\ waiters' = [c \in Ptr |-> IF c \in Heirs(p) THEN {} ELSE waiters[c]]
    BY <1>6 DEF Exit
  <2>3. \A c \in Ptr : blocked'[c] => blocked[c]
    BY <1>6 DEF Exit, Notified
  <2>4. CalmInv' /\ Live' = Live
    BY <1>0, <2>2 DEF CalmInv, Live
  <2>5. \A d \in Ptr : \/ pc'[d] = pc[d]
                       \/ /\ d # server
                          /\ pc[d] \notin CallPCs /\ pc'[d] \notin CallPCs
    BY <1>0, <1>6, <2>1, <2>2 DEF CallPCs
  <2>6. \A c \in file : ~ exited'[c]
    BY <1>0, <1>6, <2>2 DEF ServerInv
  <2> QED
    BY <2>3, <2>4, <2>5, <2>6
<1>7. CASE SearchWrap \/ SearchSkip
  BY <1>1, <1>7 DEF SearchWrap, SearchSkip
<1>8. CASE SearchStop
  <2>1. wake' = wake
    BY <1>0, <1>8 DEF CalmInv, SearchStop, Due, NoWake
  <2>2. \A c \in Ptr : blocked'[c] => blocked[c]
    BY <1>8 DEF SearchStop
  <2> QED
    BY <1>1, <1>8, <2>1, <2>2 DEF SearchStop
<1>9. CASE SearchClean
  <2>1. Live' = Live \ {At(i)} /\ At(i) \in Ptr /\ exited[At(i)]
    BY <1>0, <1>9, SchedRemove
  <2>2. pc[At(i)] = "exit"
    BY <1>0, <2>1 DEF FlagInv
  <2>3. /\ pc' = [pc EXCEPT ![At(i)] = "free"]
        /\ exited' = [exited EXCEPT ![At(i)] = FALSE]
        /\ vfork' = [vfork EXCEPT ![At(i)] = NoCtx]
        /\ wake' = [wake EXCEPT ![At(i)] = NoWake]
        /\ waiters' = [waiters EXCEPT ![At(i)] = {}]
        /\ \A c \in Ptr : blocked'[c] => blocked[c]
    BY <1>9 DEF SearchClean, Removed, At
  <2>4. \A d \in Ptr : \/ pc'[d] = pc[d]
                       \/ /\ d # server
                          /\ pc[d] \notin CallPCs /\ pc'[d] \notin CallPCs
    BY <1>0, <2>1, <2>2, <2>3 DEF CallPCs, ServerInv
  <2>5. CalmInv'
    BY <1>0, <2>1, <2>3 DEF CalmInv
  <2> QED
    BY <1>0, <2>1, <2>3, <2>4, <2>5 DEF ServerInv
<1> QED
  BY <1>2, <1>3, <1>4, <1>5, <1>6, <1>7, <1>8, <1>9 DEF TidyCore, Search

(* The scheduler keeps its own part of the invariant: a step of TidyCore is  *)
(* a step of Contexts.                                                       *)
LEMMA CoreSched ==
  ASSUME TidyInv, TidyCore, UNCHANGED scheme
  PROVE  Sched'
<1>0. Sched
  BY DEF TidyInv
<1>1. Next
  BY DEF TidyCore, Next
<1>2. ListInv' /\ CursorInv' /\ FlagInv' /\ ExecInv'
  BY <1>0, <1>1, NextListInv, NextCursorInv, NextFlagInv, NextExecInv
<1> USE DEF Sched
<1>3. ASSUME NEW p \in Ptr, NEW c \in Ptr,
             Clone(p, c) \/ (InKernel(p, "kinit") /\ Execve(p, c))
      PROVE  Sched'
  <2>1. c \in Ptr \ Live /\ inner' = Append(inner, c)
    BY <1>3 DEF Clone, Execve, NewContext
  <2>2. inner' \in Seq(Ptr)
    BY <1>0, <2>1, SchedPush
  <2>5. PICK start \in {"user", "kexec"}, for \in Ptr \cup {NoCtx} :
          /\ pc' = [pc EXCEPT ![c] = start,
                              ![running] = IF start = "kexec" THEN "exec" ELSE @]
          /\ target' = [target EXCEPT ![c] = for]
          /\ regs' = [regs EXCEPT ![c] = c]
    BY <1>3 DEF Clone, Execve, NewContext
  <2>6. {"user", "kexec", "exec"} \subseteq AllPCs
    BY DEF AllPCs, PCs
  <2>3. /\ pc' \in [Ptr -> AllPCs] /\ target' \in [Ptr -> Ptr \cup {NoCtx}]
        /\ regs' \in [Ptr -> Ptr]
    BY <1>0, <2>5, <2>6
  <2>4. /\ i' \in Nat /\ current_i' \in Nat /\ mode' \in {"run", "search"}
        /\ UNCHANGED <<running, blocked, exited>>
    BY <1>0, <1>3 DEF Clone, Execve, StartSwitch, sched
  <2> QED
    BY <1>0, <1>2, <2>2, <2>3, <2>4
<1>4. ASSUME NEW p \in Ptr, Timer(p) \/ IdleSwitch(p) PROVE Sched'
  BY <1>0, <1>2, <1>4 DEF Timer, IdleSwitch, StartSwitch
<1>5. ASSUME NEW p \in Ptr, KExec(p) PROVE Sched'
  <2>1. target[p] \in Ptr
    BY <1>0, <1>5, SchedRun, SchedLive DEF KExec, ExecInv, InKernel
  <2>2. /\ pc' \in [Ptr -> AllPCs] /\ target' \in [Ptr -> Ptr \cup {NoCtx}]
        /\ regs' \in [Ptr -> Ptr] /\ blocked' \in [Ptr -> BOOLEAN]
    BY <1>0, <1>5, <2>1 DEF KExec, AllPCs, PCs
  <2>3. UNCHANGED <<inner, i, current_i, mode, running, exited>>
    BY <1>5 DEF KExec, sched
  <2> QED
    BY <1>0, <1>2, <2>2, <2>3
<1>6. ASSUME NEW p \in Ptr, Exit(p) PROVE Sched'
  <2>1. pc' \in [Ptr -> AllPCs] /\ exited' \in [Ptr -> BOOLEAN]
    BY <1>0, <1>6 DEF Exit, AllPCs, PCs
  <2>3. blocked' \in [Ptr -> BOOLEAN]
    BY <1>0, <1>6, Zenon DEF Exit, Notified
  <2>2. /\ i' \in Nat /\ current_i' \in Nat /\ mode' \in {"run", "search"}
        /\ UNCHANGED <<inner, running, regs, target>>
    BY <1>0, <1>6 DEF Exit, StartSwitch
  <2> QED
    BY <1>0, <1>2, <2>1, <2>2, <2>3
<1>7. CASE SearchWrap
  <2>1. i' \in Nat
    BY <1>0, <1>7 DEF SearchWrap
  <2> QED
    BY <1>0, <1>2, <1>7, <2>1 DEF SearchWrap
<1>8. CASE SearchSkip
  BY <1>0, <1>2, <1>8 DEF SearchSkip
<1>9. CASE SearchStop
  <2>1. At(i) \in Ptr /\ (current_i < Len(inner) => At(current_i) \in Ptr)
    BY <1>0, <1>9 DEF SearchStop, At
  <2>2. regs' \in [Ptr -> Ptr] /\ running' \in Ptr
    BY <1>0, <1>9, <2>1 DEF SearchStop, SwitchTo
  <2>3. blocked' \in [Ptr -> BOOLEAN]
    BY <1>0, <1>9 DEF SearchStop
  <2>4. /\ current_i' \in Nat /\ mode' \in {"run", "search"}
        /\ UNCHANGED <<inner, i, exited, pc, target>>
    BY <1>9 DEF SearchStop
  <2> QED
    BY <1>0, <1>2, <2>2, <2>3, <2>4
<1>10. CASE SearchClean
  <2>1. At(i) \in Ptr /\ inner' \in Seq(Ptr)
    BY <1>0, <1>10, SchedRemove
  <2>2. /\ pc' \in [Ptr -> AllPCs] /\ target' \in [Ptr -> Ptr \cup {NoCtx}]
        /\ blocked' \in [Ptr -> BOOLEAN] /\ exited' \in [Ptr -> BOOLEAN]
    BY <1>0, <1>10 DEF SearchClean, Removed, At, AllPCs, PCs
  <2>3. UNCHANGED <<i, current_i, mode, running, regs>>
    BY <1>10 DEF SearchClean, sched
  <2> QED
    BY <1>0, <1>2, <2>1, <2>2, <2>3
<1> QED
  BY <1>3, <1>4, <1>5, <1>6, <1>7, <1>8, <1>9, <1>10 DEF TidyCore, Search

(* So does a call: such a step leaves every call, caller and waiter alone.   *)
LEMMA CoreKeeps ==
  ASSUME TidyInv, TidyCore, UNCHANGED scheme
  PROVE  TidyInv'
<1>0. /\ SchemeTypes /\ ServerInv /\ FrameInv /\ PlaceInv /\ WakeInv
      /\ NoCtx \notin Ptr
  BY PtrAssumption DEF TidyInv
<1>1. /\ \A c \in Ptr : \/ pc'[c] = pc[c]
                        \/ /\ c # server
                           /\ pc[c] \notin CallPCs /\ pc'[c] \notin CallPCs
      /\ \A c \in Ptr : blocked'[c] => blocked[c]
      /\ \A c \in Live : ~ exited[c] => c \in Live'
      /\ \A c \in file : ~ exited'[c]
      /\ CalmInv'
  BY CoreMoves
<1>2. InCall' = InCall
  BY <1>1 DEF InCall, CallPCs
<1>3. UNCHANGED <<server, file, todo, todoWaiters, serving, done, doneWaiters,
                  next_id, frame>>
  BY DEF scheme
<1>4. Sched'
  BY CoreSched
<1>5. SchemeTypes'
  BY <1>0, <1>3 DEF SchemeTypes
<1>6. ServerInv'
  <2>1. server # NoCtx => server \in Live /\ server \in Ptr /\ ~ exited[server]
    BY <1>0, SchedLive DEF ServerInv, TidyInv, Sched, FlagInv
  <2>2. server # NoCtx => server \in Live' /\ pc'[server] \in {"user", "serve"}
    BY <1>0, <1>1, <2>1 DEF ServerInv
  <2>3. \A c \in Ptr : pc'[c] = "serve" => c = server
    BY <1>0, <1>1 DEF ServerInv, CallPCs
  <2>4. \A c \in file : c \in Live' /\ ~ exited'[c] /\ c # server
    BY <1>0, <1>1 DEF ServerInv
  <2>5. server = NoCtx => file = {} /\ InCall = {}
    BY <1>0 DEF ServerInv
  <2> QED
    BY <1>2, <1>3, <2>2, <2>3, <2>4, <2>5 DEF ServerInv
<1>7. FrameInv'
  BY <1>0, <1>2, <1>3 DEF FrameInv
<1>8. PlaceInv'
  BY <1>0, <1>2, <1>3 DEF PlaceInv, Queued
<1>9. WakeInv'
  <2>1. InCall \subseteq Ptr /\ (server # NoCtx => server \in Ptr)
    BY <1>0 DEF InCall, SchemeTypes
  <2>2. \A c \in Ptr : blocked'[c] => c \in InCall \cup {server}
    BY <1>0, <1>1 DEF WakeInv
  <2>3. \A c \in InCall : blocked'[c] => c \in doneWaiters /\ frame[c].id \notin done
    BY <1>0, <1>1, <2>1 DEF WakeInv
  <2>4. server # NoCtx /\ blocked'[server] => server \in todoWaiters /\ todo = <<>>
    BY <1>0, <1>1, <2>1 DEF WakeInv
  <2> QED
    BY <1>2, <1>3, <2>2, <2>3, <2>4 DEF WakeInv
<1> QED
  BY <1>1, <1>4, <1>5, <1>6, <1>7, <1>8, <1>9 DEF TidyInv

-----------------------------------------------------------------------------
(* The steps of the scheme.                                                  *)
SchemeStep(p) == \/ SchemeCreate(p) \/ Open(p) \/ Close(p) \/ Return(p)
                 \/ Retry(p) \/ ServerRead(p) \/ ServerWrite(p)

(* A step of the scheme is one of the context on the processor; only that    *)
(* context moves, and it is blocked only if it gives the processor away.     *)
LEMMA SchemeMoves ==
  ASSUME TidyInv, NEW p \in Ptr, SchemeStep(p)
  PROVE  /\ mode = "run" /\ p = running /\ p \in Live /\ Current = {p}
         /\ ~ blocked[p] /\ ~ exited[p]
         /\ pc[p] \in {"user", "open", "close", "serve"}
         /\ \E new \in {"user", "open", "close", "serve"} :
              pc' = [pc EXCEPT ![p] = new]
         /\ UNCHANGED <<inner, running, exited, regs, vfork, waiters, wake, target>>
         /\ blocked' \in [Ptr -> BOOLEAN]
         /\ \A c \in Ptr : blocked'[c] => blocked[c] \/ c = p
         /\ \/ mode' = "run" /\ i' = i /\ current_i' \in Nat /\ ~ blocked'[p]
            \/ StartSwitch
<1>0. /\ Sched /\ SchemeTypes /\ FrameInv /\ pc \in [Ptr -> AllPCs]
      /\ blocked \in [Ptr -> BOOLEAN] /\ current_i \in Nat
  BY DEF TidyInv, Sched
<1>1. mode = "run" /\ p = running /\ pc[p] \in {"user", "open", "close", "serve"}
  <2>1. pc[p] # "clean"
    BY <1>0 DEF AllPCs, PCs
  <2> QED
    BY <2>1 DEF SchemeStep, SchemeCreate, Open, Close, Return, Retry, ServerRead,
                ServerWrite, InKernel
<1>2. p \in Live /\ p = At(i) /\ ~ blocked[p] /\ ~ exited[p] /\ i < Len(inner)
  <2>1. InKernel(p, pc[p])
    BY <1>1 DEF InKernel
  <2>2. i < Len(inner)
    BY <1>0, <1>1 DEF Sched, CursorInv
  <2> QED
    BY <1>0, <2>1, <2>2, SchedRun
<1>3. Current = {p}
  BY <1>2 DEF Current
<1>4. UNCHANGED <<inner, running, exited, regs, vfork, waiters, wake, target>>
  BY DEF SchemeStep, SchemeCreate, Open, Close, Return, Retry, ServerRead,
         ServerWrite, vars
<1>5. ASSUME NEW ws, Wait(ws)
      PROVE  /\ blocked' \in [Ptr -> BOOLEAN] /\ StartSwitch
             /\ \A c \in Ptr : blocked'[c] => blocked[c] \/ c = p
  BY <1>0, <1>3, <1>5 DEF Wait
<1> DEFINE Goal ==
      /\ \E new \in {"user", "open", "close", "serve"} : pc' = [pc EXCEPT ![p] = new]
      /\ blocked' \in [Ptr -> BOOLEAN]
      /\ \A c \in Ptr : blocked'[c] => blocked[c] \/ c = p
      /\ \/ mode' = "run" /\ i' = i /\ current_i' \in Nat /\ ~ blocked'[p]
         \/ StartSwitch
<1> SUFFICES Goal
  BY <1>1, <1>2, <1>3, <1>4
<1>6. CASE SchemeCreate(p)
  <2>1. pc' = [pc EXCEPT ![p] = "user"]
    BY <1>0, <1>6 DEF SchemeCreate, vars, InKernel
  <2> QED
    BY <1>0, <1>1, <1>2, <1>6, <2>1 DEF SchemeCreate, vars
<1>7. CASE Open(p) \/ Close(p)
  <2>1. PICK where \in {"open", "close"} : Call(where, 0)
    BY <1>7 DEF Open, Close
  <2>2. Wait(todoWaiters) /\ pc' = [pc EXCEPT ![p] = where]
    BY <1>1, <2>1 DEF Call
  <2> QED
    BY <1>5, <2>2
<1>8. CASE Return(p)
  <2>1. p \in InCall
    BY <1>0, <1>8 DEF Return, InCall, AllPCs, PCs
  <2>2. frame[p].pc = "user" /\ frame[p].cur = 0
    BY <1>0, <2>1 DEF FrameInv
  <2>3. pc' = [pc EXCEPT ![p] = "user"] /\ mode' = "run" /\ current_i' = 0
    BY <1>8, <2>1, <2>2 DEF Return, InCall
  <2>4. UNCHANGED <<i, blocked>>
    BY <1>8 DEF Return
  <2> QED
    BY <1>0, <1>2, <2>3, <2>4
<1>9. CASE Retry(p)
  <2>1. Wait({}) /\ pc' = pc
    BY <1>9 DEF Retry
  <2>2. pc' = [pc EXCEPT ![p] = pc[p]]
    BY <1>0, <2>1
  <2> QED
    BY <1>1, <1>5, <2>1, <2>2
<1>10. CASE ServerRead(p)
  <2>1. CASE pc' = [pc EXCEPT ![p] = "user"] /\ UNCHANGED <<i, current_i, mode, blocked>>
    BY <1>0, <1>1, <1>2, <2>1
  <2>2. CASE pc' = [pc EXCEPT ![p] = "serve"] /\ Wait({})
    BY <1>5, <2>2
  <2> QED
    BY <1>10, <2>1, <2>2 DEF ServerRead
<1>11. CASE ServerWrite(p)
  <2>1. pc' = [pc EXCEPT ![p] = "user"] /\ UNCHANGED <<i, current_i, mode>>
    BY <1>0, <1>11 DEF ServerWrite, InKernel
  <2>2. blocked' \in [Ptr -> BOOLEAN] /\ \A c \in Ptr : blocked'[c] => blocked[c]
    BY <1>11 DEF ServerWrite, Notified
  <2> QED
    BY <1>0, <1>1, <1>2, <2>1, <2>2
<1> QED
  BY <1>6, <1>7, <1>8, <1>9, <1>10, <1>11 DEF SchemeStep

(* Hence the scheduler's part of the invariant is kept by it.                *)
LEMMA SchemeSched ==
  ASSUME TidyInv, NEW p \in Ptr, SchemeStep(p)
  PROVE  Sched' /\ CalmInv'
<1>0. Sched /\ CalmInv
  BY DEF TidyInv
<1>1. /\ mode = "run" /\ p = running /\ p \in Live
      /\ ~ blocked[p] /\ ~ exited[p]
      /\ pc[p] \in {"user", "open", "close", "serve"}
      /\ UNCHANGED <<inner, running, exited, regs, vfork, waiters, wake, target>>
      /\ blocked' \in [Ptr -> BOOLEAN]
      /\ \A c \in Ptr : blocked'[c] => blocked[c] \/ c = p
      /\ \/ mode' = "run" /\ i' = i /\ current_i' \in Nat /\ ~ blocked'[p]
         \/ StartSwitch
  BY SchemeMoves
<1>2. PICK new \in {"user", "open", "close", "serve"} : pc' = [pc EXCEPT ![p] = new]
  BY SchemeMoves
<1>3. Live' = Live /\ Live \subseteq Ptr
  BY <1>0, <1>1, SchedLive DEF Live
<1>4. p # KIdle
  BY <1>0, <1>1 DEF Sched, ListInv
<1>5. ListInv'
  BY <1>0, <1>1, <1>2, <1>4, PtrAssumption DEF Sched, ListInv
<1>6. CursorInv'
  <2>1. \A c \in Live' : regs'[c] = c
    BY <1>0, <1>1, <1>3 DEF Sched, CursorInv
  <2>2. i \in Nat /\ i < Len(inner) /\ running = At(i) /\ inner \in Seq(Ptr)
    BY <1>0, <1>1 DEF Sched, CursorInv
  <2>3. CASE mode' = "run" /\ i' = i /\ ~ blocked'[p]
    BY <1>1, <2>1, <2>2, <2>3 DEF CursorInv, At
  <2>4. CASE StartSwitch
    <3>1. mode' = "search" /\ current_i' = i /\ i' = i + 1
      BY <2>4 DEF StartSwitch
    <3> QED
      BY <1>1, <2>1, <2>2, <3>1 DEF CursorInv, At
  <2> QED
    BY <1>1, <2>3, <2>4
<1>7. FlagInv'
  BY <1>0, <1>1, <1>2, <1>3 DEF Sched, FlagInv
<1>8. ExecInv'
  BY <1>0, <1>1, <1>2, <1>3 DEF Sched, ExecInv
<1>9. /\ i' \in Nat /\ current_i' \in Nat /\ mode' \in {"run", "search"}
      /\ pc' \in [Ptr -> AllPCs]
  BY <1>0, <1>1, <1>2 DEF Sched, StartSwitch, AllPCs, PCs
<1>10. CalmInv'
  BY <1>0, <1>1 DEF CalmInv
<1> QED
  BY <1>0, <1>1, <1>5, <1>6, <1>7, <1>8, <1>9, <1>10 DEF Sched

(* A new number at the end of the queue of calls: no number twice, and one   *)
(* more than before.                                                         *)
LEMMA QueuedPush ==
  ASSUME NEW q \in Seq(Nat), NEW id \in Nat,
         \A m, n \in 1..Len(q) : q[m] = q[n] => m = n,
         \A n \in 1..Len(q) : q[n] # id
  PROVE  LET r == Append(q, id) IN
           /\ r \in Seq(Nat) /\ r # <<>>
           /\ \A m, n \in 1..Len(r) : r[m] = r[n] => m = n
           /\ {r[n] : n \in 1..Len(r)} = {q[n] : n \in 1..Len(q)} \cup {id}
<1> DEFINE r == Append(q, id)
<1>1. /\ r \in Seq(Nat) /\ Len(r) = Len(q) + 1 /\ r[Len(q) + 1] = id
      /\ \A n \in 1..Len(q) : r[n] = q[n]
  BY AppendFacts
<1>2. Len(q) \in Nat
  OBVIOUS
<1>3. r # <<>>
  BY <1>1, <1>2
<1> HIDE DEF r
<1>4. \A m, n \in 1..Len(r) : r[m] = r[n] => m = n
  BY SMTT(30), <1>1, <1>2
<1>5. {r[n] : n \in 1..Len(r)} = {q[n] : n \in 1..Len(q)} \cup {id}
  <2>1. \A n \in 1..Len(r) : n \in 1..Len(q) \/ n = Len(q) + 1
    BY <1>1, <1>2
  <2>2. \A n \in 1..Len(q) : n \in 1..Len(r)
    BY <1>1, <1>2
  <2>3. Len(q) + 1 \in 1..Len(r)
    BY <1>1, <1>2
  <2> QED
    BY <1>1, <2>1, <2>2, <2>3
<1> QED
  BY <1>1, <1>3, <1>4, <1>5 DEF r

(* The first number taken from the queue: it was there, and is not any more. *)
LEMMA QueuedPop ==
  ASSUME NEW q \in Seq(Nat), q # <<>>,
         \A m, n \in 1..Len(q) : q[m] = q[n] => m = n
  PROVE  /\ Tail(q) \in Seq(Nat) /\ Head(q) \in Nat
         /\ \A m, n \in 1..Len(Tail(q)) : Tail(q)[m] = Tail(q)[n] => m = n
         /\ Head(q) \in {q[n] : n \in 1..Len(q)}
         /\ {Tail(q)[n] : n \in 1..Len(Tail(q))}
              = {q[n] : n \in 1..Len(q)} \ {Head(q)}
<1> DEFINE t == Tail(q)
<1>1. /\ t \in Seq(Nat) /\ Len(t) = Len(q) - 1 /\ Len(q) \in Nat /\ Len(q) > 0
      /\ Head(q) = q[1] /\ \A n \in 1..Len(t) : t[n] = q[n + 1]
  OBVIOUS
<1>2. Head(q) \in Nat /\ Head(q) \in {q[n] : n \in 1..Len(q)}
  BY <1>1
<1> HIDE DEF t
<1>3. \A n \in 1..Len(t) : n + 1 \in 1..Len(q)
  BY <1>1
<1>4. \A m, n \in 1..Len(t) : t[m] = t[n] => m = n
  <2> SUFFICES ASSUME NEW m \in 1..Len(t), NEW n \in 1..Len(t), t[m] = t[n]
               PROVE  m = n
    OBVIOUS
  <2>1. q[m + 1] = q[n + 1] /\ m + 1 \in 1..Len(q) /\ n + 1 \in 1..Len(q)
    BY <1>1, <1>3
  <2>2. m + 1 = n + 1
    BY <2>1
  <2> QED
    BY <2>2
<1>5. {t[n] : n \in 1..Len(t)} = {q[n] : n \in 1..Len(q)} \ {Head(q)}
  <2>1. ASSUME NEW n \in 1..Len(t)
        PROVE  t[n] \in {q[k] : k \in 1..Len(q)} \ {Head(q)}
    <3>1. t[n] = q[n + 1] /\ n + 1 \in 1..Len(q) /\ 1 \in 1..Len(q) /\ n + 1 # 1
      BY <1>1, <1>3
    <3> QED
      BY <1>1, <3>1
  <2>2. ASSUME NEW k \in 1..Len(q), q[k] # Head(q)
        PROVE  q[k] \in {t[n] : n \in 1..Len(t)}
    <3>1. k # 1
      BY <1>1, <2>2
    <3>2. k - 1 \in 1..Len(t) /\ (k - 1) + 1 = k
      BY <1>1, <3>1
    <3>3. t[k - 1] = q[k]
      BY <1>1, <3>2
    <3> QED
      BY <3>2, <3>3
  <2>3. {t[n] : n \in 1..Len(t)} \subseteq {q[n] : n \in 1..Len(q)} \ {Head(q)}
    BY <2>1
  <2>4. {q[n] : n \in 1..Len(q)} \ {Head(q)} \subseteq {t[n] : n \in 1..Len(t)}
    BY <2>2
  <2> QED
    BY <2>3, <2>4
<1> QED
  BY <1>1, <1>2, <1>4, <1>5 DEF t

(* A call that is made: its number is new, it is queued, the server is woken *)
(* and the caller waits for the answer.                                      *)
LEMMA CallKeeps ==
  ASSUME TidyInv, NEW p \in Ptr, Open(p) \/ Close(p)
  PROVE  TidyInv'
<1>0. /\ SchemeTypes /\ ServerInv /\ FrameInv /\ PlaceInv /\ WakeInv
      /\ NoCtx \notin Ptr /\ pc \in [Ptr -> AllPCs]
      /\ blocked \in [Ptr -> BOOLEAN]
  BY PtrAssumption DEF TidyInv, Sched
<1>1. SchemeStep(p)
  BY DEF SchemeStep
<1>2. Sched' /\ CalmInv'
  BY <1>1, SchemeSched
<1>3. /\ p = running /\ p \in Live /\ Current = {p} /\ ~ exited[p]
      /\ Live' = Live /\ exited' = exited
  BY <1>1, SchemeMoves DEF Live
<1>4. PICK where \in {"open", "close"} : Call(where, 0)
  BY DEF Open, Close
<1>5. /\ pc[p] = "user" /\ p # server /\ server # NoCtx
      /\ UNCHANGED <<server, serving, done>> /\ file' \subseteq file
  <2>1. CASE Open(p)
    BY <2>1 DEF Open, InKernel
  <2>2. CASE Close(p)
    BY <1>0, <2>2 DEF Close, InKernel, ServerInv
  <2> QED
    BY <2>1, <2>2
<1>6. /\ next_id' = next_id + 1 /\ todo' = Append(todo, next_id) /\ todoWaiters' = {}
      /\ doneWaiters' = doneWaiters \cup {p}
      /\ frame' = [frame EXCEPT ![p] = [id |-> next_id, cur |-> 0, pc |-> "user"]]
      /\ pc' = [pc EXCEPT ![p] = where]
      /\ \A c \in Ptr : blocked'[c] => c = p \/ (blocked[c] /\ c \notin todoWaiters)
  BY <1>3, <1>4, <1>5 DEF Call, Wait
<1>7. InCall' = InCall \cup {p} /\ p \notin InCall /\ InCall \subseteq Ptr
  BY <1>0, <1>5, <1>6 DEF InCall
<1>8. \A c \in InCall : frame[c].id \in 1..(next_id - 1) /\ frame'[c] = frame[c]
  BY <1>0, <1>6, <1>7 DEF FrameInv, SchemeTypes
<1>9. frame'[p] = [id |-> next_id, cur |-> 0, pc |-> "user"]
  BY <1>0, <1>6 DEF SchemeTypes
<1>10. \A id \in Queued \cup serving \cup done : id \in Nat /\ id < next_id
  BY SMTT(30), <1>0, <1>8 DEF PlaceInv, SchemeTypes
<1>11. next_id \notin Queued \cup serving \cup done
  BY <1>0, <1>10 DEF SchemeTypes
<1>12. /\ todo' \in Seq(Nat) /\ todo' # <<>>
       /\ \A m, n \in 1..Len(todo') : todo'[m] = todo'[n] => m = n
       /\ Queued' = Queued \cup {next_id}
  <2>1. todo \in Seq(Nat) /\ next_id \in Nat
    BY <1>0 DEF SchemeTypes
  <2>2. \A m, n \in 1..Len(todo) : todo[m] = todo[n] => m = n
    BY <1>0 DEF PlaceInv
  <2>3. \A n \in 1..Len(todo) : todo[n] # next_id
    BY <1>11 DEF Queued
  <2> DEFINE r == Append(todo, next_id)
  <2>4. /\ r \in Seq(Nat) /\ r # <<>>
        /\ \A m, n \in 1..Len(r) : r[m] = r[n] => m = n
        /\ {r[n] : n \in 1..Len(r)} = {todo[n] : n \in 1..Len(todo)} \cup {next_id}
    BY <2>1, <2>2, <2>3, QueuedPush
  <2>5. todo' = r
    BY <1>6
  <2> HIDE DEF r
  <2> QED
    BY <2>4, <2>5 DEF Queued
<1>13. SchemeTypes'
  <2>1. next_id' \in Nat \ {0}
    BY <1>0, <1>6 DEF SchemeTypes
  <2>2. [id |-> next_id, cur |-> 0, pc |-> "user"] \in [id : Nat, cur : Nat, pc : AllPCs]
    BY <1>0 DEF SchemeTypes, AllPCs, PCs
  <2>3. frame' \in [Ptr -> [id : Nat, cur : Nat, pc : AllPCs]]
    BY <1>0, <1>6, <2>2 DEF SchemeTypes
  <2> QED
    BY <1>0, <1>5, <1>6, <1>12, <2>1, <2>3 DEF SchemeTypes
<1>14. ServerInv'
  BY <1>0, <1>3, <1>5, <1>6, <1>7 DEF ServerInv, SchemeTypes
<1>15. FrameInv'
  <2>1. \A c \in InCall' : /\ frame'[c].id \in 1..(next_id' - 1)
                           /\ frame'[c].pc = "user" /\ frame'[c].cur = 0
    <3>1. next_id \in 1..(next_id' - 1) /\ 1..(next_id - 1) \subseteq 1..(next_id' - 1)
      BY <1>0, <1>6 DEF SchemeTypes
    <3> QED
      BY <1>0, <1>7, <1>8, <1>9, <3>1 DEF FrameInv
  <2>2. \A c \in Ptr \ InCall' : frame'[c] = NoFrame
    BY <1>0, <1>6, <1>7 DEF FrameInv, SchemeTypes
  <2>3. \A c \in InCall : frame'[c].id # frame'[p].id
    <3>1. frame'[p].id = next_id /\ next_id \notin 1..(next_id - 1)
      BY <1>0, <1>9 DEF SchemeTypes
    <3> QED
      BY <1>8, <3>1
  <2>4. \A c, d \in InCall' : frame'[c].id = frame'[d].id => c = d
    BY <1>0, <1>7, <1>8, <2>3 DEF FrameInv
  <2> QED
    BY <2>1, <2>2, <2>4 DEF FrameInv
<1>16. PlaceInv'
  <2>1. {frame'[c].id : c \in InCall'} = {frame[c].id : c \in InCall} \cup {next_id}
    BY <1>7, <1>8, <1>9
  <2> DEFINE callers == {frame[c].id : c \in InCall}
  <2>2. /\ Queued \cap serving = {} /\ Queued \cap done = {} /\ serving \cap done = {}
        /\ Queued \cup serving \cup done = callers
    BY <1>0 DEF PlaceInv
  <2> HIDE DEF callers
  <2>3. /\ Queued' \cap serving' = {} /\ Queued' \cap done' = {}
        /\ serving' \cap done' = {}
        /\ Queued' \cup serving' \cup done' = callers \cup {next_id}
    BY <1>5, <1>11, <1>12, <2>2
  <2> QED
    BY <1>12, <2>1, <2>3 DEF PlaceInv, callers
<1>17. WakeInv'
  <2>1. \A c \in Ptr : blocked'[c] => c \in InCall' \cup {server'}
    BY <1>0, <1>5, <1>6, <1>7 DEF WakeInv
  <2>2. \A c \in InCall' : blocked'[c] => c \in doneWaiters' /\ frame'[c].id \notin done'
    BY <1>0, <1>5, <1>6, <1>7, <1>8, <1>9, <1>11 DEF WakeInv
  <2>3. ~ blocked'[server']
    BY <1>0, <1>5, <1>6 DEF WakeInv, SchemeTypes
  <2> QED
    BY <2>1, <2>2, <2>3 DEF WakeInv
<1> QED
  BY <1>2, <1>13, <1>14, <1>15, <1>16, <1>17 DEF TidyInv

(* The answer is taken: the call is over and its number is in no place.      *)
LEMMA ReturnKeeps ==
  ASSUME TidyInv, NEW p \in Ptr, Return(p)
  PROVE  TidyInv'
<1>0. /\ SchemeTypes /\ ServerInv /\ FrameInv /\ PlaceInv /\ WakeInv
      /\ NoCtx \notin Ptr /\ pc \in [Ptr -> AllPCs]
      /\ blocked \in [Ptr -> BOOLEAN]
  BY PtrAssumption DEF TidyInv, Sched
<1>1. SchemeStep(p)
  BY DEF SchemeStep
<1>2. Sched' /\ CalmInv'
  BY <1>1, SchemeSched
<1>3. /\ p \in Live /\ ~ exited[p] /\ ~ blocked[p]
      /\ Live' = Live /\ exited' = exited
  BY <1>1, SchemeMoves DEF Live
<1>4. p \in InCall /\ InCall \subseteq Ptr
  BY <1>0 DEF Return, InCall, AllPCs, PCs
<1>5. frame[p].pc = "user" /\ p # server /\ server # NoCtx
  BY <1>0, <1>4 DEF FrameInv, ServerInv, InCall
<1>6. /\ frame[p].id \in done /\ done' = done \ {frame[p].id}
      /\ file' \subseteq file \cup {p} /\ pc' = [pc EXCEPT ![p] = "user"]
      /\ frame' = [frame EXCEPT ![p] = NoFrame]
      /\ UNCHANGED <<blocked, server, todo, todoWaiters, serving, doneWaiters, next_id>>
  BY <1>5 DEF Return
<1>7. InCall' = InCall \ {p}
  BY <1>0, <1>4, <1>6 DEF InCall
<1>8. \A c \in Ptr \ {p} : frame'[c] = frame[c]
  BY <1>0, <1>6 DEF SchemeTypes
<1>9. frame'[p] = NoFrame
  BY <1>0, <1>6 DEF SchemeTypes
<1>10. SchemeTypes'
  <2>1. NoFrame \in [id : Nat, cur : Nat, pc : AllPCs]
    BY DEF NoFrame, AllPCs, PCs
  <2>2. frame' \in [Ptr -> [id : Nat, cur : Nat, pc : AllPCs]]
    BY <1>0, <1>6, <2>1 DEF SchemeTypes
  <2> QED
    BY <1>0, <1>6, <2>2 DEF SchemeTypes
<1>11. ServerInv'
  <2>1. \A c \in file' : c \in Live' /\ ~ exited'[c] /\ c # server'
    BY <1>0, <1>3, <1>5, <1>6 DEF ServerInv
  <2>2. server' \in Live' /\ pc'[server'] \in {"user", "serve"}
    BY <1>0, <1>3, <1>5, <1>6 DEF ServerInv, SchemeTypes
  <2>3. \A c \in Ptr : pc'[c] = "serve" => c = server'
    BY <1>0, <1>6 DEF ServerInv
  <2> QED
    BY <1>5, <1>6, <2>1, <2>2, <2>3 DEF ServerInv
<1>12. FrameInv'
  BY <1>0, <1>4, <1>6, <1>7, <1>8, <1>9 DEF FrameInv
<1>13. PlaceInv'
  <2>1. {frame'[c].id : c \in InCall'} = {frame[c].id : c \in InCall} \ {frame[p].id}
    <3>1. \A c \in InCall \ {p} : frame'[c].id = frame[c].id /\ frame[c].id # frame[p].id
      BY <1>0, <1>4, <1>8 DEF FrameInv
    <3> QED
      BY <1>4, <1>7, <3>1
  <2>2. Queued' = Queued /\ frame[p].id \notin Queued \cup serving
    BY <1>0, <1>6 DEF PlaceInv, Queued
  <2> QED
    BY <1>0, <1>6, <2>1, <2>2 DEF PlaceInv
<1>14. WakeInv'
  BY <1>0, <1>3, <1>4, <1>6, <1>7, <1>8 DEF WakeInv
<1> QED
  BY <1>2, <1>10, <1>11, <1>12, <1>13, <1>14 DEF TidyInv

(* The answer is not there: the caller waits again.                          *)
LEMMA RetryKeeps ==
  ASSUME TidyInv, NEW p \in Ptr, Retry(p)
  PROVE  TidyInv'
<1>0. /\ SchemeTypes /\ ServerInv /\ FrameInv /\ PlaceInv /\ WakeInv
      /\ NoCtx \notin Ptr /\ pc \in [Ptr -> AllPCs]
  BY PtrAssumption DEF TidyInv, Sched
<1>1. SchemeStep(p)
  BY DEF SchemeStep
<1>2. Sched' /\ CalmInv'
  BY <1>1, SchemeSched
<1>3. Current = {p} /\ Live' = Live /\ exited' = exited
  BY <1>1, SchemeMoves DEF Live
<1>4. p \in InCall /\ InCall' = InCall /\ InCall \subseteq Ptr
  BY <1>0 DEF Retry, InCall, AllPCs, PCs
<1>5. /\ frame[p].id \notin done /\ doneWaiters' = doneWaiters \cup {p}
      /\ \A c \in Ptr : blocked'[c] => c = p \/ blocked[c]
      /\ UNCHANGED <<pc, server, file, todo, todoWaiters, serving, done, next_id, frame>>
  BY <1>3 DEF Retry, Wait
<1>6. SchemeTypes' /\ FrameInv' /\ PlaceInv'
  BY <1>0, <1>4, <1>5 DEF SchemeTypes, FrameInv, PlaceInv, Queued
<1>7. ServerInv'
  BY <1>0, <1>3, <1>4, <1>5 DEF ServerInv
<1>8. WakeInv'
  <2>1. p # server
    BY <1>0, <1>4 DEF ServerInv, InCall
  <2> QED
    BY <1>0, <1>4, <1>5, <2>1 DEF WakeInv, SchemeTypes
<1> QED
  BY <1>2, <1>6, <1>7, <1>8 DEF TidyInv

(* A scheme is created by a context that has no file of it.                  *)
LEMMA CreateKeeps ==
  ASSUME TidyInv, NEW p \in Ptr, SchemeCreate(p)
  PROVE  TidyInv'
<1>0. /\ SchemeTypes /\ ServerInv /\ FrameInv /\ PlaceInv /\ WakeInv
      /\ NoCtx \notin Ptr
  BY PtrAssumption DEF TidyInv
<1>1. SchemeStep(p)
  BY DEF SchemeStep
<1>2. Sched' /\ CalmInv'
  BY <1>1, SchemeSched
<1>3. p \in Live /\ ~ blocked[p] /\ Live' = Live
  BY <1>1, SchemeMoves DEF Live
<1>4. /\ server = NoCtx /\ server' = p /\ pc[p] = "user"
      /\ UNCHANGED <<pc, blocked, exited, file, todo, todoWaiters, serving, done,
                     doneWaiters, next_id, frame>>
  BY DEF SchemeCreate, vars, InKernel
<1>5. InCall' = InCall /\ file = {} /\ InCall = {}
  BY <1>0, <1>4 DEF InCall, ServerInv
<1>6. SchemeTypes' /\ FrameInv' /\ PlaceInv'
  BY <1>0, <1>4, <1>5 DEF SchemeTypes, FrameInv, PlaceInv, Queued
<1>7. ServerInv'
  BY <1>0, <1>3, <1>4, <1>5 DEF ServerInv
<1>8. WakeInv'
  BY <1>0, <1>3, <1>4, <1>5 DEF WakeInv
<1> QED
  BY <1>2, <1>6, <1>7, <1>8 DEF TidyInv

(* The server takes a call, or finds none and waits.                         *)
LEMMA ServerReadKeeps ==
  ASSUME TidyInv, NEW p \in Ptr, ServerRead(p)
  PROVE  TidyInv'
<1>0. /\ SchemeTypes /\ ServerInv /\ FrameInv /\ PlaceInv /\ WakeInv
      /\ NoCtx \notin Ptr /\ pc \in [Ptr -> AllPCs]
  BY PtrAssumption DEF TidyInv, Sched
<1>1. SchemeStep(p)
  BY DEF SchemeStep
<1>2. Sched' /\ CalmInv'
  BY <1>1, SchemeSched
<1>3. /\ p \in Live /\ ~ blocked[p] /\ Current = {p} /\ Live' = Live
      /\ exited' = exited
  BY <1>1, SchemeMoves DEF Live
<1>4. /\ p = server /\ pc[p] \in {"user", "serve"}
      /\ UNCHANGED <<server, file, done, doneWaiters, next_id, frame>>
  BY DEF ServerRead, InKernel
<1>5. PICK new \in {"user", "serve"} : pc' = [pc EXCEPT ![p] = new]
  BY DEF ServerRead
<1>6. InCall' = InCall /\ InCall \subseteq Ptr /\ p \notin InCall
  BY <1>0, <1>4, <1>5 DEF InCall
<1>7. FrameInv'
  BY <1>0, <1>4, <1>6 DEF FrameInv
<1>8. ServerInv'
  BY <1>0, <1>3, <1>4, <1>5, <1>6 DEF ServerInv
<1>9. CASE /\ todo # <<>> /\ serving' = serving \cup {Head(todo)} /\ todo' = Tail(todo)
           /\ UNCHANGED <<blocked, todoWaiters>>
  <2>1. /\ todo' \in Seq(Nat) /\ Head(todo) \in Nat
        /\ \A m, n \in 1..Len(todo') : todo'[m] = todo'[n] => m = n
        /\ Head(todo) \in Queued /\ Queued' = Queued \ {Head(todo)}
    <3>1. /\ todo \in Seq(Nat) /\ todo # <<>> /\ todo' = Tail(todo)
          /\ \A m, n \in 1..Len(todo) : todo[m] = todo[n] => m = n
      BY <1>0, <1>9 DEF SchemeTypes, PlaceInv
    <3>2. /\ Tail(todo) \in Seq(Nat) /\ Head(todo) \in Nat
          /\ \A m, n \in 1..Len(Tail(todo)) : Tail(todo)[m] = Tail(todo)[n] => m = n
          /\ Head(todo) \in {todo[n] : n \in 1..Len(todo)}
          /\ {Tail(todo)[n] : n \in 1..Len(Tail(todo))}
               = {todo[n] : n \in 1..Len(todo)} \ {Head(todo)}
      BY <3>1, QueuedPop
    <3>3. Queued' = {Tail(todo)[n] : n \in 1..Len(Tail(todo))}
      BY <3>1 DEF Queued
    <3>4. Head(todo) \in Queued /\ Queued' = Queued \ {Head(todo)}
      BY <3>2, <3>3 DEF Queued
    <3>5. \A m, n \in 1..Len(todo') : todo'[m] = todo'[n] => m = n
      BY <3>1, <3>2
    <3> QED
      BY <3>1, <3>2, <3>4, <3>5
  <2>2. SchemeTypes'
    BY <1>0, <1>4, <1>9, <2>1 DEF SchemeTypes
  <2>3. PlaceInv'
    <3>1. {frame'[c].id : c \in InCall'} = {frame[c].id : c \in InCall}
      BY <1>4, <1>6
    <3> DEFINE callers == {frame[c].id : c \in InCall}
    <3>2. /\ Queued \cap serving = {} /\ Queued \cap done = {} /\ serving \cap done = {}
          /\ Queued \cup serving \cup done = callers
      BY <1>0 DEF PlaceInv
    <3> HIDE DEF callers
    <3>3. /\ Queued' \cap serving' = {} /\ Queued' \cap done' = {}
          /\ serving' \cap done' = {}
          /\ Queued' \cup serving' \cup done' = callers
      BY <1>4, <1>9, <2>1, <3>2
    <3> QED
      BY <2>1, <3>1, <3>3 DEF PlaceInv, callers
  <2>4. WakeInv'
    BY <1>0, <1>3, <1>4, <1>6, <1>9 DEF WakeInv
  <2> QED
    BY <1>2, <1>7, <1>8, <2>2, <2>3, <2>4 DEF TidyInv
<1>10. CASE /\ todo = <<>> /\ todoWaiters' = todoWaiters \cup Current /\ Wait({})
            /\ UNCHANGED <<serving, todo>>
  <2>1. \A c \in Ptr : blocked'[c] => c = p \/ blocked[c]
    BY <1>3, <1>10 DEF Wait
  <2>2. SchemeTypes' /\ PlaceInv'
    BY <1>0, <1>3, <1>4, <1>6, <1>10 DEF SchemeTypes, PlaceInv, Queued
  <2>3. WakeInv'
    BY <1>0, <1>3, <1>4, <1>6, <1>10, <2>1 DEF WakeInv
  <2> QED
    BY <1>2, <1>7, <1>8, <2>2, <2>3 DEF TidyInv
<1> QED
  BY <1>9, <1>10 DEF ServerRead

(* The server answers: everyone who waits for an answer is woken.            *)
LEMMA ServerWriteKeeps ==
  ASSUME TidyInv, NEW p \in Ptr, ServerWrite(p)
  PROVE  TidyInv'
<1>0. /\ SchemeTypes /\ ServerInv /\ FrameInv /\ PlaceInv /\ WakeInv
      /\ NoCtx \notin Ptr /\ pc \in [Ptr -> AllPCs]
  BY PtrAssumption DEF TidyInv, Sched
<1>1. SchemeStep(p)
  BY DEF SchemeStep
<1>2. Sched' /\ CalmInv'
  BY <1>1, SchemeSched
<1>3. p \in Live /\ ~ blocked[p] /\ Live' = Live /\ exited' = exited
  BY <1>1, SchemeMoves DEF Live
<1>4. /\ p = server /\ UNCHANGED <<pc, server, file, todo, todoWaiters, next_id, frame>>
      /\ doneWaiters' = {}
      /\ \A c \in Ptr : blocked'[c] => blocked[c] /\ c \notin doneWaiters
  BY DEF ServerWrite, Notified
<1>5. PICK id \in serving : serving' = serving \ {id} /\ done' = done \cup {id}
  BY DEF ServerWrite
<1>6. InCall' = InCall /\ InCall \subseteq Ptr
  BY <1>4 DEF InCall
<1>7. SchemeTypes' /\ FrameInv'
  BY <1>0, <1>4, <1>5, <1>6 DEF SchemeTypes, FrameInv
<1>8. ServerInv'
  BY <1>0, <1>3, <1>4, <1>6 DEF ServerInv
<1>9. PlaceInv'
  <2>1. {frame'[c].id : c \in InCall'} = {frame[c].id : c \in InCall} /\ Queued' = Queued
    BY <1>4, <1>6 DEF Queued
  <2> DEFINE callers == {frame[c].id : c \in InCall}
  <2>2. /\ Queued \cap serving = {} /\ Queued \cap done = {} /\ serving \cap done = {}
        /\ Queued \cup serving \cup done = callers
    BY <1>0 DEF PlaceInv
  <2> HIDE DEF callers
  <2>3. /\ Queued' \cap serving' = {} /\ Queued' \cap done' = {}
        /\ serving' \cap done' = {}
        /\ Queued' \cup serving' \cup done' = callers
    BY <1>5, <2>1, <2>2
  <2>4. \A m, n \in 1..Len(todo') : todo'[m] = todo'[n] => m = n
    BY <1>0, <1>4 DEF PlaceInv
  <2> QED
    BY <2>1, <2>3, <2>4 DEF PlaceInv, callers
<1>10. WakeInv'
  BY <1>0, <1>3, <1>4, <1>6 DEF WakeInv
<1> QED
  BY <1>2, <1>7, <1>8, <1>9, <1>10 DEF TidyInv

-----------------------------------------------------------------------------
(* TidyInv is an invariant of programs that close before they exit: the      *)
(* scheduler's list and stacks, and every call's place, caller and waiter.   *)
THEOREM TidyInvariance == TidySpec => []TidyInv
<1>1. TidyInv /\ [TidyNext]_closeVars => TidyInv'
  <2> SUFFICES ASSUME TidyInv, [TidyNext]_closeVars PROVE TidyInv'
    OBVIOUS
  <2>1. CASE TidyCore /\ UNCHANGED scheme
    BY <2>1, CoreKeeps
  <2>2. ASSUME NEW p \in Ptr,
               \/ SchemeCreate(p) \/ Open(p) \/ Close(p) \/ Return(p) \/ Retry(p)
               \/ ServerRead(p) \/ ServerWrite(p)
        PROVE  TidyInv'
    BY <2>2, CreateKeeps, CallKeeps, ReturnKeeps, RetryKeeps, ServerReadKeeps,
       ServerWriteKeeps
  <2>3. CASE UNCHANGED closeVars
    <3>1. UNCHANGED vars /\ UNCHANGED scheme
      BY <2>3 DEF closeVars
    <3> USE <3>1 DEF vars, scheme
    <3>2. ListInv' /\ CursorInv' /\ FlagInv' /\ ExecInv'
      BY NextListInv, NextCursorInv, NextFlagInv, NextExecInv DEF TidyInv
    <3>3. Sched'
      BY <3>2 DEF TidyInv, Sched
    <3>4. InCall' = InCall /\ Live' = Live /\ Queued' = Queued
      BY DEF InCall, Live, Queued
    <3>5. SchemeTypes' /\ CalmInv'
      BY DEF TidyInv, SchemeTypes, CalmInv
    <3>6. ServerInv' /\ FrameInv' /\ PlaceInv' /\ WakeInv'
      BY <3>4 DEF TidyInv, ServerInv, FrameInv, PlaceInv, WakeInv
    <3> QED
      BY <3>3, <3>5, <3>6 DEF TidyInv
  <2> QED
    BY <2>1, <2>2, <2>3 DEF TidyNext
<1> QED
  BY CloseInitInv, <1>1, PTL DEF TidySpec

(* No call is lost, answered twice or left asleep beside its answer, for any *)
(* number of contexts and calls (SchemeInner::call, WaitMap, WaitQueue).     *)
THEOREM CallsKeptSound == TidySpec => []CallsSound
<1>1. TidyInv => CallsSound
  <2> SUFFICES ASSUME TidyInv PROVE CallsSound
    OBVIOUS
  <2>0. /\ SchemeTypes /\ ServerInv /\ FrameInv /\ PlaceInv /\ WakeInv
        /\ Live \subseteq Ptr /\ FlagInv
    BY SchedLive DEF TidyInv, Sched
  <2>1. CallNotForgotten
    <3>1. \A c \in Live : pc[c] \in {"open", "close"} => c \in InCall
      BY <2>0 DEF InCall
    <3>2. server \in Live => server # NoCtx
      BY <2>0, PtrAssumption
    <3> QED
      BY <2>0, <3>1, <3>2 DEF CallNotForgotten, WakeInv
  <2>2. InCall \subseteq Live
    BY <2>0 DEF InCall, FlagInv
  <2>3. ASSUME NEW id \in 1..(next_id - 1)
        PROVE  LET places == {k \in {"todo", "serving", "done"} :
                                \/ k = "todo" /\ \E n \in 1..Len(todo) : todo[n] = id
                                \/ k = "serving" /\ id \in serving
                                \/ k = "done" /\ id \in done}
                   callers == {c \in Live : frame[c].id = id}
               IN  Cardinality(places) = Cardinality(callers) /\ Cardinality(callers) <= 1
    <3> DEFINE places == {k \in {"todo", "serving", "done"} :
                            \/ k = "todo" /\ \E n \in 1..Len(todo) : todo[n] = id
                            \/ k = "serving" /\ id \in serving
                            \/ k = "done" /\ id \in done}
               callers == {c \in Live : frame[c].id = id}
    <3>1. /\ "todo" \in places <=> id \in Queued
          /\ "serving" \in places <=> id \in serving
          /\ "done" \in places <=> id \in done
          /\ places \subseteq {"todo", "serving", "done"}
      BY DEF Queued
    <3>2. callers = {c \in InCall : frame[c].id = id}
      <4>1. id # 0 /\ \A c \in Live \ InCall : frame[c].id = 0
        BY <2>0, <2>3 DEF FrameInv, NoFrame
      <4> QED
        BY <2>2, <4>1
    <3> HIDE DEF places, callers
    <3> SUFFICES Cardinality(places) = Cardinality(callers) /\ Cardinality(callers) <= 1
      BY DEF places, callers
    <3>3. CASE id \in {frame[c].id : c \in InCall}
      <4>1. PICK c \in InCall : callers = {c}
        BY <2>0, <3>2, <3>3 DEF FrameInv
      <4>2. \E k : places = {k}
        <5>1. CASE id \in Queued
          <6>1. id \notin serving /\ id \notin done
            BY <2>0, <5>1 DEF PlaceInv
          <6> QED
            BY <3>1, <5>1, <6>1
        <5>2. CASE id \in serving
          <6>1. id \notin Queued /\ id \notin done
            BY <2>0, <5>2 DEF PlaceInv
          <6> QED
            BY <3>1, <5>2, <6>1
        <5>3. CASE id \in done
          <6>1. id \notin serving /\ id \notin Queued
            BY <2>0, <5>3 DEF PlaceInv
          <6> QED
            BY <3>1, <5>3, <6>1
        <5>4. id \in Queued \cup serving \cup done
          BY <2>0, <3>3 DEF PlaceInv
        <5> QED
          BY <5>1, <5>2, <5>3, <5>4
      <4>3. Cardinality(places) = 1 /\ Cardinality(callers) = 1
        BY <4>1, <4>2, FS_Singleton
      <4> QED
        BY <4>3
    <3>4. CASE id \notin {frame[c].id : c \in InCall}
      <4>1. callers = {}
        BY <3>2, <3>4
      <4>2. places = {}
        BY <2>0, <3>1, <3>4 DEF PlaceInv
      <4>3. Cardinality(places) = 0 /\ Cardinality(callers) = 0
        BY <4>1, <4>2, FS_EmptySet
      <4> QED
        BY <4>3
    <3> QED
      BY <3>3, <3>4
  <2> QED
    BY <2>1, <2>3 DEF CallsSound, CallsAccounted
<1> QED
  BY TidyInvariance, <1>1, PTL

(* The registers saved in a context are those of its own stack as long as    *)
(* programs close their files of a scheme before they exit, also while calls *)
(* block; CloseSpec, without that discipline, violates it.                   *)
THEOREM TidyStacksUnique == TidySpec => []StacksUnique
<1>1. TidyInv => StacksUnique
  BY DEF TidyInv, Sched, CursorInv, StacksUnique
<1> QED
  BY TidyInvariance, <1>1, PTL

(* Closing before exit is a restriction of programs only: such a behaviour   *)
(* is one of CloseSpec, since clean never meets an exited context with a     *)
(* file open and the server does not exit.                                   *)
THEOREM TidyIsClose == TidySpec => CloseSpec
<1>1. TidyInv /\ [TidyNext]_closeVars => [CloseNext]_closeVars
  <2> SUFFICES ASSUME TidyInv, TidyNext PROVE CloseNext
    BY DEF closeVars
  <2>1. CASE TidyCore /\ UNCHANGED scheme
    <3>1. Next
      BY <2>1 DEF TidyCore, Next
    <3>2. ~ AtOpenFile
      BY DEF TidyInv, ServerInv, AtOpenFile
    <3>3. server # NoCtx => ~ exited'[server]
      <4>1. Sched' /\ ServerInv' /\ server' = server
        BY <2>1, CoreKeeps DEF TidyInv, scheme
      <4>2. SchemeTypes
        BY DEF TidyInv
      <4> QED
        BY <4>1, <4>2 DEF Sched, FlagInv, ServerInv, SchemeTypes
    <3> QED
      BY <2>1, <3>1, <3>2, <3>3 DEF CloseNext
  <2>2. ASSUME NEW p \in Ptr,
               \/ SchemeCreate(p) \/ Open(p) \/ Close(p) \/ Return(p) \/ Retry(p)
               \/ ServerRead(p) \/ ServerWrite(p)
        PROVE  CloseNext
    BY <2>2 DEF CloseNext
  <2> QED
    BY <2>1, <2>2 DEF TidyNext
<1> QED
  BY TidyInvariance, <1>1, PTL DEF TidySpec, CloseSpec
=============================================================================
