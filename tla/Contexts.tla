------------------------------ MODULE Contexts ------------------------------
(***************************************************************************)
(* The process core of the Redox kernel: the list of contexts, the round   *)
(* robin search of context_switch with its in-line reaping of exited       *)
(* contexts, and the system calls that create, block, wake and end them    *)
(* (kernel/arch/context.rs, kernel/syscall/process.rs, execute.rs, time.rs,*)
(* kernel/sync/wait_condition.rs and wait_map.rs, kernel/main.rs).         *)
(*                                                                         *)
(* The kernel runs on one processor, is entered through interrupt gates    *)
(* and never enables interrupts except in the idle loop, so kernel code    *)
(* is a set of coroutines that interleave only at context_switch.  mode is *)
(* "run" while the context on the processor executes, and "search" inside  *)
(* context_switch.                                                         *)
(*                                                                         *)
(* A *mut Context is a member of Ptr; freed addresses are reused.  Every   *)
(* resource in this module is one the kernel implements, so that dup() and *)
(* drop() of a file do not block; module ContextsClose lifts this.         *)
(***************************************************************************)
EXTENDS Integers, Sequences, FiniteSets

CONSTANTS Ptr,       \* addresses a Box<Context> can have
          KIdle,     \* the root context, in which the idle loop runs
          KInit,     \* the kernel thread that becomes init
          NoCtx,     \* None of Option<*mut Context>
          PidLimit,  \* next_pid starts again at 1 when it reaches this (65536)
          MaxSleep,  \* bound on the ticks of a nanosleep
          Status,    \* the statuses programs exit with
          WaitKeys   \* the pids programs wait for

ASSUME PtrAssumption == /\ KIdle \in Ptr /\ KInit \in Ptr /\ KIdle # KInit
                        /\ NoCtx \notin Ptr
ASSUME BoundAssumption == /\ PidLimit \in Nat /\ PidLimit > 2
                          /\ MaxSleep \in Nat /\ WaitKeys \subseteq Nat \ {0}

VARIABLES
  inner,      \* ContextManager.inner, as a sequence of addresses
  i,          \* ContextManager.i, an index from 0
  current_i,  \* the local of context_switch, 0 outside it
  next_pid,   \* ContextManager.next_pid
  mode,       \* "run" or "search"
  running,    \* the context whose kernel stack and registers the CPU holds
  pid, ppid, blocked, exited, vfork,  \* fields of Context
  wake,       \* Context.wake as ticks from now; NoWake is None
  regs,       \* Context.regs: the owner of the stack that was saved in it
  statuses,   \* Context.statuses.inner: the entries <<pid, status>> of the map
  waiters,    \* Context.statuses.condition.contexts
  pc,         \* where the context is when it next has the processor
  waitkey,    \* the pid a "waitpid" context waits for, 0 for none
  target      \* context_ptr of a "kexec" context's closure

sched == <<i, current_i, mode, running>>
vars == <<inner, i, current_i, next_pid, mode, running, pid, ppid, blocked,
          exited, vfork, wake, regs, statuses, waiters, pc, waitkey, target>>

NoWake == -1
Live == {inner[k] : k \in 1..Len(inner)}
At(k) == inner[k + 1]

(***************************************************************************)
(* pc: "idle" in idle_loop, "kinit" the closure spawned by init, "user" in *)
(* user mode (or kernel code about to return to it), "waitpid" inside      *)
(* WaitMap::receive, "exec" in the loop that ends execute_thread, "kexec"  *)
(* the closure spawned by execute_thread, "kexit" the end of context_box,  *)
(* "exit" in the loop that ends do_sys_exit, "free" no context here.       *)
(***************************************************************************)
PCs == {"idle", "kinit", "user", "waitpid", "exec", "kexec", "kexit", "exit",
        "free"}

TypeOK ==
  /\ inner \in Seq(Ptr)
  /\ i \in Nat /\ current_i \in Nat /\ next_pid \in 1..(PidLimit - 1)
  /\ mode \in {"run", "search"}
  /\ running \in Ptr
  /\ pid \in [Ptr -> Nat] /\ ppid \in [Ptr -> Nat]
  /\ blocked \in [Ptr -> BOOLEAN] /\ exited \in [Ptr -> BOOLEAN]
  /\ vfork \in [Ptr -> Ptr \cup {NoCtx}]
  /\ wake \in [Ptr -> -1..MaxSleep]
  /\ regs \in [Ptr -> Ptr]
  /\ statuses \in [Ptr -> SUBSET (Nat \X Status)]
  /\ waiters \in [Ptr -> SUBSET Ptr]
  /\ pc \in [Ptr -> PCs]
  /\ waitkey \in [Ptr -> Nat]
  /\ target \in [Ptr -> Ptr \cup {NoCtx}]

(* The state in which kernel/main.rs enters the idle loop: the root context *)
(* with pid 1 and the kinit thread, spawned with pid 2.                     *)
Init ==
  /\ inner = <<KIdle, KInit>>
  /\ i = 0 /\ current_i = 0
  /\ next_pid = IF PidLimit = 3 THEN 1 ELSE 3
  /\ mode = "run" /\ running = KIdle
  /\ pid = [c \in Ptr |-> IF c = KIdle THEN 1 ELSE IF c = KInit THEN 2 ELSE 0]
  /\ ppid = [c \in Ptr |-> 0]
  /\ blocked = [c \in Ptr |-> FALSE] /\ exited = [c \in Ptr |-> FALSE]
  /\ vfork = [c \in Ptr |-> NoCtx]
  /\ wake = [c \in Ptr |-> NoWake]
  /\ regs = [c \in Ptr |-> c]
  /\ statuses = [c \in Ptr |-> {}] /\ waiters = [c \in Ptr |-> {}]
  /\ pc = [c \in Ptr |-> IF c = KIdle THEN "idle"
                         ELSE IF c = KInit THEN "kinit" ELSE "free"]
  /\ waitkey = [c \in Ptr |-> 0]
  /\ target = [c \in Ptr |-> NoCtx]

-----------------------------------------------------------------------------
(* Mutant: the list is scanned once and a collision is skipped by one.       *)
IsNextPid_OneScan(n) ==
  n = next_pid + (IF \E c \in Live : pid[c] = next_pid THEN 1 ELSE 0)

(* Context::next_pid: the first number from next_pid on that no context in  *)
(* the list has.  The number may be PidLimit or more; the counter then      *)
(* starts again at 1.                                                       *)
IsNextPid(n) ==
  /\ n >= next_pid
  /\ \A c \in Live : pid[c] # n
  /\ \A m \in next_pid..(n - 1) : \E c \in Live : pid[c] = m

(* The counter moves past the pid, and starts again at 1 at the limit.       *)
AllocPid(n) ==
  /\ IsNextPid(n)
  /\ next_pid' = IF n + 1 >= PidLimit THEN 1 ELSE n + 1

(* A Box<Context> at an unused address, pushed to the list.  Its saved       *)
(* registers are its own.                                                   *)
NewContext(c, n, parent, fork, start, for) ==
  /\ c \in Ptr \ Live
  /\ inner' = Append(inner, c)
  /\ pid' = [pid EXCEPT ![c] = n]
  /\ ppid' = [ppid EXCEPT ![c] = parent]
  /\ vfork' = [vfork EXCEPT ![c] = fork]
  /\ regs' = [regs EXCEPT ![c] = c]
  /\ pc' = [pc EXCEPT ![c] = start,
                       ![running] = IF start = "kexec" THEN "exec" ELSE @]
  /\ target' = [target EXCEPT ![c] = for]

(* Mutant: every search starts at the head of the list.                      *)
StartSwitch_FromHead == mode' = "search" /\ current_i' = i /\ i' = 0

(* The call of context_switch up to the first contexts.i += 1.               *)
StartSwitch == mode' = "search" /\ current_i' = i /\ i' = i + 1

(* Mutant: the list of waiters is emptied and nobody is unblocked.           *)
Notified_Nobody(ws) == blocked

(* WaitCondition::notify: the waiting contexts are unblocked and forgotten.  *)
Notified(ws) == [c \in Ptr |-> blocked[c] /\ c \notin ws]

InKernel(p, where) == mode = "run" /\ running = p /\ pc[p] = where

-----------------------------------------------------------------------------
(* System calls.  An error return changes nothing and has no action.         *)

(* context_clone without CLONE_VFORK.                                        *)
Clone(p, c) ==
  /\ InKernel(p, "user")
  /\ \E n \in next_pid..(next_pid + Len(inner)) :
       AllocPid(n) /\ NewContext(c, n, pid[p], NoCtx, "user", NoCtx)
  /\ UNCHANGED <<sched, blocked, exited, wake, statuses, waiters, waitkey>>

(* Mutant: the parent of a vfork is not blocked.                             *)
CloneVfork_NotBlocked(p, c) ==
  /\ InKernel(p, "user")
  /\ \E n \in next_pid..(next_pid + Len(inner)) :
       AllocPid(n) /\ NewContext(c, n, pid[p], p, "user", NoCtx)
  /\ StartSwitch
  /\ UNCHANGED <<running, blocked, exited, wake, statuses, waiters, waitkey>>

(* context_clone with CLONE_VFORK: the parent is blocked, the child points   *)
(* back to it, and the processor is given away.                              *)
CloneVfork(p, c) ==
  /\ InKernel(p, "user")
  /\ \E n \in next_pid..(next_pid + Len(inner)) :
       AllocPid(n) /\ NewContext(c, n, pid[p], p, "user", NoCtx)
  /\ blocked' = [blocked EXCEPT ![p] = TRUE]
  /\ StartSwitch
  /\ UNCHANGED <<running, exited, wake, statuses, waiters, waitkey>>

(* Mutant: execute_thread goes on in the caller without giving way.          *)
Execve_NoWait(p, c) ==
  /\ InKernel(p, "user") \/ InKernel(p, "kinit")
  /\ \E n \in next_pid..(next_pid + Len(inner)) :
       AllocPid(n) /\ NewContext(c, n, 0, NoCtx, "kexec", p)
  /\ UNCHANGED <<sched, blocked, exited, wake, statuses, waiters, waitkey>>

(* execute and execute_thread: the caller's memory is replaced, a kexec      *)
(* thread that will set up its stack is spawned, and the caller loops.  The  *)
(* loop never goes round a second time (ExecTargetWaits): kexec stands       *)
(* behind its caller in the list and is scheduled before it.                 *)
Execve(p, c) ==
  /\ InKernel(p, "user") \/ InKernel(p, "kinit")
  /\ \E n \in next_pid..(next_pid + Len(inner)) :
       AllocPid(n) /\ NewContext(c, n, 0, NoCtx, "kexec", p)
  /\ StartSwitch
  /\ UNCHANGED <<running, blocked, exited, wake, statuses, waiters, waitkey>>

(* The closure of the kexec thread: fresh registers for the context it was   *)
(* spawned for, which is then released from its vfork duty.                  *)
KExec(p) ==
  /\ InKernel(p, "kexec")
  /\ LET c == target[p] IN
       /\ regs' = [regs EXCEPT ![c] = c]
       /\ pc' = [pc EXCEPT ![c] = "user", ![p] = "kexit"]
       /\ vfork' = [vfork EXCEPT ![c] = NoCtx]
       /\ blocked' = [d \in Ptr |-> blocked[d] /\ d # vfork[c]]
  /\ target' = [target EXCEPT ![p] = NoCtx]
  /\ UNCHANGED <<inner, sched, next_pid, pid, ppid, exited, wake, statuses,
                 waiters, waitkey>>

(* The context do_sys_exit finds by comparing every pid with ppid.           *)
Heirs(p) == {c \in Live : pid[c] = ppid[p]}

(* BTreeMap::insert, entry by entry: what a key had is overwritten.          *)
Keys(map) == {e[1] : e \in map}
Inserted(map, new) == {e \in map : e[1] \notin Keys(new)} \cup new

(* Mutant: the uncollected statuses of children are not passed on.           *)
Bequeathed_OwnOnly(p, v) == [c \in Ptr |->
  IF c \in Heirs(p) THEN Inserted(statuses[c], {<<pid[p], v>>})
  ELSE IF c = p THEN {} ELSE statuses[c]]

(* The own exit status and then the uncollected ones are sent to the parent. *)
Bequeathed(p, v) == [c \in Ptr |->
  IF c \in Heirs(p) THEN Inserted(Inserted(statuses[c], {<<pid[p], v>>}), statuses[p])
  ELSE IF c = p THEN {} ELSE statuses[c]]

(* Children are moved to the parent.                                         *)
Reparented(p) ==
  [c \in Ptr |-> IF c \in Live /\ ppid[c] = pid[p] THEN ppid[p] ELSE ppid[c]]

(* do_sys_exit; the processor is given away for good.                        *)
Exit(p) ==
  /\ InKernel(p, "user") \/ InKernel(p, "kinit") \/ InKernel(p, "kexit")
  /\ exited' = [exited EXCEPT ![p] = TRUE]
  /\ \E v \in Status : statuses' = Bequeathed(p, v)
  /\ blocked' = Notified(UNION {waiters[c] : c \in Heirs(p)})
  /\ waiters' = [c \in Ptr |-> IF c \in Heirs(p) THEN {} ELSE waiters[c]]
  /\ ppid' = Reparented(p)
  /\ pc' = [pc EXCEPT ![p] = "exit"]
  /\ StartSwitch
  /\ UNCHANGED <<inner, next_pid, running, pid, vfork, wake, regs, waitkey,
                 target>>

(* WaitMap::receive, one turn of its loop: the status is taken if it is      *)
(* there ...                                                                 *)
TakeStatus(p, k) ==
  /\ k \in Keys(statuses[p])
  /\ statuses' = [statuses EXCEPT ![p] = {e \in @ : e[1] # k}]
  /\ pc' = [pc EXCEPT ![p] = "user"]
  /\ waitkey' = [waitkey EXCEPT ![p] = 0]
  /\ UNCHANGED <<sched, blocked, waiters>>

(* ... and if not, WaitCondition::wait enqueues the current context, blocks  *)
(* it and gives the processor away.                                          *)
WaitStatus(p, k) ==
  /\ k \notin Keys(statuses[p])
  /\ waiters' = [waiters EXCEPT ![p] = @ \cup {At(i)}]
  /\ blocked' = [blocked EXCEPT ![At(i)] = TRUE]
  /\ pc' = [pc EXCEPT ![p] = "waitpid"]
  /\ waitkey' = [waitkey EXCEPT ![p] = k]
  /\ StartSwitch
  /\ UNCHANGED <<statuses, running>>

Receive(p, k) == TakeStatus(p, k) \/ WaitStatus(p, k)

(* do_sys_waitpid with a positive pid.                                       *)
Waitpid(p, k) ==
  /\ InKernel(p, "user")
  /\ Receive(p, k)
  /\ UNCHANGED <<inner, next_pid, pid, ppid, exited, vfork, wake, regs, target>>

(* The loop of receive goes round when the context has been notified.        *)
WaitpidRetry(p) ==
  /\ InKernel(p, "waitpid")
  /\ Receive(p, waitkey[p])
  /\ UNCHANGED <<inner, next_pid, pid, ppid, exited, vfork, wake, regs, target>>

(* do_sys_nanosleep for t ticks.                                             *)
Nanosleep(p, t) ==
  /\ InKernel(p, "user")
  /\ blocked' = [blocked EXCEPT ![p] = TRUE]
  /\ wake' = [wake EXCEPT ![p] = t]
  /\ StartSwitch
  /\ UNCHANGED <<inner, next_pid, running, pid, ppid, exited, vfork, regs,
                 statuses, waiters, pc, waitkey, target>>

(* do_sys_yield.                                                             *)
Yield(p) ==
  /\ InKernel(p, "user")
  /\ StartSwitch
  /\ UNCHANGED <<inner, next_pid, running, pid, ppid, blocked, exited, vfork,
                 wake, regs, statuses, waiters, pc, waitkey, target>>

-----------------------------------------------------------------------------
(* Mutant: the idle loop halts with interrupts disabled.                     *)
Timer_NotInIdle(p) ==
  /\ InKernel(p, "user")
  /\ wake' = [c \in Ptr |-> IF wake[c] > 0 THEN wake[c] - 1 ELSE wake[c]]
  /\ StartSwitch
  /\ UNCHANGED <<inner, next_pid, running, pid, ppid, blocked, exited, vfork,
                 regs, statuses, waiters, pc, waitkey, target>>

(* Interrupt 0x20: the clock advances and the interrupted context gives the  *)
(* processor away.  Only user mode and the idle loop can be interrupted.     *)
Timer(p) ==
  /\ InKernel(p, "user") \/ InKernel(p, "idle")
  /\ wake' = [c \in Ptr |-> IF wake[c] > 0 THEN wake[c] - 1 ELSE wake[c]]
  /\ StartSwitch
  /\ UNCHANGED <<inner, next_pid, running, pid, ppid, blocked, exited, vfork,
                 regs, statuses, waiters, pc, waitkey, target>>

(* idle_loop: it halts when every other context is blocked.                  *)
IdleSwitch(p) ==
  /\ InKernel(p, "idle")
  /\ \E k \in 2..Len(inner) : ~ blocked[inner[k]]
  /\ StartSwitch
  /\ UNCHANGED <<inner, next_pid, running, pid, ppid, blocked, exited, vfork,
                 wake, regs, statuses, waiters, pc, waitkey, target>>

-----------------------------------------------------------------------------
(* context_switch and ContextManager::clean.                                 *)

(* The index wraps around the end of the list.                               *)
SearchWrap ==
  /\ mode = "search" /\ i >= Len(inner)
  /\ i' = i - Len(inner)
  /\ UNCHANGED <<inner, current_i, next_pid, mode, running, pid, ppid, blocked,
                 exited, vfork, wake, regs, statuses, waiters, pc, waitkey,
                 target>>

Without(s, k) == [j \in 1..(Len(s) - 1) |-> IF j < k THEN s[j] ELSE s[j + 1]]

(* A context is removed from the list and dropped: its vfork parent is       *)
(* unblocked (Drop for Context), and so is whoever waits for its statuses    *)
(* (Drop for WaitCondition).  The address is free again.                     *)
Removed(k) ==
  LET c == inner[k] IN
    /\ inner' = Without(inner, k)
    /\ blocked' = [d \in Ptr |-> /\ blocked[d] /\ d # c
                                 /\ d # vfork[c] /\ d \notin waiters[c]]
    /\ exited' = [exited EXCEPT ![c] = FALSE]
    /\ vfork' = [vfork EXCEPT ![c] = NoCtx]
    /\ pid' = [pid EXCEPT ![c] = 0]
    /\ ppid' = [ppid EXCEPT ![c] = 0]
    /\ wake' = [wake EXCEPT ![c] = NoWake]
    /\ statuses' = [statuses EXCEPT ![c] = {}]
    /\ waiters' = [waiters EXCEPT ![c] = {}]
    /\ pc' = [pc EXCEPT ![c] = "free"]
    /\ waitkey' = [waitkey EXCEPT ![c] = 0]
    /\ target' = [target EXCEPT ![c] = NoCtx]

(* Mutant: an exited context is removed wherever it stands.                  *)
SearchClean_Anywhere ==
  /\ mode = "search"
  /\ \E k \in 1..Len(inner) : exited[inner[k]] /\ Removed(k)
  /\ UNCHANGED <<sched, next_pid, regs>>

(* clean removes an exited context from under the index.                     *)
SearchClean ==
  /\ mode = "search" /\ i < Len(inner) /\ exited[At(i)]
  /\ Removed(i + 1)
  /\ UNCHANGED <<sched, next_pid, regs>>

(* Mutant: a sleeper is woken one tick early.                                *)
Due_Early(c) == blocked[c] /\ wake[c] \in {0, 1}

(* A sleeper whose time has come.                                            *)
Due(c) == blocked[c] /\ wake[c] = 0

(* The search stops at a context that is not blocked, or no longer.          *)
CanRun(c) == ~ blocked[c] \/ Due(c)

(* Mutant: exited contexts are passed over like blocked ones.                *)
SearchSkip_Exited ==
  /\ mode = "search" /\ i < Len(inner)
  /\ exited[At(i)] \/ (~ CanRun(At(i)) /\ i # current_i)
  /\ i' = i + 1
  /\ UNCHANGED <<inner, current_i, next_pid, mode, running, pid, ppid, blocked,
                 exited, vfork, wake, regs, statuses, waiters, pc, waitkey,
                 target>>

(* A blocked context is passed over.                                         *)
SearchSkip ==
  /\ mode = "search" /\ i < Len(inner)
  /\ ~ exited[At(i)] /\ ~ CanRun(At(i)) /\ i # current_i
  /\ i' = i + 1
  /\ UNCHANGED <<inner, current_i, next_pid, mode, running, pid, ppid, blocked,
                 exited, vfork, wake, regs, statuses, waiters, pc, waitkey,
                 target>>

(* Context::switch_to: the processor's registers and stack are saved in one  *)
(* context and loaded from the other.                                        *)
SwitchTo(from, to) ==
  /\ regs' = [regs EXCEPT ![from] = running]
  /\ running' = regs[to]

(* The search ends; unless it is back where it began, the processor goes     *)
(* from the context at current_i to the one at i.                            *)
SearchStop ==
  /\ mode = "search" /\ i < Len(inner)
  /\ ~ exited[At(i)] /\ (CanRun(At(i)) \/ i = current_i)
  /\ mode' = "run"
  /\ blocked' = [d \in Ptr |-> blocked[d] /\ ~ (d = At(i) /\ Due(d))]
  /\ wake' = [d \in Ptr |-> IF d = At(i) /\ Due(d) THEN NoWake ELSE wake[d]]
  /\ IF i # current_i /\ current_i < Len(inner)
     THEN SwitchTo(At(current_i), At(i))
     ELSE UNCHANGED <<regs, running>>
  /\ current_i' = 0
  /\ UNCHANGED <<inner, i, next_pid, pid, ppid, exited, vfork, statuses,
                 waiters, pc, waitkey, target>>

Search == SearchWrap \/ SearchClean \/ SearchSkip \/ SearchStop

-----------------------------------------------------------------------------
(* What the kernel itself does without waiting for a user or a device.       *)
KernelStep(p) ==
  \/ KExec(p) \/ WaitpidRetry(p)
  \/ pc[p] # "user" /\ (Exit(p) \/ \E c \in Ptr : Execve(p, c))

Next ==
  \/ Search
  \/ \E p \in Ptr :
       \/ \E c \in Ptr : Clone(p, c) \/ CloneVfork(p, c) \/ Execve(p, c)
       \/ \E k \in WaitKeys : Waitpid(p, k)
       \/ \E t \in 0..MaxSleep : Nanosleep(p, t)
       \/ Exit(p) \/ Yield(p) \/ Timer(p) \/ IdleSwitch(p)
       \/ KExec(p) \/ WaitpidRetry(p)

Spec == Init /\ [][Next]_vars

(***************************************************************************)
(* Fairness.  The processor does not stop in the kernel or in the idle     *)
(* loop while there is something to run.  The timer interrupt is raised    *)
(* for ever and stays pending while interrupts are off, so that it is      *)
(* taken if the processor is interruptible again and again.  Nothing is    *)
(* assumed of user programs.                                               *)
(***************************************************************************)
Fairness ==
  /\ WF_vars(Search)
  /\ \A p \in Ptr : WF_vars(KernelStep(p)) /\ WF_vars(IdleSwitch(p))
  /\ SF_vars(\E p \in Ptr : Timer(p))

FairSpec == Spec /\ Fairness
-----------------------------------------------------------------------------
(* Safety.                                                                   *)

(* The stack the processor runs on belongs to the context that               *)
(* ContextManager.i (during a search, the local current_i) designates, and   *)
(* every context's saved registers are its own ("unique to each context",    *)
(* struct Context).  In particular clean never frees the running context or  *)
(* shifts the list under current_i, so switch_to saves where it should.      *)
CpuOwnership ==
  /\ IF mode = "run" THEN i < Len(inner) /\ running = At(i)
     ELSE current_i < Len(inner) /\ running = At(current_i)
  /\ \A c \in Live : regs[c] = c

(* Code runs only in contexts that are neither blocked nor exited, whatever  *)
(* the order of exits, wake-ups and removals that the search met.            *)
RunningIsRunnable == mode = "run" => ~ blocked[running] /\ ~ exited[running]

(* No two contexts in the list have the same pid, after any number of        *)
(* reuses of pids and addresses.                                             *)
PidUnique == \A c, d \in Live : pid[c] = pid[d] => c = d

(* The parent of a context has not exited (or the context has none), so      *)
(* do_sys_exit finds someone to give its status to and a reused pid never    *)
(* makes a stranger the parent.                                              *)
ParentAlive == \A c \in Live : ppid[c] # 0 =>
                 \E d \in Live : ~ exited[d] /\ pid[d] = ppid[c]

(* The two together: a pid names one context, and a ppid one that lives.     *)
FamilyTree == PidUnique /\ ParentAlive

(* A context with a vfork pointer points to a context that still exists and  *)
(* is still blocked: the write in Drop for Context and in execute_thread is  *)
(* to live memory, and the parent does not touch the memory it lends.        *)
VforkParentBlocked == \A c \in Live : vfork[c] # NoCtx =>
                        /\ vfork[c] \in Live /\ blocked[vfork[c]]
                        /\ vfork[c] # running \/ mode = "search"

(* The raw pointer that a kexec thread captured points to a context that     *)
(* still exists and still waits in execute_thread, and a context whose       *)
(* memory is already replaced does not run before its kexec thread is done.  *)
ExecTargetWaits ==
  /\ \A c \in Live : pc[c] = "kexec" =>
       target[c] \in Live /\ pc[target[c]] = "exec"
  /\ mode = "run" => pc[running] # "exec"

(* No lost wake-up: a context blocked in waitpid has no status to collect.   *)
WaitpidNotForgotten == \A c \in Live :
  pc[c] = "waitpid" /\ blocked[c] => waitkey[c] \notin Keys(statuses[c])

(* An exit status that a context holds is lost in three ways only: its holder *)
(* waits for that pid and gets it, which leaves every other one where it was;*)
(* its holder exits without a parent to pass it on to; or a context that has *)
(* been given the same pid since (or had held a status of one) exits, and    *)
(* WaitMap::send overwrites it with the later one.  In every other step it   *)
(* stays, unchanged, with a context that has not exited.                     *)
Kept(e) == \E d \in Ptr : ~ exited'[d] /\ e \in statuses'[d]
Collected(c, e) ==
  /\ mode = "run" /\ running = c /\ ~ exited'[c]
  /\ pc[c] = "user" \/ (pc[c] = "waitpid" /\ waitkey[c] = e[1])
  /\ statuses'[c] = {f \in statuses[c] : f[1] # e[1]}
Overwritten(c, e) ==
  /\ mode = "run" /\ exited'[running] /\ c \in Heirs(running)
  /\ e[1] \in Keys(statuses[running]) \cup {pid[running]}
  /\ \E f \in statuses'[c] : f[1] = e[1]
StatusKept ==
  \A c \in Live : \A e \in statuses[c] :
    \/ Kept(e) \/ Collected(c, e) \/ Overwritten(c, e)
    \/ exited'[c] /\ ppid[c] = 0
StatusesKept == [][StatusKept]_vars

(* A sleeper stays blocked until its time has come, whoever exits, execs or  *)
(* is notified meanwhile.                                                    *)
StillAsleep(c) == blocked'[c] /\ wake'[c] \in {wake[c], wake[c] - 1}
SleepNotCutShort ==
  [][\A c \in Live : blocked[c] /\ wake[c] > 0 => StillAsleep(c)]_vars

-----------------------------------------------------------------------------
(* Liveness, under Fairness.                                                 *)

(* Round robin starves nobody: a context that can run gets the processor.    *)
NoStarvation == \A c \in Ptr :
  (c \in Live /\ ~ exited[c] /\ CanRun(c)) ~> (mode = "run" /\ running = c)

(* A sleeper wakes up, also when every context sleeps and the idle loop has  *)
(* halted the processor.                                                     *)
SleeperWakes == \A c \in Ptr : wake[c] >= 0 ~> wake[c] = NoWake

(* An exited context is reaped, and with it a vfork parent is unblocked.     *)
ExitedReaped == \A c \in Ptr : exited[c] ~> ~ exited[c]
=============================================================================
