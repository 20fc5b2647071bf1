--------------------------- MODULE ContextsClose ---------------------------
(***************************************************************************)
(* The process core together with one user scheme (kernel/fs/scheme.rs).   *)
(* A file of such a scheme is a SchemeResource, and its Drop is a call to  *)
(* the server that waits for the answer.  A context that exits with such a *)
(* file open is dropped by ContextManager::clean, in the middle of the     *)
(* search of somebody else's context_switch, so that the wait happens      *)
(* there.                                                                  *)
(*                                                                         *)
(* The server does not exit in this module, and files are not shared by    *)
(* threads: SchemeResource::dup fails, so that a clone has no such file.   *)
(***************************************************************************)
EXTENDS Contexts

CONSTANT MaxCalls  \* bound on the calls made

VARIABLES
  server,       \* the context that created the scheme
  file,         \* the contexts with an open file of the scheme
  todo,         \* SchemeInner.todo: a queue of call ids
  todoWaiters,  \* SchemeInner.todo.condition.contexts
  serving,      \* ids the server has read and not answered
  done,         \* SchemeInner.done: ids with an answer
  doneWaiters,  \* SchemeInner.done.condition.contexts
  next_id,      \* SchemeInner.next_id
  frame         \* per stack, the call it is in and where it goes on after it

scheme == <<server, file, todo, todoWaiters, serving, done, doneWaiters,
            next_id, frame>>
closeVars == <<vars, scheme>>

NoFrame == [id |-> 0, cur |-> 0, pc |-> "free"]

CloseInit ==
  /\ Init
  /\ server = NoCtx /\ file = {} /\ todo = <<>> /\ todoWaiters = {}
  /\ serving = {} /\ done = {} /\ doneWaiters = {} /\ next_id = 1
  /\ frame = [c \in Ptr |-> NoFrame]

(* ContextManager::current_mut, which fails beyond the end of the list.      *)
Current == IF i < Len(inner) THEN {At(i)} ELSE {}

(* WaitCondition::wait after the contexts in ws have been notified: what is  *)
(* blocked is the context that contexts.i designates.                        *)
Wait(ws) ==
  /\ blocked' = [c \in Ptr |-> c \in Current \/ (blocked[c] /\ c \notin ws)]
  /\ StartSwitch

(* SchemeInner::call up to its first wait.                                   *)
Call(where, cur) ==
  /\ next_id <= MaxCalls
  /\ next_id' = next_id + 1
  /\ todo' = Append(todo, next_id) /\ todoWaiters' = {}
  /\ doneWaiters' = doneWaiters \cup Current
  /\ Wait(todoWaiters)
  /\ frame' = [frame EXCEPT ![running] =
                 [id |-> next_id, cur |-> cur, pc |-> pc[running]]]
  /\ pc' = [pc EXCEPT ![running] = where]

(* do_sys_open of ":name" with O_CREAT.                                      *)
SchemeCreate(p) ==
  /\ InKernel(p, "user") /\ server = NoCtx
  /\ server' = p
  /\ UNCHANGED <<vars, file, todo, todoWaiters, serving, done, doneWaiters,
                 next_id, frame>>

(* do_sys_open of "name:..." in a client, and do_sys_close.                  *)
Open(p) ==
  /\ InKernel(p, "user") /\ server \notin {NoCtx, p} /\ p \notin file
  /\ Call("open", 0)
  /\ UNCHANGED <<inner, next_pid, running, pid, ppid, exited, vfork, wake, regs,
                 statuses, waiters, waitkey, target, server, file, serving, done>>

Close(p) ==
  /\ InKernel(p, "user") /\ p \in file
  /\ file' = file \ {p}
  /\ Call("close", 0)
  /\ UNCHANGED <<inner, next_pid, running, pid, ppid, exited, vfork, wake, regs,
                 statuses, waiters, waitkey, target, server, serving, done>>

(* Mutant: receive reads the answer and leaves it in the map.                *)
Return_Kept(p) ==
  /\ mode = "run" /\ running = p /\ pc[p] \in {"open", "close", "clean"}
  /\ frame[p].id \in done
  /\ file' = IF pc[p] = "open" THEN file \cup {p} ELSE file
  /\ pc' = [pc EXCEPT ![p] = frame[p].pc]
  /\ frame' = [frame EXCEPT ![p] = NoFrame]
  /\ UNCHANGED <<inner, i, current_i, mode, next_pid, running, pid, ppid,
                 blocked, exited, vfork, wake, regs, statuses, waiters, waitkey,
                 target, server, todo, todoWaiters, serving, done, doneWaiters,
                 next_id>>

(* The answer is there: open and close return to the program, a call made by *)
(* clean returns into the search.                                            *)
Return(p) ==
  /\ mode = "run" /\ running = p /\ pc[p] \in {"open", "close", "clean"}
  /\ frame[p].id \in done
  /\ done' = done \ {frame[p].id}
  /\ file' = IF pc[p] = "open" THEN file \cup {p} ELSE file
  /\ mode' = IF pc[p] = "clean" THEN "search" ELSE "run"
  /\ current_i' = frame[p].cur
  /\ pc' = [pc EXCEPT ![p] = frame[p].pc]
  /\ frame' = [frame EXCEPT ![p] = NoFrame]
  /\ UNCHANGED <<inner, i, next_pid, running, pid, ppid, blocked, exited, vfork,
                 wake, regs, statuses, waiters, waitkey, target, server, todo,
                 todoWaiters, serving, doneWaiters, next_id>>

(* The answer is not there: the loop of WaitMap::receive goes round.         *)
Retry(p) ==
  /\ mode = "run" /\ running = p /\ pc[p] \in {"open", "close", "clean"}
  /\ frame[p].id \notin done
  /\ doneWaiters' = doneWaiters \cup Current
  /\ Wait({})
  /\ UNCHANGED <<inner, next_pid, running, pid, ppid, exited, vfork, wake, regs,
                 statuses, waiters, pc, waitkey, target, server, file, todo,
                 todoWaiters, serving, done, next_id, frame>>

(* SchemeServerResource::read with a buffer of one packet.                   *)
ServerRead(p) ==
  /\ InKernel(p, "user") \/ InKernel(p, "serve")
  /\ p = server
  /\ \/ /\ todo # <<>>
        /\ serving' = serving \cup {Head(todo)} /\ todo' = Tail(todo)
        /\ pc' = [pc EXCEPT ![p] = "user"]
        /\ UNCHANGED <<i, current_i, mode, blocked, todoWaiters>>
     \/ /\ todo = <<>>
        /\ todoWaiters' = todoWaiters \cup Current
        /\ Wait({})
        /\ pc' = [pc EXCEPT ![p] = "serve"]
        /\ UNCHANGED <<serving, todo>>
  /\ UNCHANGED <<inner, next_pid, running, pid, ppid, exited, vfork, wake, regs,
                 statuses, waiters, waitkey, target, server, file, done,
                 doneWaiters, next_id, frame>>

(* SchemeServerResource::write of one packet.                                *)
ServerWrite(p) ==
  /\ InKernel(p, "user") /\ p = server
  /\ \E id \in serving : serving' = serving \ {id} /\ done' = done \cup {id}
  /\ blocked' = Notified(doneWaiters) /\ doneWaiters' = {}
  /\ UNCHANGED <<inner, next_pid, i, current_i, mode, running, pid, ppid, exited,
                 vfork, wake, regs, statuses, waiters, pc, waitkey, target,
                 server, file, todo, todoWaiters, next_id, frame>>

(* clean removes an exited context that has a file of the scheme open ...    *)
AtOpenFile == mode = "search" /\ i < Len(inner) /\ exited[At(i)] /\ At(i) \in file

CleanRemove ==
  /\ AtOpenFile
  /\ Removed(i + 1)
  /\ mode' = "drop"
  /\ file' = file \ {At(i)}
  /\ UNCHANGED <<i, current_i, running, next_pid, regs, server, todo,
                 todoWaiters, serving, done, doneWaiters, next_id, frame>>

(* ... and Drop for SchemeResource calls the server, on the stack of the     *)
(* context that is being switched away from.                                 *)
CleanDrop ==
  /\ mode = "drop"
  /\ Call("clean", current_i)
  /\ UNCHANGED <<inner, next_pid, running, pid, ppid, exited, vfork, wake, regs,
                 statuses, waiters, waitkey, target, server, file, serving, done>>

CloseNext ==
  \/ /\ Next /\ ~ AtOpenFile
     /\ server # NoCtx => ~ exited'[server]
     /\ UNCHANGED scheme
  \/ CleanRemove \/ CleanDrop
  \/ \E p \in Ptr :
       \/ SchemeCreate(p) \/ Open(p) \/ Close(p) \/ Return(p) \/ Retry(p)
       \/ ServerRead(p) \/ ServerWrite(p)

CloseSpec == CloseInit /\ [][CloseNext]_closeVars

(* Programs that close their files of the scheme before they exit, and that  *)
(* create contexts with clone only.                                          *)
TidyCore ==
  \/ Search
  \/ \E p \in Ptr :
       \/ \E c \in Ptr : Clone(p, c) \/ (InKernel(p, "kinit") /\ Execve(p, c))
       \/ Timer(p) \/ IdleSwitch(p) \/ KExec(p)
       \/ p \notin file \cup {server} /\ Exit(p)

TidyNext ==
  \/ TidyCore /\ UNCHANGED scheme
  \/ \E p \in Ptr :
       \/ SchemeCreate(p) \/ Open(p) \/ Close(p) \/ Return(p) \/ Retry(p)
       \/ ServerRead(p) \/ ServerWrite(p)

TidySpec == CloseInit /\ [][TidyNext]_closeVars

(* No answer is forgotten: a context that is blocked in a call has no answer *)
(* in the map, and the server does not sleep while there is a call to serve, *)
(* whatever else blocks, wakes and ends contexts at the same time.           *)
CallNotForgotten ==
  /\ \A c \in Live : pc[c] \in {"open", "close"} /\ blocked[c] =>
       frame[c].id \notin done
  /\ server \in Live /\ pc[server] = "serve" /\ blocked[server] => todo = <<>>

(* Every call is in one place only: waiting, being served or answered, and   *)
(* its caller is still there to take the answer.                             *)
CallsAccounted ==
  \A id \in 1..(next_id - 1) :
    LET places == {k \in {"todo", "serving", "done"} :
                     \/ k = "todo" /\ \E n \in 1..Len(todo) : todo[n] = id
                     \/ k = "serving" /\ id \in serving
                     \/ k = "done" /\ id \in done}
        callers == {c \in Live : frame[c].id = id}
    IN  Cardinality(places) = Cardinality(callers) /\ Cardinality(callers) <= 1

(* The two together: between calls, closes, exits and reaping, no call is    *)
(* lost, answered twice, or left asleep beside its answer.                   *)
CallsSound == CallNotForgotten /\ CallsAccounted

(* struct Context says of kernel_stack, regs and stack that they "control    *)
(* the stack and registers and are unique to each context": the registers    *)
(* saved in a context are those of its own stack, so that the context goes   *)
(* on where it stopped and no stack is resumed twice.                        *)
StacksUnique == \A c \in Live : regs[c] = c
=============================================================================
