---------------------------- MODULE AddressSpace ----------------------------
(***************************************************************************)
(* The memory of programs: the tables of ContextMemory entries             *)
(* (kernel/arch/context.rs), the system calls on them                      *)
(* (kernel/syscall/memory.rs), clone and execve, the blocks they own in    *)
(* the cluster table, and the user pages mapped on the processor.          *)
(*                                                                         *)
(* Sizes and addresses are in pages, which are clusters; module            *)
(* MemoryLoops is about the rounding.  A space stands for a table and the  *)
(* contexts that run on it.  A call to a scheme lends pages of the caller  *)
(* to the server (kernel/fs/scheme.rs): they are entries of the server's   *)
(* table that are not allocated, which the system calls on memory do not   *)
(* tell from the others.  A program that resizes such memory breaks what   *)
(* the rest relies on; misused says so, and nothing is claimed from then   *)
(* on.                                                                     *)
(***************************************************************************)
EXTENDS Integers, FiniteSets, Sequences, SequencesExt

CONSTANTS PageCount, Usable,   \* the physical pages, and those the memory map declares usable
          Space,       \* address spaces
          First,       \* the space of the first program
          LoadPage,    \* the page that executables are linked at
          MaxPage,     \* bound on the pages of a space
          MaxEntries,  \* bound on the length of a table
          MaxPages,    \* bound on the pages asked for
          MaxBoxes,    \* bound on the kernel boxes
          MaxCalls     \* bound on the calls under way

ASSUME SpaceAssumption ==
  /\ PageCount \in Nat /\ Usable \subseteq 0..(PageCount - 1) /\ Usable # {}
  /\ First \in Space /\ "kernel" \notin Space
  /\ {LoadPage, MaxPage, MaxEntries, MaxPages, MaxBoxes, MaxCalls} \subseteq Nat

VARIABLES frames,    \* the cluster table
          mem,       \* per space, its table: Context.memory
          kernel,    \* blocks of kernel boxes, with their sizes
          alive,     \* spaces in use
          execing,   \* spaces between execve and the kexec thread's work, each
                     \* with the box of its argument
          cur,       \* the space on the processor, or Kernel
          page,      \* user pages mapped: the physical page, or Unmapped
          calls,     \* calls to schemes under way: a number, caller, server,
                     \* and where the server has the caller's buffer
          misused    \* history: a program has resized or given back memory
                     \* that was lent at the time

spaceVars == <<frames, mem, kernel, alive, execing, cur, page, calls, misused>>

-----------------------------------------------------------------------------
Tables == {mem[s] : s \in alive}
Entries == UNION {ToSet(t) : t \in Tables}

Allocated(es) == {e \in es : e.allocated}
Lent == {e \in Entries : ~ e.allocated}

(* Who owns a block: an allocated entry of a table or a kernel box.          *)
Owned == [a \in {e.phys : e \in Allocated(Entries)} \cup {b.phys : b \in kernel} |->
            Max({e.size : e \in {x \in Allocated(Entries) \cup kernel : x.phys = a}})]

M == INSTANCE Memory WITH CLUSTER_COUNT <- PageCount, Present <- Usable,
                           cluster <- frames, held <- Owned

Unmapped == M!NULL
VPages == 0..MaxPage
Kernel == "kernel"   \* a kernel context, without a table
FirstFit(c, k) == CHOOSE n \in M!Clusters \cup {Unmapped} : M!IsAlloc(c, k, n)
AllocSize(c, a) == CHOOSE s \in 0..PageCount : M!IsAllocSize(c, a, s)

(* The table after realloc of a to k has returned r.                         *)
ReallocTables(c, a, k, r) ==
  {d \in {c, M!Unalloc(c, a), M!Unalloc(M!Taken(c, r, k), a)} :
     M!IsRealloc(c, a, k, r, d)}

PagesOf(e) == e.virt..(e.virt + e.size - 1)
Covering(t, v) == {i \in DOMAIN t : v \in PagesOf(t[i])}
PhysAt(e, v) == e.phys + (v - e.virt)

(* ContextMemory::map and unmap over a table, in its order.                  *)
Map(pg, t) == [v \in VPages |->
  IF Covering(t, v) = {} THEN pg[v] ELSE PhysAt(t[Max(Covering(t, v))], v)]
Unmap(pg, t) == [v \in VPages |-> IF Covering(t, v) = {} THEN pg[v] ELSE Unmapped]

(* Context::next_mem.                                                        *)
next_mem(t) == Max({0} \cup {e.virt + e.size : e \in ToSet(t)})

(* Context::clean_mem, entry by entry; the entries removed give their blocks *)
(* back.                                                                     *)
clean_mem(t) ==
  LET kept[n \in 0..Len(t)] ==
        IF n = 0 THEN <<>>
        ELSE IF t[n].size > 0 THEN Append(kept[n - 1], t[n]) ELSE kept[n - 1]
  IN  kept[Len(t)]

(* Drop for ContextMemory: an unalloc for every one of the entries that is   *)
(* allocated.  Each clears its own block, so the order does not matter.      *)
Dropped(c, es) == [i \in M!Clusters |->
  IF \E e \in Allocated(es) : i \in M!Block(c, e.phys) THEN M!FREE ELSE c[i]]

CleanClusters(c, t) == Dropped(c, {e \in ToSet(t) : e.size = 0})

Fitting(t) == Len(t) <= MaxEntries /\ next_mem(t) <= MaxPage + 1

Execing == {x[1] : x \in execing}
Arguments == {x[2] : x \in execing}
Running(s) == cur = s /\ s \in alive /\ s \notin Execing

(* Memory that somebody else relies on: that of a caller, in the table of    *)
(* the server, and a block that pages are lent of.                           *)
OfACall(e) == ~ e.allocated \/ \E x \in Lent : x.phys \in M!Block(frames, e.phys)

-----------------------------------------------------------------------------
SegmentAt(a, w) ==
  [phys |-> a, virt |-> LoadPage, size |-> 1, writeable |-> w, allocated |-> TRUE]

SpaceInit ==
  LET free == [i \in M!Clusters |-> IF i \in Usable THEN M!FREE ELSE M!ABSENT]
      a == FirstFit(free, 1)
      t == <<SegmentAt(a, TRUE)>>
  IN /\ frames = M!Taken(free, a, 1)
     /\ mem = [s \in Space |-> IF s = First THEN t ELSE <<>>]
     /\ kernel = {} /\ alive = {First} /\ execing = {} /\ cur = First
     /\ calls = {} /\ misused = FALSE
     /\ page = Map([v \in VPages |-> Unmapped], t)

(* do_sys_alloc.                                                             *)
SysAlloc(s, k) ==
  LET a == FirstFit(frames, k)
      e == [phys |-> a, virt |-> next_mem(mem[s]), size |-> k, writeable |-> TRUE,
            allocated |-> TRUE]
  IN /\ Running(s) /\ a # Unmapped
     /\ Fitting(Append(mem[s], e))
     /\ frames' = M!Taken(frames, a, k)
     /\ mem' = [mem EXCEPT ![s] = Append(@, e)]
     /\ page' = Map(page, <<e>>)
     /\ UNCHANGED <<kernel, alive, execing, cur, calls, misused>>

(* An entry whose block realloc has moved, or taken away.                    *)
Moved(e, r, k) == IF r # Unmapped THEN [e EXCEPT !.phys = r, !.size = k]
                  ELSE [e EXCEPT !.size = 0]

(* The rest of a system call that has resized entry i: it is mapped again,   *)
(* and if nothing is left of it removed, which frees its block, once more    *)
(* when a realloc has freed it.                                              *)
Resized(s, i, e, c) ==
  LET t == [mem[s] EXCEPT ![i] = e] IN
    /\ Fitting(t)
    /\ frames' = CleanClusters(c, t)
    /\ mem' = [mem EXCEPT ![s] = clean_mem(t)]
    /\ page' = Map(Unmap(page, <<mem[s][i]>>), <<e>>)
    /\ misused' = (OfACall(mem[s][i]) /\ frames' # frames)
    /\ UNCHANGED <<kernel, alive, execing, cur, calls>>

(* do_sys_realloc of an entry to k pages, whoever's memory it is.            *)
SysRealloc(s, i, k) ==
  /\ Running(s) /\ i \in DOMAIN mem[s]
  /\ \E r \in M!Clusters \cup {Unmapped} :
     \E c \in ReallocTables(frames, mem[s][i].phys, k, r) :
       Resized(s, i, Moved(mem[s][i], r, k), c)

(* do_sys_realloc_inplace.                                                   *)
SysReallocInplace(s, i, k) ==
  /\ Running(s) /\ i \in DOMAIN mem[s]
  /\ Resized(s, i, [mem[s][i] EXCEPT !.size = Min({k, AllocSize(frames, mem[s][i].phys)})],
             frames)

(* Mutant: the pages stay mapped.                                            *)
SysUnalloc_Mapped(s, i) ==
  LET t == [mem[s] EXCEPT ![i].size = 0] IN
    /\ Running(s) /\ i \in DOMAIN mem[s]
    /\ frames' = CleanClusters(frames, t)
    /\ mem' = [mem EXCEPT ![s] = clean_mem(t)]
    /\ misused' = (OfACall(mem[s][i]) /\ frames' # frames)
    /\ UNCHANGED <<kernel, alive, execing, cur, page, calls>>

(* do_sys_unalloc.                                                           *)
SysUnalloc(s, i) ==
  /\ Running(s) /\ i \in DOMAIN mem[s]
  /\ Resized(s, i, [mem[s][i] EXCEPT !.size = 0], frames)

(* do_sys_brk: every entry is unmapped, the last one is resized to end at    *)
(* addr where that is allowed, and all are mapped again.                     *)
BrkAllowed(t, addr) ==
  t # <<>> /\ Last(t).writeable /\ Last(t).allocated /\ addr >= Last(t).virt

SysBrk(s, addr) ==
  LET i == Len(mem[s])
      Remapped(t, c) ==
        /\ frames' = CleanClusters(c, t)
        /\ mem' = [mem EXCEPT ![s] = clean_mem(t)]
        /\ page' = Map(Unmap(page, mem[s]), clean_mem(t))
        /\ misused' = (BrkAllowed(mem[s], addr) /\ OfACall(mem[s][i]) /\ frames' # frames)
  IN /\ Running(s)
     /\ \/ ~ BrkAllowed(mem[s], addr) /\ Remapped(mem[s], frames)
        \/ /\ BrkAllowed(mem[s], addr)
           /\ \E r \in M!Clusters \cup {Unmapped} :
              \E c \in ReallocTables(frames, mem[s][i].phys, addr - mem[s][i].virt, r) :
                Remapped([mem[s] EXCEPT ![i] = Moved(@, r, addr - @.virt)], c)
     /\ UNCHANGED <<kernel, alive, execing, cur, calls>>

-----------------------------------------------------------------------------
TableOf(s) == IF s \in Space THEN mem[s] ELSE <<>>

(* context_switch: the user pages of one context for those of another.       *)
SwitchSpace(s) ==
  /\ s \in alive \cup {Kernel} /\ s # cur
  /\ cur' = s
  /\ page' = Map(Unmap(page, TableOf(cur)), TableOf(s))
  /\ UNCHANGED <<frames, mem, kernel, alive, execing, calls, misused>>

(* One more entry, if its block can be allocated; otherwise it is left out.  *)
Load(acc, e) ==
  LET a == FirstFit(acc.frames, e.size) IN
    IF a = Unmapped THEN acc
    ELSE [frames |-> M!Taken(acc.frames, a, e.size),
          table |-> Append(acc.table, [e EXCEPT !.phys = a, !.allocated = TRUE])]

Loaded(t) ==
  LET after[n \in 0..Len(t)] ==
        IF n = 0 THEN [frames |-> frames, table |-> <<>>]
        ELSE Load(after[n - 1], t[n])
  IN  after[Len(t)]

(* context_clone without CLONE_VM: every entry is copied, and the copies are *)
(* the child's, those of memory lent to the parent too.                      *)
CopySpace(s, t) ==
  /\ Running(s) /\ t \notin alive
  /\ frames' = Loaded(mem[s]).frames
  /\ mem' = [mem EXCEPT ![t] = Loaded(mem[s]).table]
  /\ alive' = alive \cup {t}
  /\ UNCHANGED <<kernel, execing, cur, page, calls, misused>>

(* execute: the segments are loaded, then the old table is dropped.          *)
Segments(w) == [i \in DOMAIN w |->
  [phys |-> Unmapped, virt |-> LoadPage + i - 1, size |-> 1, writeable |-> w[i],
   allocated |-> TRUE]]

(* The tables of s have pages lent to others that would be given back: not   *)
(* by a call of its own, which keeps its context from going on.              *)
GivesBackLent(s) == \E t \in alive \ {s} : \E y \in ToSet(mem[t]) :
  ~ y.allocated /\ \E e \in Allocated(ToSet(mem[s])) : y.phys \in M!Block(frames, e.phys)

Calling(s) == \E c \in calls : c.from = s

ExecSpace(s, w, b) ==
  LET new == Loaded(Segments(w)) IN
    /\ Running(s) /\ ~ Calling(s) /\ new.table # <<>> /\ b \notin Arguments
    /\ Len(new.table) + 2 <= MaxEntries
    /\ next_mem(new.table) + b.size + 1 <= MaxPage + 1
    /\ frames' = Dropped(new.frames, ToSet(mem[s]))
    /\ mem' = [mem EXCEPT ![s] = new.table]
    /\ page' = Map(Unmap(page, mem[s]), new.table)
    /\ execing' = execing \cup {<<s, b>>}
    /\ misused' = GivesBackLent(s)
    /\ UNCHANGED <<kernel, alive, cur, calls>>

(* The kexec thread: an argument's box becomes an entry, and a page of heap  *)
(* is added.                                                                 *)
ExecFinish(s, b) ==
  LET arg == [phys |-> b.phys, virt |-> next_mem(mem[s]), size |-> b.size,
              writeable |-> FALSE, allocated |-> TRUE]
      t == Append(mem[s], arg)
      heap == [phys |-> Unmapped, virt |-> next_mem(t), size |-> 1, writeable |-> TRUE,
               allocated |-> TRUE]
      new == Load([frames |-> frames, table |-> t], heap)
  IN /\ <<s, b>> \in execing /\ cur = Kernel
     /\ frames' = new.frames
     /\ mem' = [mem EXCEPT ![s] = new.table]
     /\ kernel' = kernel \ {b}
     /\ execing' = execing \ {<<s, b>>}
     /\ UNCHANGED <<alive, cur, page, calls, misused>>

(* An exited context is removed while another one runs.  Calls to a scheme   *)
(* of its do not find their server any more.                                 *)
DropSpace(s) ==
  /\ s \in alive \ Execing /\ cur # s /\ ~ Calling(s)
  /\ frames' = Dropped(frames, ToSet(mem[s]))
  /\ mem' = [mem EXCEPT ![s] = <<>>]
  /\ alive' = alive \ {s}
  /\ calls' = {c \in calls : c.to # s}
  /\ misused' = GivesBackLent(s)
  /\ UNCHANGED <<kernel, execing, cur, page>>

-----------------------------------------------------------------------------
(* SchemeResource::path, read and write: k pages of a buffer that lies in    *)
(* one entry are added to the server's table, behind all that it has.  (The  *)
(* name given to open, mkdir and the like is lent out of a string of the     *)
(* kernel, which lasts for the call; it is left out.)  When the server       *)
(* answers is the matter of module Schemes.                                  *)
Lend(s, t, v, k) ==
  LET at == Covering(mem[s], v)
      e == [phys |-> PhysAt(mem[s][Min(at)], v), virt |-> next_mem(mem[t]), size |-> k,
            writeable |-> TRUE, allocated |-> FALSE]
  IN /\ Running(s) /\ t \in alive \ {s}
     /\ at # {} /\ v + k - 1 \in PagesOf(mem[s][Min(at)])
     /\ e.virt > 0 /\ Fitting(Append(mem[t], e))
     /\ mem' = [mem EXCEPT ![t] = Append(@, e)]
     /\ \E n \in 1..MaxCalls :
          /\ \A c \in calls : c.id # n
          /\ calls' = calls \cup {[id |-> n, from |-> s, to |-> t, virt |-> e.virt]}
     /\ UNCHANGED <<frames, kernel, alive, execing, cur, page, misused>>

(* The call returns: the server's entry at the address is emptied and        *)
(* cleaned away, whatever it is by now.                                      *)
TakeBack(c) ==
  LET at == {i \in DOMAIN mem[c.to] : mem[c.to][i].virt = c.virt}
      t == IF at = {} THEN mem[c.to] ELSE [mem[c.to] EXCEPT ![Min(at)].size = 0]
  IN /\ cur = c.from
     /\ frames' = CleanClusters(frames, t)
     /\ mem' = [mem EXCEPT ![c.to] = clean_mem(t)]
     /\ calls' = calls \ {c}
     /\ misused' = (at # {} /\ OfACall(mem[c.to][Min(at)]) /\ frames' # frames)
     /\ UNCHANGED <<kernel, alive, execing, cur, page>>

(* Boxes of the kernel itself.                                               *)
KernelAlloc(k) ==
  LET a == FirstFit(frames, k) IN
    /\ a # Unmapped /\ Cardinality(kernel) < MaxBoxes
    /\ frames' = M!Taken(frames, a, k)
    /\ kernel' = kernel \cup {[phys |-> a, size |-> k]}
    /\ UNCHANGED <<mem, alive, execing, cur, page, calls, misused>>

KernelFree(b) ==
  /\ b \notin Arguments
  /\ frames' = M!Unalloc(frames, b.phys)
  /\ kernel' = kernel \ {b}
  /\ UNCHANGED <<mem, alive, execing, cur, page, calls, misused>>

Flags == {<<TRUE>>, <<FALSE, TRUE>>}   \* writeable or not, per segment

(* Behaviours are followed up to a misuse.                                   *)
SpaceStep ==
  \/ \E s \in Space :
       \/ \E k \in 1..MaxPages : SysAlloc(s, k)
       \/ \E i \in 1..MaxEntries, k \in 0..MaxPages :
            SysRealloc(s, i, k) \/ SysReallocInplace(s, i, k)
       \/ \E i \in 1..MaxEntries : SysUnalloc(s, i)
       \/ \E addr \in VPages : SysBrk(s, addr)
       \/ \E t \in Space : CopySpace(s, t)
       \/ \E w \in Flags, b \in kernel : ExecSpace(s, w, b)
       \/ \E b \in kernel : ExecFinish(s, b)
       \/ DropSpace(s)
       \/ \E t \in Space, v \in VPages, k \in 1..MaxPages : Lend(s, t, v, k)
  \/ \E c \in calls : TakeBack(c)
  \/ \E s \in Space \cup {Kernel} : SwitchSpace(s)
  \/ KernelAlloc(1)
  \/ \E b \in kernel : KernelFree(b)

SpaceNext == ~ misused /\ SpaceStep

SpaceSpec == SpaceInit /\ [][SpaceNext]_spaceVars
-----------------------------------------------------------------------------
(* Every allocated entry and every box has a block to itself, of its size at *)
(* least, whatever fails on the way: no program, and not the kernel, owns    *)
(* the memory of another.                                                    *)
Owners == {x \in alive \X (1..MaxEntries + 2) :
             x[2] \in DOMAIN mem[x[1]] /\ mem[x[1]][x[2]].allocated}
OwnedOnce ==
  /\ M!BlocksWhole
  /\ \A x, y \in Owners :
       x # y => mem[x[1]][x[2]].phys # mem[y[1]][y[2]].phys
  /\ \A e \in Allocated(Entries), b \in kernel : e.phys # b.phys

(* Memory lent to a server lies in a block that a program owns: it is not    *)
(* given to anybody else while the server has it.                            *)
LentInUse == \A e \in Lent : \E x \in Allocated(Entries) :
  \A p \in e.phys..(e.phys + e.size - 1) : p \in M!Clusters /\ frames[p] = x.phys

(* Dropping entries, clean_mem, failed reallocs and exits leave no block     *)
(* behind.                                                                   *)
NoBlockLeaks == M!NothingLeaks /\ M!BlocksAreRuns

(* What the processor maps for the current program is memory of its own or   *)
(* lent to it, not a page freed or moved away.                               *)
NoStaleMapping == \A v \in VPages : page[v] # Unmapped =>
  /\ page[v] \in M!Clusters /\ frames[page[v]] >= 0
  /\ \E e \in ToSet(TableOf(cur)) : frames[page[v]] = frames[e.phys]

(* The four together: memory is safe from one program to another, and        *)
(* nothing of it is lost, through alloc, realloc, brk, clone, execve, exit   *)
(* and calls to schemes, also where they fail, as long as no program resizes *)
(* memory that is lent.                                                      *)
SpacesSound == misused \/ (OwnedOnce /\ LentInUse /\ NoBlockLeaks /\ NoStaleMapping)

(* Context::translate: "Translate to physical if a ptr is inside of the      *)
(* mapped memory".  It answers from the first entry that covers the address. *)
TranslateMatchesMap == cur \in alive => \A v \in VPages :
  Covering(mem[cur], v) # {} =>
    page[v] = PhysAt(mem[cur][Min(Covering(mem[cur], v))], v)
=============================================================================
