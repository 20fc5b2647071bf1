------------------------------ MODULE Schemes -------------------------------
(***************************************************************************)
(* Schemes served by programs (kernel/fs/scheme.rs, kernel/env/mod.rs): a  *)
(* server opens ":name", reads packets from it and writes answers to it; a *)
(* client's system call becomes a packet, with the client's memory lent to *)
(* the server for as long as the call lasts.                               *)
(*                                                                         *)
(* Kernel code runs without preemption: an action ends where the code      *)
(* waits.  Servers are programs: they answer a packet at most once, in any *)
(* order, and may close at any time.                                       *)
(***************************************************************************)
EXTENDS Integers, Sequences, FiniteSets

CONSTANTS Client, Server,
          Inst,      \* objects SchemeInner
          Name,      \* names of schemes
          Absent,
          Base,      \* pages of a server's own memory
          Sizes,     \* pages of the buffers that clients pass
          MaxFds,    \* bound on the descriptors of one scheme
          MaxCalls   \* bound on the calls to one scheme, below usize::MAX

ASSUME SchemesAssumption ==
  /\ MaxFds \in Nat /\ MaxCalls \in Nat /\ Base \in Nat \ {0} /\ Sizes \subseteq Nat
  /\ IsFiniteSet(Client) /\ Absent \notin Name \cup Inst

VARIABLES list,     \* Environment.schemes, in no order: names are unique
          name,     \* per scheme, its name, or Absent before it is made
          server,   \* per scheme, the context that made it
          fds,      \* per scheme, the SchemeServerResources that own it
          next_id,  \* per scheme
          todo,     \* per scheme, packets for the server
          done,     \* per scheme, answers for the clients
          taken,    \* per scheme, packets that the server has to answer
          lent,     \* per server, the entries lent to its table
          emptied,  \* history: servers that an empty buffer was lent to
          stage,       \* per client, "idle" or "wait"
          call,     \* per client, the locals of the call
          files     \* per client, the schemes it has a SchemeResource of

schemeVars == <<list, name, server, fds, next_id, todo, done, taken, lent, emptied, stage, call, files>>
queues == <<next_id, todo, done, taken>>

NoCall == [inst |-> Absent, id |-> 0, virt |-> 0, op |-> "none"]

SchemesInit ==
  /\ list = {} /\ name = [i \in Inst |-> Absent] /\ server = [i \in Inst |-> Absent]
  /\ fds = [i \in Inst |-> 0] /\ next_id = [i \in Inst |-> 1]
  /\ todo = [i \in Inst |-> <<>>] /\ done = [i \in Inst |-> {}]
  /\ taken = [i \in Inst |-> {}] /\ lent = [s \in Server |-> {}] /\ emptied = {}
  /\ stage = [c \in Client |-> "idle"] /\ call = [c \in Client |-> NoCall]
  /\ files = [c \in Client |-> {}]

-----------------------------------------------------------------------------
(* The Arc: the server's resources and the calls under way.                  *)
Calling(i) == {c \in Client : stage[c] = "wait" /\ call[c].inst = i}
Strong(i) == fds[i] + Cardinality(Calling(i))

(* Drop for SchemeInner, by name.                                            *)
Dropped(i) == {j \in list : name[j] # name[i]}

(* One of the owners of i is gone.                                           *)
Release(i) == list' = IF Strong(i) = 1 THEN Dropped(i) ELSE list

(* Context::next_mem of the server: the end of its memory.                   *)
Ends(t) == {Base} \cup {e.virt + e.size : e \in t}
next_mem(t) == {v \in Ends(t) : \A x \in Ends(t) : x <= v}

(* An entry for the client's memory in the server's table, at v.             *)
Lend(i, c, size, v) ==
  /\ v \in next_mem(lent[server[i]])
  /\ lent' = [lent EXCEPT ![server[i]] =
                @ \cup {[virt |-> v, size |-> size, client |-> c, inst |-> i]}]
  /\ emptied' = IF size = 0 THEN emptied \cup {server[i]} ELSE emptied

(* Mutant: the number is taken, but not counted on.                          *)
Send_SameId(c, i, op, v) ==
  /\ todo' = [todo EXCEPT ![i] = Append(@, [id |-> next_id[i], from |-> c])]
  /\ stage' = [stage EXCEPT ![c] = "wait"]
  /\ call' = [call EXCEPT ![c] = [inst |-> i, id |-> next_id[i], virt |-> v, op |-> op]]
  /\ UNCHANGED <<next_id, done, taken>>

(* SchemeInner::call up to the wait.                                         *)
Send(c, i, op, v) ==
  /\ next_id' = [next_id EXCEPT ![i] = @ + 1]
  /\ todo' = [todo EXCEPT ![i] = Append(@, [id |-> next_id[i], from |-> c])]
  /\ stage' = [stage EXCEPT ![c] = "wait"]
  /\ call' = [call EXCEPT ![c] = [inst |-> i, id |-> next_id[i], virt |-> v, op |-> op]]
  /\ UNCHANGED <<done, taken>>

CanCall(c, i) == stage[c] = "idle" /\ Strong(i) > 0 /\ next_id[i] <= MaxCalls

-----------------------------------------------------------------------------
(* open of ":name" with O_CREAT.                                             *)
Register(s, i, n) ==
  /\ name[i] = Absent
  /\ \A j \in list : name[j] # n
  /\ list' = list \cup {i}
  /\ name' = [name EXCEPT ![i] = n] /\ server' = [server EXCEPT ![i] = s]
  /\ fds' = [fds EXCEPT ![i] = 1]
  /\ UNCHANGED <<queues, lent, emptied, stage, call, files>>

(* SchemeServerResource::dup.                                                *)
DupServer(i) ==
  /\ fds[i] \in 1..(MaxFds - 1)
  /\ fds' = [fds EXCEPT ![i] = @ + 1]
  /\ UNCHANGED <<list, name, server, queues, lent, emptied, stage, call, files>>

CloseServer(i) ==
  /\ fds[i] > 0
  /\ fds' = [fds EXCEPT ![i] = @ - 1]
  /\ Release(i)
  /\ UNCHANGED <<name, server, queues, lent, emptied, stage, call, files>>

(* SchemeServerResource::read of up to k packets.                            *)
ServerRead(i, k) ==
  /\ fds[i] > 0 /\ k \in 1..Len(todo[i])
  /\ taken' = [taken EXCEPT ![i] = @ \cup {todo[i][j] : j \in 1..k}]
  /\ todo' = [todo EXCEPT ![i] = SubSeq(@, k + 1, Len(@))]
  /\ UNCHANGED <<list, name, server, fds, next_id, done, lent, emptied, stage, call, files>>

(* SchemeServerResource::write of an answer.                                 *)
ServerAnswer(i, p, ok) ==
  /\ fds[i] > 0 /\ p \in taken[i]
  /\ taken' = [taken EXCEPT ![i] = @ \ {p}]
  /\ done' = [done EXCEPT ![i] = {a \in @ : a.id # p.id} \cup
                {[id |-> p.id, to |-> p.from, ok |-> ok]}]
  /\ UNCHANGED <<list, name, server, fds, next_id, todo, lent, emptied, stage, call, files>>

-----------------------------------------------------------------------------
(* open, mkdir, rmdir or unlink of a path in scheme n: the first scheme of   *)
(* that name is called, with the path lent.                                  *)
CallPath(c, i, n, op, v) ==
  /\ i \in list /\ name[i] = n /\ CanCall(c, i)
  /\ Lend(i, c, 1, v)
  /\ Send(c, i, op, v)
  /\ UNCHANGED <<list, name, server, fds, files>>

(* read, write or path of a SchemeResource: the buffer is lent.  Without a   *)
(* server the answer is EBADF, and nothing changes.                          *)
CallBuffer(c, i, size, v) ==
  /\ i \in files[c] /\ CanCall(c, i)
  /\ Lend(i, c, size, v)
  /\ Send(c, i, "buffer", v)
  /\ UNCHANGED <<list, name, server, fds, files>>

(* seek, sync and truncate.                                                  *)
CallPlain(c, i) ==
  /\ i \in files[c] /\ CanCall(c, i)
  /\ Send(c, i, "plain", 0)
  /\ UNCHANGED <<list, name, server, fds, lent, emptied, files>>

(* Drop for SchemeResource: the server is told, if there is one.             *)
CloseFile(c, i) ==
  /\ i \in files[c] /\ stage[c] = "idle"
  /\ files' = [files EXCEPT ![c] = @ \ {i}]
  /\ \/ CanCall(c, i) /\ Send(c, i, "close", 0)
     \/ Strong(i) = 0 /\ UNCHANGED <<queues, stage, call>>
  /\ UNCHANGED <<list, name, server, fds, lent, emptied>>

Lending == {"open", "path", "buffer"}   \* operations that lend memory

(* get_mem_mut and clean_mem: the first entry at the address goes, and every *)
(* empty one.  An entry begins where the ones before it end, so the first of *)
(* several at one address is empty, and the last stays if it is not.         *)
TakeBack(t, v) ==
  {e \in t : e.size > 0 /\ (e.virt = v => \E f \in t : f.virt = v /\ f.size = 0)}

(* Once the answer is there: the call ends and drops its Arc, the entry is   *)
(* taken back if the scheme has another owner, and an open yields a          *)
(* SchemeResource.                                                           *)
Return(c) ==
  LET i == call[c].inst IN
    /\ stage[c] = "wait"
    /\ \E a \in done[i] :
         /\ a.id = call[c].id
         /\ done' = [done EXCEPT ![i] = @ \ {a}]
         /\ files' = IF call[c].op = "open" /\ a.ok
                     THEN [files EXCEPT ![c] = @ \cup {i}] ELSE files
         /\ lent' = IF call[c].op \in Lending /\ Strong(i) > 1
                    THEN [lent EXCEPT ![server[i]] = TakeBack(@, call[c].virt)] ELSE lent
    /\ Release(i)
    /\ stage' = [stage EXCEPT ![c] = "idle"] /\ call' = [call EXCEPT ![c] = NoCall]
    /\ UNCHANGED <<name, server, fds, next_id, todo, taken, emptied>>

Serving(i) == (\E k \in 1..MaxCalls : ServerRead(i, k))
              \/ \E p \in taken[i], ok \in BOOLEAN : ServerAnswer(i, p, ok)

SchemesNext ==
  \/ \E i \in Inst :
       \/ \E s \in Server, n \in Name : Register(s, i, n)
       \/ DupServer(i) \/ CloseServer(i) \/ Serving(i)
  \/ \E c \in Client :
       \/ \E i \in Inst :
            \/ CallPlain(c, i) \/ CloseFile(c, i)
            \/ name[i] # Absent /\ \E v \in next_mem(lent[server[i]]) :
                 \/ \E n \in Name, op \in {"open", "path"} : CallPath(c, i, n, op, v)
                 \/ \E k \in Sizes : CallBuffer(c, i, k, v)
       \/ Return(c)

SchemesSpec == SchemesInit /\ [][SchemesNext]_schemeVars

(* Servers go on reading and answering, and clients that were answered run.  *)
FairSchemesSpec ==
  /\ SchemesSpec
  /\ \A i \in Inst : WF_schemeVars(Serving(i))
  /\ \A c \in Client : WF_schemeVars(Return(c))
-----------------------------------------------------------------------------
(* A client gets the answer to its own packet, whatever order the server     *)
(* answers in: no two calls under way have one number.                       *)
OwnAnswer ==
  /\ \A c \in Client : stage[c] = "wait" =>
       \A a \in done[call[c].inst] : a.id = call[c].id => a.to = c
  /\ \A c, d \in Client : c # d /\ stage[c] = "wait" /\ stage[d] = "wait"
                           /\ call[c].inst = call[d].inst => call[c].id # call[d].id

(* A scheme is in the list exactly as long as somebody owns it, and no name  *)
(* is there twice: Drop for SchemeInner, which goes by the name, takes away  *)
(* its own scheme and no other.                                              *)
ListedWhileAlive ==
  /\ \A i \in Inst : i \in list <=> Strong(i) > 0
  /\ \A j, k \in list : name[j] = name[k] => j = k

(* Memory is lent during a call: while the server works on it the entry is   *)
(* there, and afterwards it is gone, unless the server closed the scheme     *)
(* before the client ran again: then nobody takes it back.  This is so until *)
(* a client passes an empty buffer that begins a page: two entries then have *)
(* one address, and get_mem_mut may take back the wrong one.                 *)
Clean == Server \ emptied
InCall(c) == stage[c] = "wait" /\ call[c].op \in Lending
LentDuringCall ==
  /\ \A c \in Client : InCall(c) /\ server[call[c].inst] \in Clean =>
       \E e \in lent[server[call[c].inst]] :
          e.client = c /\ e.virt = call[c].virt
  /\ \A s \in Clean : \A e \in lent[s] :
       \/ InCall(e.client) /\ call[e.client].virt = e.virt
       \/ Strong(e.inst) = 0

(* The three together: what the two sides of a scheme rely on while calls    *)
(* are under way, answered in any order, and descriptors come and go.        *)
SchemesSound == OwnAnswer /\ ListedWhileAlive /\ LentDuringCall

(* An answered call returns, and every call is answered or its scheme        *)
(* closed.                                                                   *)
SchemeCallsReturn == \A c \in Client :
  (stage[c] # "idle") ~> (stage[c] = "idle" \/ fds[call[c].inst] = 0)
=============================================================================
