------------------------------ MODULE Process ------------------------------
(***************************************************************************)
(* Command and Child of libstd/src/process.rs: the descriptors that a      *)
(* program prepares for a child, what the child does with its copy of the  *)
(* table between clone and execve, and what the parent closes afterwards.  *)
(* The parent waits in clone (CLONE_VFORK), so a spawn is one step.        *)
(***************************************************************************)
EXTENDS Integers, Sequences, FiniteSetsExt

CONSTANTS MaxFd,      \* descriptors of a table
          MaxKids,    \* spawns that succeed
          MaxSets,    \* streams redirected, over all commands
          MaxAside,   \* Commands half made while another one is worked on
          Codes       \* exit statuses

ASSUME ProcessAssumption ==
  MaxFd \in Nat /\ MaxFd >= 3 /\ MaxKids \in Nat /\ MaxSets \in Nat /\ MaxAside \in Nat
  /\ Codes \subseteq Nat

VARIABLES fds,        \* the parent's table
          cmd,        \* the Command the program works on, its three Stdio
          aside,      \* the Commands it has put aside
          sets,       \* history: streams redirected so far
          kids        \* the children, with the Child the parent holds of each

processVars == <<fds, cmd, aside, sets, kids>>

Closed == <<"closed", 0>>
Terminal == <<"tty", 0>>
File == <<"file", 0>>
End(side, p) == <<side, p>>
Streams == {"stdin", "stdout", "stderr"}
Number == [stdin |-> 0, stdout |-> 1, stderr |-> 2]

(* Command::new: a Stdio is Inherit, Null, Raw with a descriptor or Piped    *)
(* with two.                                                                 *)
NewCommand == [s \in Streams |-> [kind |-> "Inherit"]]

ProcessInit ==
  /\ fds = [d \in 0..MaxFd - 1 |-> IF d <= 2 THEN Terminal ELSE Closed]
  /\ cmd = NewCommand /\ aside = [i \in 1..MaxAside |-> NewCommand] /\ sets = 0 /\ kids = << >>

-----------------------------------------------------------------------------
(* The calls on a table t; a failed one leaves ok FALSE, and those after it  *)
(* are not made (try!).                                                      *)
Free(t) == {d \in DOMAIN t : t[d] = Closed}
next_fd(t) == Min(Free(t))

sys_close(s, d) == IF s.ok /\ s.t[d] # Closed THEN [s EXCEPT !.t[d] = Closed] ELSE [s EXCEPT !.ok = FALSE]
sys_dup(s, d) == IF s.ok /\ s.t[d] # Closed THEN [s EXCEPT !.t[next_fd(s.t)] = s.t[d]] ELSE [s EXCEPT !.ok = FALSE]

(* The end of its pipe that stays with the child, and the parent's.          *)
Mine(c, s) == IF s = "stdin" THEN c.read ELSE c.write
Theirs(c, s) == IF s = "stdin" THEN c.write ELSE c.read

(* What the child does for one stream: dup gives the number just closed, if  *)
(* no lower one is free.                                                     *)
Redirect(s, st) ==
  LET c == cmd[st]
      n == Number[st]
      Take(x, d) == sys_close(sys_dup(sys_close(x, n), d), d)
  IN CASE c.kind = "Piped" -> Take(sys_close(s, Theirs(c, st)), Mine(c, st))
       [] c.kind = "Raw" -> Take(s, c.fd)
       [] c.kind = "Null" -> sys_close(s, n)
       [] OTHER -> s

(* Mutant: the streams in their order.                                       *)
child_code_Upwards(s) == Redirect(Redirect(Redirect(s, "stdin"), "stdout"), "stderr")

child_code(s) == Redirect(Redirect(Redirect(s, "stderr"), "stdout"), "stdin")

(* What the parent closes of one stream once the child's program runs.       *)
Release(s, st) ==
  LET c == cmd[st]
  IN CASE c.kind = "Piped" -> sys_close(s, Mine(c, st))
       [] c.kind = "Raw" -> sys_close(s, c.fd)
       [] OTHER -> s

parent_code(s) == Release(Release(Release(s, "stdin"), "stdout"), "stderr")

(* The descriptors of a Child.                                               *)
ChildEnds == [s \in Streams |-> IF cmd[s].kind = "Piped" THEN Theirs(cmd[s], s) ELSE -1]

(* The child reports a failed call through *child_res and exits; the parent  *)
(* then returns the error and leaves the pipes as they are.                  *)
spawn ==
  \E found \in BOOLEAN :
    LET child == child_code([ok |-> TRUE, t |-> fds])
        mine == parent_code([ok |-> TRUE, t |-> fds])
    IN /\ Len(kids) < MaxKids
       /\ IF child.ok /\ found
          THEN /\ fds' = mine.t
               /\ kids' = Append(kids, [t |-> child.t, asked |-> cmd, from |-> fds, ends |-> ChildEnds,
                                        told |-> mine.ok, status |-> -1, got |-> -1])
          ELSE UNCHANGED <<fds, kids>>
       /\ cmd' = NewCommand
       /\ UNCHANGED <<aside, sets>>

-----------------------------------------------------------------------------
Given(s, c) == /\ cmd[s].kind = "Inherit" /\ sets < MaxSets
               /\ cmd' = [cmd EXCEPT ![s] = c] /\ sets' = sets + 1 /\ UNCHANGED aside

(* The program turns to a Command it had put aside, as a shell does that     *)
(* prepares both sides of a pipeline before it spawns one.                   *)
Turn(i) == /\ cmd' = aside[i] /\ aside' = [aside EXCEPT ![i] = cmd]
           /\ UNCHANGED <<fds, sets, kids>>

(* Stdio::piped: sys_pipe2 takes the lowest number for the reading end, then *)
(* the next one for the writing end.                                         *)
piped(s) ==
  LET r == next_fd(fds)
      t == [fds EXCEPT ![r] = End("r", sets + 1)]
      w == next_fd(t)
  IN /\ Cardinality(Free(fds)) >= 2
     /\ Given(s, [kind |-> "Piped", read |-> r, write |-> w])
     /\ fds' = [t EXCEPT ![w] = End("w", sets + 1)]
     /\ UNCHANGED kids

null(s) == Given(s, [kind |-> "Null"]) /\ UNCHANGED <<fds, kids>>

(* A descriptor of the program's own, given away with from_raw_fd.           *)
from_raw_fd(s) ==
  /\ Free(fds) # {}
  /\ Given(s, [kind |-> "Raw", fd |-> next_fd(fds)])
  /\ fds' = [fds EXCEPT ![next_fd(fds)] = File]
  /\ UNCHANGED kids

(* The program drops a ChildStdin, ChildStdout or ChildStderr.               *)
DropEnd(k, s) ==
  /\ kids[k].ends[s] # -1
  /\ fds' = [fds EXCEPT ![kids[k].ends[s]] = Closed]
  /\ kids' = [kids EXCEPT ![k].ends[s] = -1]
  /\ UNCHANGED <<cmd, aside, sets>>

(* The child ends and its table with it.                                     *)
exit(k, code) ==
  /\ kids[k].status = -1
  /\ kids' = [kids EXCEPT ![k].status = code, ![k].t = [d \in DOMAIN fds |-> Closed]]
  /\ UNCHANGED <<fds, cmd, aside, sets>>

(* Child::wait.                                                              *)
wait(k) ==
  /\ kids[k].status # -1 /\ kids[k].got = -1
  /\ kids' = [kids EXCEPT ![k].got = kids[k].status]
  /\ UNCHANGED <<fds, cmd, aside, sets>>

ProcessNext == \/ spawn
               \/ \E i \in 1..MaxAside : Turn(i)
               \/ \E s \in Streams : piped(s) \/ null(s) \/ from_raw_fd(s)
               \/ \E k \in DOMAIN kids : \/ \E s \in Streams : DropEnd(k, s)
                                         \/ \E c \in Codes : exit(k, c)
                                         \/ wait(k)

ProcessSpec == ProcessInit /\ [][ProcessNext]_processVars

-----------------------------------------------------------------------------
Wanted(k, s) ==
  LET c == k.asked[s]
  IN CASE c.kind = "Piped" -> k.from[Mine(c, s)]
       [] c.kind = "Raw" -> k.from[c.fd]
       [] c.kind = "Null" -> Closed
       [] OTHER -> k.from[Number[s]]

(* Until it ends, a child has at 0, 1 and 2 what its Command asked for and   *)
(* the spawn was told to have worked. Of a pipe made for it, its own end is  *)
(* open once in it, not in the program and in no child spawned later; the    *)
(* program's end is not open in it, and in the program only where the Child  *)
(* says. Other children have an end only if it was in the program's table    *)
(* when they were spawned: one spawned while this Command was half made      *)
(* keeps both ends open, and one spawned later the program's end, so that    *)
(* a stream may not end when its owner closes it (spawn, process.rs).        *)
ChildStreams ==
  \A k \in DOMAIN kids : kids[k].status = -1 =>
    /\ kids[k].told
    /\ \A s \in Streams :
         /\ kids[k].t[Number[s]] = Wanted(kids[k], s)
         /\ kids[k].asked[s].kind = "Piped" =>
              LET c == kids[k].asked[s]
                  mine == kids[k].from[Mine(c, s)]
                  theirs == kids[k].from[Theirs(c, s)]
              IN /\ \A d \in DOMAIN fds : /\ fds[d] # mine
                                          /\ kids[k].t[d] = mine => d = Number[s]
                                          /\ kids[k].t[d] # theirs
                                          /\ fds[d] = theirs => d = kids[k].ends[s]
                 /\ \A j \in DOMAIN kids, d \in DOMAIN fds :
                      /\ kids[j].t[d] = mine => j <= k
                      /\ kids[j].t[d] \in {mine, theirs} => \E e \in DOMAIN fds : kids[j].from[e] = kids[j].t[d]
=============================================================================
