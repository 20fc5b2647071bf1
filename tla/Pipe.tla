-------------------------------- MODULE Pipe --------------------------------
(***************************************************************************)
(* One pipe (kernel/schemes/pipe.rs) over a WaitQueue                      *)
(* (kernel/sync/wait_queue.rs, wait_condition.rs), used by contexts that   *)
(* inherit its ends through clone, duplicate and close them and exit.      *)
(*                                                                         *)
(* Kernel code runs without interruption up to context_switch (module      *)
(* Contexts), so that a system call is one step, and a read that waits is  *)
(* one step for each turn of the loop of WaitQueue::receive.               *)
(***************************************************************************)
EXTENDS Integers, Sequences, FiniteSets

CONSTANTS Proc,     \* addresses of contexts
          Root,     \* the context that calls pipe2
          Byte,     \* the values of a byte
          MaxFds,   \* bound on the descriptors of one kind of a context
          MaxSent,  \* bound on the bytes written
          MaxLen    \* bound on the length of a buffer

ASSUME RootAssumption == Root \in Proc
ASSUME PipeBounds == MaxFds \in Nat \ {0} /\ MaxSent \in Nat /\ MaxLen \in Nat

VARIABLES
  rd,       \* per context, its PipeRead descriptors (each an Arc)
  wr,       \* per context, its PipeWrite descriptors (each a Weak)
  queue,    \* WaitQueue.inner
  waiters,  \* WaitQueue.condition.contexts
  blocked,  \* Context.blocked
  pc,       \* "none", "user", "read" in WaitQueue::receive, "exit"
  want,     \* buf.len() of the read a context is in
  sent,     \* history: the bytes written
  got,      \* history: the bytes returned by reads
  result,   \* history: buf.len() and result of the last read
  eof,      \* history: some read has returned 0 for a non-empty buffer
  epipe     \* history: some write has failed with EPIPE

ends == <<rd, wr>>
history == <<sent, got, result, eof, epipe>>
pipeVars == <<rd, wr, queue, waiters, blocked, pc, want, sent, got, result, eof,
              epipe>>

Readers == {p \in Proc : rd[p] > 0}
Writers == {p \in Proc : wr[p] > 0}

PipeTypeOK ==
  /\ rd \in [Proc -> 0..MaxFds] /\ wr \in [Proc -> 0..MaxFds]
  /\ queue \in Seq(Byte) /\ sent \in Seq(Byte) /\ got \in Seq(Byte)
  /\ waiters \in SUBSET Proc /\ blocked \in [Proc -> BOOLEAN]
  /\ pc \in [Proc -> {"none", "user", "read", "exit"}]
  /\ want \in [Proc -> 0..MaxLen]
  /\ result \in [len : 0..MaxLen, n : 0..(MaxLen + 1)]
  /\ eof \in BOOLEAN /\ epipe \in BOOLEAN

(* The state after do_sys_pipe2.                                             *)
PipeInit ==
  /\ rd = [p \in Proc |-> IF p = Root THEN 1 ELSE 0]
  /\ wr = rd
  /\ queue = <<>> /\ waiters = {}
  /\ blocked = [p \in Proc |-> FALSE]
  /\ pc = [p \in Proc |-> IF p = Root THEN "user" ELSE "none"]
  /\ want = [p \in Proc |-> 0]
  /\ sent = <<>> /\ got = <<>>
  /\ result = [len |-> 0, n |-> 0]
  /\ eof = FALSE /\ epipe = FALSE

-----------------------------------------------------------------------------
(* context_clone: every file of the parent is duplicated.                    *)
CloneFiles(p, c) ==
  /\ pc[p] = "user" /\ pc[c] = "none"
  /\ rd' = [rd EXCEPT ![c] = rd[p]]
  /\ wr' = [wr EXCEPT ![c] = wr[p]]
  /\ pc' = [pc EXCEPT ![c] = "user"]
  /\ UNCHANGED <<queue, waiters, blocked, want, history>>

(* do_sys_dup of one of the ends.                                            *)
DupRead(p) ==
  /\ pc[p] = "user" /\ rd[p] \in 1..(MaxFds - 1)
  /\ rd' = [rd EXCEPT ![p] = @ + 1]
  /\ UNCHANGED <<wr, queue, waiters, blocked, pc, want, history>>

DupWrite(p) ==
  /\ pc[p] = "user" /\ wr[p] \in 1..(MaxFds - 1)
  /\ wr' = [wr EXCEPT ![p] = @ + 1]
  /\ UNCHANGED <<rd, queue, waiters, blocked, pc, want, history>>

(* The Arc<WaitQueue> is dropped with the last PipeRead: the bytes are gone, *)
(* and Drop for WaitCondition notifies.                                      *)
DropQueue ==
  LET last == \A p \in Proc : rd'[p] = 0 IN
    /\ queue' = IF last THEN <<>> ELSE queue
    /\ waiters' = IF last THEN {} ELSE waiters
    /\ blocked' = [p \in Proc |-> blocked[p] /\ ~ (last /\ p \in waiters)]

(* do_sys_close of one of the ends.                                          *)
CloseRead(p) ==
  /\ pc[p] = "user" /\ rd[p] > 0
  /\ rd' = [rd EXCEPT ![p] = @ - 1]
  /\ DropQueue
  /\ UNCHANGED <<wr, pc, want, history>>

CloseWrite(p) ==
  /\ pc[p] = "user" /\ wr[p] > 0
  /\ wr' = [wr EXCEPT ![p] = @ - 1]
  /\ UNCHANGED <<rd, queue, waiters, blocked, pc, want, history>>

(* do_sys_exit; the files are dropped when the context is reaped.            *)
ExitProc(p) ==
  /\ pc[p] = "user"
  /\ pc' = [pc EXCEPT ![p] = "exit"]
  /\ UNCHANGED <<ends, queue, waiters, blocked, want, history>>

Reap(p) ==
  /\ pc[p] = "exit"
  /\ pc' = [pc EXCEPT ![p] = "none"]
  /\ rd' = [rd EXCEPT ![p] = 0] /\ wr' = [wr EXCEPT ![p] = 0]
  /\ DropQueue
  /\ UNCHANGED <<want, history>>

-----------------------------------------------------------------------------
(* Mutant: a byte is popped to test for the end of the queue and forgotten.  *)
Take_Skips(p, n) ==
  LET k == IF n < Len(queue) THEN n ELSE Len(queue) IN
    /\ queue' = SubSeq(queue, k + 2, Len(queue))
    /\ got' = got \o SubSeq(queue, 1, k)
    /\ result' = [len |-> n, n |-> k]
    /\ pc' = [pc EXCEPT ![p] = "user"]
    /\ want' = [want EXCEPT ![p] = 0]
    /\ UNCHANGED <<waiters, blocked>>

(* The end of a read: the first byte comes from receive, and more are taken  *)
(* while there are any and the buffer has room.                              *)
Take(p, n) ==
  LET k == IF n < Len(queue) THEN n ELSE Len(queue) IN
    /\ queue' = SubSeq(queue, k + 1, Len(queue))
    /\ got' = got \o SubSeq(queue, 1, k)
    /\ result' = [len |-> n, n |-> k]
    /\ pc' = [pc EXCEPT ![p] = "user"]
    /\ want' = [want EXCEPT ![p] = 0]
    /\ UNCHANGED <<waiters, blocked>>

(* WaitCondition::wait.                                                      *)
Enqueue(p, n) ==
  /\ waiters' = waiters \cup {p}
  /\ blocked' = [blocked EXCEPT ![p] = TRUE]
  /\ pc' = [pc EXCEPT ![p] = "read"]
  /\ want' = [want EXCEPT ![p] = n]
  /\ UNCHANGED <<queue, got, result>>

Receive(p, n) ==
  \/ queue # <<>> /\ Take(p, n)
  \/ queue = <<>> /\ Enqueue(p, n)

(* Mutant: the end is reported when the writers are gone, bytes or not.      *)
ReadEof_Early(p, n) ==
  /\ pc[p] = "user" /\ rd[p] > 0 /\ Writers = {}
  /\ result' = [len |-> n, n |-> 0]
  /\ eof' = (eof \/ n > 0)
  /\ UNCHANGED <<ends, queue, waiters, blocked, pc, want, sent, got, epipe>>

(* PipeRead::read: the end of the stream ...                                 *)
ReadEof(p, n) ==
  /\ pc[p] = "user" /\ rd[p] > 0
  /\ Writers = {} /\ queue = <<>>
  /\ result' = [len |-> n, n |-> 0]
  /\ eof' = (eof \/ n > 0)
  /\ UNCHANGED <<ends, queue, waiters, blocked, pc, want, sent, got, epipe>>

(* ... a buffer without room, for which i starts at 1 all the same ...       *)
ReadEmpty(p) ==
  /\ pc[p] = "user" /\ rd[p] > 0
  /\ ~ (Writers = {} /\ queue = <<>>)
  /\ result' = [len |-> 0, n |-> 1]
  /\ UNCHANGED <<ends, queue, waiters, blocked, pc, want, sent, got, eof, epipe>>

(* ... and bytes, now or later.                                              *)
Read(p, n) ==
  /\ pc[p] = "user" /\ rd[p] > 0 /\ n > 0
  /\ ~ (Writers = {} /\ queue = <<>>)
  /\ Receive(p, n)
  /\ UNCHANGED <<ends, sent, eof, epipe>>

ReadRetry(p) ==
  /\ pc[p] = "read" /\ ~ blocked[p]
  /\ Receive(p, want[p])
  /\ UNCHANGED <<ends, sent, eof, epipe>>

(* Mutant: bytes are queued without notify.                                  *)
Write_Silent(p, s) ==
  /\ pc[p] = "user" /\ wr[p] > 0 /\ Readers # {}
  /\ Len(sent) + Len(s) <= MaxSent
  /\ queue' = queue \o s /\ sent' = sent \o s
  /\ UNCHANGED <<ends, waiters, blocked, pc, want, got, result, eof, epipe>>

(* PipeWrite::write: the Weak can be upgraded while a read end exists.       *)
Write(p, s) ==
  /\ pc[p] = "user" /\ wr[p] > 0 /\ Readers # {}
  /\ Len(sent) + Len(s) <= MaxSent
  /\ queue' = queue \o s /\ sent' = sent \o s
  /\ waiters' = IF s = <<>> THEN waiters ELSE {}
  /\ blocked' = [q \in Proc |-> blocked[q] /\ (s = <<>> \/ q \notin waiters)]
  /\ UNCHANGED <<ends, pc, want, got, result, eof, epipe>>

WriteBroken(p) ==
  /\ pc[p] = "user" /\ wr[p] > 0 /\ Readers = {}
  /\ epipe' = TRUE
  /\ UNCHANGED <<ends, queue, waiters, blocked, pc, want, sent, got, result, eof>>

Buffers == UNION {[1..n -> Byte] : n \in 0..MaxLen}

PipeNext ==
  \E p \in Proc :
    \/ \E c \in Proc : CloneFiles(p, c)
    \/ DupRead(p) \/ DupWrite(p) \/ CloseRead(p) \/ CloseWrite(p)
    \/ ExitProc(p) \/ Reap(p)
    \/ \E n \in 0..MaxLen : ReadEof(p, n) \/ Read(p, n)
    \/ ReadEmpty(p) \/ ReadRetry(p)
    \/ \E s \in Buffers : Write(p, s)
    \/ WriteBroken(p)

PipeSpec == PipeInit /\ [][PipeNext]_pipeVars

-----------------------------------------------------------------------------
(* Nothing is lost, duplicated or reordered between the writers and the      *)
(* readers, however many of them share the pipe, as long as somebody can     *)
(* read.                                                                     *)
InOrder == Readers # {} => sent = got \o queue

(* No lost wake-up: nobody sleeps in read while there are bytes, and whoever *)
(* sleeps is in the list that the next write notifies.                       *)
NoSleepWithData == \A p \in Proc :
  blocked[p] => pc[p] = "read" /\ p \in waiters /\ queue = <<>>

(* The end is the end: after a read has reported the end of the stream no    *)
(* byte can come any more, and after a write has failed with EPIPE nobody    *)
(* can read any more, whatever is cloned or duplicated.                      *)
EndIsFinal ==
  /\ eof => Writers = {} /\ queue = <<>>
  /\ epipe => Readers = {}

(* The Arc of a queue that a context sleeps in is not dropped under it.      *)
ReaderKeepsQueue == \A p \in Proc : pc[p] = "read" => rd[p] > 0

(* The pipe implements the stream of bytes.                                  *)
Stream == INSTANCE ByteStream
  WITH inflight <- queue, delivered <- got,
       writable <- Writers # {}, readable <- Readers # {}
ImplementsStream == Stream!StreamSpec
=============================================================================
