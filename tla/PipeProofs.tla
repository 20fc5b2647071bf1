----------------------------- MODULE PipeProofs -----------------------------
(***************************************************************************)
(* Proofs about Pipe, for every set of contexts, every byte alphabet and   *)
(* every bound: the invariants, and that the pipe implements the stream of *)
(* module ByteStream.                                                      *)
(***************************************************************************)
EXTENDS Pipe, SequenceTheorems, TLAPS

(* With the last read end the bytes are gone.                                *)
QueueDropped == Readers = {} => queue = <<>>

(* An address without a context holds no descriptor.                         *)
NoneHoldsNone == \A p \in Proc : pc[p] = "none" => rd[p] = 0 /\ wr[p] = 0

(* A read that waits has room for a byte.                                    *)
WantRoom == \A p \in Proc : pc[p] = "read" => want[p] > 0

(* Each part needs the others: a write wakes every sleeper because sleepers  *)
(* are in the list, an end reported stays one because nobody else can write, *)
(* and the history matches the queue only while the queue is not dropped.    *)
PInv ==
  /\ PipeTypeOK
  /\ InOrder
  /\ NoSleepWithData
  /\ EndIsFinal
  /\ ReaderKeepsQueue
  /\ QueueDropped
  /\ WantRoom
  /\ NoneHoldsNone

(* A sequence is the concatenation of its first k elements and the others.   *)
LEMMA SplitSeq ==
  ASSUME NEW s \in Seq(Byte), NEW k \in 0..Len(s)
  PROVE  /\ SubSeq(s, 1, k) \in Seq(Byte)
         /\ SubSeq(s, k + 1, Len(s)) \in Seq(Byte)
         /\ SubSeq(s, 1, k) \o SubSeq(s, k + 1, Len(s)) = s
<1>1. Len(s) \in Nat /\ \A i \in 1..Len(s) : s[i] \in Byte
  BY LenProperties, ElementOfSeq
<1>2. SubSeq(s, 1, k) \in Seq(Byte)
  <2>1. \A i \in 1..k : s[i] \in Byte
    BY <1>1
  <2>2. 1 \in Int /\ k \in Int
    BY <1>1
  <2> QED BY <2>1, <2>2, SubSeqProperties, Zenon
<1>3. SubSeq(s, k + 1, Len(s)) \in Seq(Byte)
  <2>1. \A i \in (k + 1)..Len(s) : s[i] \in Byte
    BY <1>1
  <2>2. k + 1 \in Int /\ Len(s) \in Int
    BY <1>1
  <2> QED BY <2>1, <2>2, SubSeqProperties, Zenon
<1>4. SubSeq(s, 1, k) \o SubSeq(s, k + 1, Len(s)) = s
  <2>1. /\ 1 \in 1..(Len(s) + 1) /\ k \in (1 - 1)..Len(s)
        /\ Len(s) \in k..Len(s)
    BY <1>1
  <2>2. SubSeq(s, 1, k) \o SubSeq(s, k + 1, Len(s)) = SubSeq(s, 1, Len(s))
    BY <2>1, ConcatAdjacentSubSeq, Zenon
  <2> QED BY <2>2, SubSeqFull
<1> QED BY <1>2, <1>3, <1>4

(* Concatenation is associative.                                             *)
LEMMA Reassociate ==
  ASSUME NEW a \in Seq(Byte), NEW b \in Seq(Byte), NEW c \in Seq(Byte)
  PROVE  (a \o b) \o c = a \o (b \o c)
BY ConcatAssociative

(* The ends: a state whose read or write ends are all gone has none later,   *)
(* because clone and dup start from an end the caller has.                   *)
LEMMA EndsStayGone ==
  ASSUME PipeTypeOK, PipeNext
  PROVE  /\ Readers = {} => Readers' = {}
         /\ Writers = {} => Writers' = {}
<1> USE DEF Readers, Writers
<1>0. rd \in [Proc -> 0..MaxFds] /\ wr \in [Proc -> 0..MaxFds] /\ MaxFds \in Nat
  BY PipeBounds DEF PipeTypeOK
<1>1. PICK p \in Proc :
        \/ \E c \in Proc : CloneFiles(p, c)
        \/ DupRead(p) \/ DupWrite(p) \/ CloseRead(p) \/ CloseWrite(p)
        \/ ExitProc(p) \/ Reap(p)
        \/ \E n \in 0..MaxLen : ReadEof(p, n) \/ Read(p, n)
        \/ ReadEmpty(p) \/ ReadRetry(p)
        \/ \E s \in Buffers : Write(p, s)
        \/ WriteBroken(p)
  BY DEF PipeNext
<1>2. CASE \E c \in Proc : CloneFiles(p, c)
  BY <1>0, <1>2 DEF CloneFiles
<1>3. CASE DupRead(p)
  BY <1>0, <1>3 DEF DupRead
<1>4. CASE DupWrite(p)
  BY <1>0, <1>4 DEF DupWrite
<1>5. CASE CloseRead(p)
  BY <1>0, <1>5 DEF CloseRead
<1>6. CASE CloseWrite(p)
  BY <1>0, <1>6 DEF CloseWrite
<1>7. CASE Reap(p)
  BY <1>0, <1>7 DEF Reap
<1>8. CASE ExitProc(p) \/ ReadEmpty(p) \/ ReadRetry(p) \/ WriteBroken(p)
           \/ (\E n \in 0..MaxLen : ReadEof(p, n) \/ Read(p, n))
           \/ (\E s \in Buffers : Write(p, s))
  BY <1>8 DEF ExitProc, ReadEmpty, ReadRetry, WriteBroken, ReadEof, Read, Write,
              ends
<1> QED BY <1>1, <1>2, <1>3, <1>4, <1>5, <1>6, <1>7, <1>8

(* What taking bytes does to the queue and the history.                      *)
LEMMA TakeMovesBytes ==
  ASSUME PInv, NEW p \in Proc, NEW n \in 1..MaxLen, queue # <<>>, Take(p, n)
  PROVE  \E k \in 1..Len(queue) :
           /\ k <= n
           /\ got' = got \o SubSeq(queue, 1, k)
           /\ queue' = SubSeq(queue, k + 1, Len(queue))
           /\ queue' \in Seq(Byte) /\ got' \in Seq(Byte)
           /\ got' \o queue' = got \o queue
           /\ result' = [len |-> n, n |-> k]
<1> DEFINE k == IF n < Len(queue) THEN n ELSE Len(queue)
<1>0. queue \in Seq(Byte) /\ got \in Seq(Byte) /\ MaxLen \in Nat
  BY PipeBounds DEF PInv, PipeTypeOK
<1>1. Len(queue) \in Nat /\ Len(queue) # 0
  BY <1>0, EmptySeq, LenProperties
<1>2. k \in 1..Len(queue) /\ k \in 0..Len(queue) /\ k <= n
  BY <1>0, <1>1
<1>3. /\ got' = got \o SubSeq(queue, 1, k)
      /\ queue' = SubSeq(queue, k + 1, Len(queue))
      /\ result' = [len |-> n, n |-> k]
  BY DEF Take
<1> HIDE DEF k
<1>4. /\ SubSeq(queue, 1, k) \in Seq(Byte)
      /\ SubSeq(queue, k + 1, Len(queue)) \in Seq(Byte)
      /\ SubSeq(queue, 1, k) \o SubSeq(queue, k + 1, Len(queue)) = queue
  BY <1>0, <1>2, SplitSeq
<1>5. got' \in Seq(Byte)
  BY <1>0, <1>3, <1>4, ConcatProperties
<1>6. got' \o queue' = got \o queue
  <2>1. (got \o SubSeq(queue, 1, k)) \o SubSeq(queue, k + 1, Len(queue))
          = got \o (SubSeq(queue, 1, k) \o SubSeq(queue, k + 1, Len(queue)))
    BY <1>0, <1>4, Reassociate
  <2> QED BY <2>1, <1>3, <1>4, Zenon
<1> QED BY <1>2, <1>3, <1>4, <1>5, <1>6

(* Closing or reaping, which drops the queue with the last read end.         *)
LEMMA DropKeepsInvariant ==
  ASSUME PInv, DropQueue, rd' \in [Proc -> 0..MaxFds], wr' \in [Proc -> 0..MaxFds],
         pc' \in [Proc -> {"none", "user", "read", "exit"}],
         \A q \in Proc : pc[q] = "read" <=> pc'[q] = "read",
         \A q \in Proc : pc[q] = "read" => rd'[q] = rd[q],
         \A q \in Proc : pc'[q] = "none" => rd'[q] = 0 /\ wr'[q] = 0,
         Readers = {} => Readers' = {}, Writers = {} => Writers' = {},
         UNCHANGED <<want, history>>
  PROVE  PInv'
<1> DEFINE last == \A p \in Proc : rd'[p] = 0
<1>0. /\ queue \in Seq(Byte) /\ waiters \in SUBSET Proc
      /\ blocked \in [Proc -> BOOLEAN] /\ MaxFds \in Nat
      /\ \A p \in Proc : blocked[p] => pc[p] = "read" /\ p \in waiters
                                       /\ queue = <<>>
  BY PipeBounds DEF PInv, PipeTypeOK, NoSleepWithData
<1>1. /\ queue' = IF last THEN <<>> ELSE queue
      /\ waiters' = IF last THEN {} ELSE waiters
      /\ blocked' = [p \in Proc |-> blocked[p] /\ ~ (last /\ p \in waiters)]
  BY DEF DropQueue
<1>2. last <=> Readers' = {}
  BY <1>0 DEF Readers
<1> HIDE DEF last
<1>3. PipeTypeOK'
  <2>1. queue' \in Seq(Byte) /\ waiters' \in SUBSET Proc
    BY <1>0, <1>1
  <2>2. blocked' \in [Proc -> BOOLEAN]
    BY <1>1
  <2> QED BY <2>1, <2>2 DEF PInv, PipeTypeOK, history
<1>4. InOrder'
  BY <1>1, <1>2 DEF PInv, InOrder, history
<1>5. NoSleepWithData'
  <2> SUFFICES ASSUME NEW q \in Proc, blocked'[q]
               PROVE  pc'[q] = "read" /\ q \in waiters' /\ queue' = <<>>
    BY DEF NoSleepWithData
  <2>1. blocked[q] /\ ~ (last /\ q \in waiters)
    BY <1>1
  <2>2. pc[q] = "read" /\ q \in waiters /\ queue = <<>>
    BY <2>1, <1>0
  <2> QED BY <2>1, <2>2, <1>1
<1>6. EndIsFinal'
  BY <1>1 DEF PInv, EndIsFinal, history
<1>7. ReaderKeepsQueue'
  BY DEF PInv, ReaderKeepsQueue
<1>8. QueueDropped'
  BY <1>1, <1>2 DEF QueueDropped
<1>9. WantRoom' /\ NoneHoldsNone'
  BY DEF PInv, WantRoom, NoneHoldsNone
<1> QED BY <1>3, <1>4, <1>5, <1>6, <1>7, <1>8, <1>9 DEF PInv

(* A read, at once or on waking up.                                          *)
LEMMA ReceiveKeepsInvariant ==
  ASSUME PInv, NEW p \in Proc, NEW n \in 1..MaxLen, Receive(p, n),
         rd[p] > 0, ~ blocked[p], UNCHANGED <<ends, sent, eof, epipe>>
  PROVE  PInv'
<1>0. /\ rd' = rd /\ wr' = wr /\ sent' = sent /\ eof' = eof /\ epipe' = epipe
      /\ Readers' = Readers /\ Writers' = Writers /\ Readers # {} /\ MaxLen \in Nat
  BY PipeBounds DEF ends, Readers, Writers
<1>1. CASE queue # <<>> /\ Take(p, n)
  <2>1. PICK k \in 1..Len(queue) :
           /\ k <= n
           /\ got' = got \o SubSeq(queue, 1, k)
           /\ queue' = SubSeq(queue, k + 1, Len(queue))
           /\ queue' \in Seq(Byte) /\ got' \in Seq(Byte)
           /\ got' \o queue' = got \o queue
           /\ result' = [len |-> n, n |-> k]
    BY <1>1, TakeMovesBytes
  <2>2. /\ pc' = [pc EXCEPT ![p] = "user"] /\ want' = [want EXCEPT ![p] = 0]
        /\ waiters' = waiters /\ blocked' = blocked
    BY <1>1 DEF Take
  <2>3. PipeTypeOK'
    <3>1. result' \in [len : 0..MaxLen, n : 0..(MaxLen + 1)]
      <4>1. Len(queue) \in Nat
        BY LenProperties DEF PInv, PipeTypeOK
      <4>2. n \in 0..MaxLen /\ k \in 0..(MaxLen + 1)
        BY <2>1, <1>0, <4>1
      <4> QED BY <2>1, <4>2
    <3>2. /\ pc' \in [Proc -> {"none", "user", "read", "exit"}]
          /\ want' \in [Proc -> 0..MaxLen]
      BY <1>0, <2>2 DEF PInv, PipeTypeOK
    <3>3. queue' \in Seq(Byte) /\ got' \in Seq(Byte)
      BY <2>1
    <3> QED BY <1>0, <2>2, <3>1, <3>2, <3>3 DEF PInv, PipeTypeOK
  <2>4. InOrder'
    BY <1>0, <2>1 DEF PInv, InOrder
  <2>5. \A q \in Proc : ~ blocked[q]
    BY <1>1 DEF PInv, NoSleepWithData
  <2>6. NoSleepWithData'
    BY <2>2, <2>5 DEF NoSleepWithData
  <2>7. EndIsFinal'
    BY <1>0, <1>1 DEF PInv, EndIsFinal
  <2>8. ReaderKeepsQueue' /\ WantRoom' /\ NoneHoldsNone'
    BY <1>0, <2>2 DEF PInv, PipeTypeOK, ReaderKeepsQueue, WantRoom, NoneHoldsNone
  <2>9. QueueDropped'
    BY <1>0 DEF QueueDropped
  <2> QED BY <2>3, <2>4, <2>6, <2>7, <2>8, <2>9 DEF PInv
<1>2. CASE queue = <<>> /\ Enqueue(p, n)
  <2>1. /\ waiters' = waiters \cup {p}
        /\ blocked' = [blocked EXCEPT ![p] = TRUE]
        /\ pc' = [pc EXCEPT ![p] = "read"] /\ want' = [want EXCEPT ![p] = n]
        /\ queue' = queue /\ got' = got /\ result' = result
    BY <1>2 DEF Enqueue
  <2>2. PipeTypeOK'
    BY <1>0, <2>1 DEF PInv, PipeTypeOK
  <2>3. NoSleepWithData'
    BY <1>2, <2>1 DEF PInv, PipeTypeOK, NoSleepWithData
  <2>4. ReaderKeepsQueue' /\ WantRoom' /\ NoneHoldsNone'
    BY <1>0, <2>1 DEF PInv, PipeTypeOK, ReaderKeepsQueue, WantRoom, NoneHoldsNone
  <2>5. InOrder' /\ EndIsFinal' /\ QueueDropped'
    BY <1>0, <2>1 DEF PInv, InOrder, EndIsFinal, QueueDropped
  <2> QED BY <2>2, <2>3, <2>4, <2>5 DEF PInv
<1> QED BY <1>1, <1>2 DEF Receive

(* The queue of a pipe with a read end takes the bytes and wakes everybody.  *)
LEMMA WriteKeepsInvariant ==
  ASSUME PInv, NEW p \in Proc, NEW s \in Seq(Byte), Write(p, s)
  PROVE  PInv' /\ queue' = queue \o s
<1>0. /\ rd' = rd /\ wr' = wr /\ pc' = pc /\ want' = want /\ got' = got
      /\ result' = result /\ eof' = eof /\ epipe' = epipe
      /\ Readers' = Readers /\ Writers' = Writers
      /\ Readers # {} /\ Writers # {}
      /\ queue' = queue \o s /\ sent' = sent \o s
  BY DEF Write, ends, Readers, Writers
<1>1. queue \in Seq(Byte) /\ sent \in Seq(Byte) /\ got \in Seq(Byte)
      /\ waiters \in SUBSET Proc /\ blocked \in [Proc -> BOOLEAN]
  BY DEF PInv, PipeTypeOK
<1>2. queue' \in Seq(Byte) /\ sent' \in Seq(Byte)
  BY <1>0, <1>1, ConcatProperties
<1>3. /\ waiters' = IF s = <<>> THEN waiters ELSE {}
      /\ blocked' = [q \in Proc |-> blocked[q] /\ (s = <<>> \/ q \notin waiters)]
  BY DEF Write
<1>4. waiters' \in SUBSET Proc /\ blocked' \in [Proc -> BOOLEAN]
  BY <1>1, <1>3
<1>5. PipeTypeOK'
  BY <1>0, <1>2, <1>4 DEF PInv, PipeTypeOK
<1>6. InOrder'
  <2>1. sent = got \o queue
    BY <1>0 DEF PInv, InOrder
  <2>2. (got \o queue) \o s = got \o (queue \o s)
    BY <1>1, Reassociate
  <2> QED BY <1>0, <2>1, <2>2 DEF InOrder
<1>7. NoSleepWithData'
  <2> SUFFICES ASSUME NEW q \in Proc, blocked'[q]
               PROVE  pc'[q] = "read" /\ q \in waiters' /\ queue' = <<>>
    BY DEF NoSleepWithData
  <2>1. blocked[q] /\ (s = <<>> \/ q \notin waiters)
    BY <1>3
  <2>2. pc[q] = "read" /\ q \in waiters /\ queue = <<>>
    BY <2>1 DEF PInv, NoSleepWithData
  <2>3. s = <<>> /\ queue' = queue
    BY <2>1, <2>2, <1>0, <1>1, ConcatEmptySeq
  <2> QED BY <2>2, <2>3, <1>0, <1>3
<1>8. EndIsFinal' /\ ReaderKeepsQueue' /\ QueueDropped' /\ WantRoom'
      /\ NoneHoldsNone'
  BY <1>0 DEF PInv, EndIsFinal, ReaderKeepsQueue, QueueDropped, WantRoom,
              NoneHoldsNone
<1> QED BY <1>0, <1>5, <1>6, <1>7, <1>8 DEF PInv

(* The inductive step: one case for each action.                             *)
LEMMA PInvNext ==
  ASSUME PInv, PipeNext
  PROVE  PInv'
<1>0. /\ rd \in [Proc -> 0..MaxFds] /\ wr \in [Proc -> 0..MaxFds]
      /\ MaxFds \in Nat /\ MaxLen \in Nat
      /\ pc \in [Proc -> {"none", "user", "read", "exit"}]
  BY PipeBounds DEF PInv, PipeTypeOK
<1>1. (Readers = {} => Readers' = {}) /\ (Writers = {} => Writers' = {})
  BY EndsStayGone DEF PInv
<1>2. PICK p \in Proc :
        \/ \E c \in Proc : CloneFiles(p, c)
        \/ DupRead(p) \/ DupWrite(p) \/ CloseRead(p) \/ CloseWrite(p)
        \/ ExitProc(p) \/ Reap(p)
        \/ \E n \in 0..MaxLen : ReadEof(p, n) \/ Read(p, n)
        \/ ReadEmpty(p) \/ ReadRetry(p)
        \/ \E s \in Buffers : Write(p, s)
        \/ WriteBroken(p)
  BY DEF PipeNext
<1>3. \A q \in Proc : blocked[q] => pc[q] = "read" /\ q \in waiters
                                    /\ queue = <<>>
  BY DEF PInv, NoSleepWithData
<1>4. ASSUME NEW c \in Proc, CloneFiles(p, c)
      PROVE  PInv'
  <2>1. /\ pc[p] = "user" /\ pc[c] = "none"
        /\ rd' = [rd EXCEPT ![c] = rd[p]] /\ wr' = [wr EXCEPT ![c] = wr[p]]
        /\ pc' = [pc EXCEPT ![c] = "user"]
        /\ queue' = queue /\ waiters' = waiters /\ blocked' = blocked
        /\ want' = want /\ sent' = sent /\ got' = got /\ result' = result
        /\ eof' = eof /\ epipe' = epipe
    BY <1>4 DEF CloneFiles, history
  <2>2. PipeTypeOK'
    BY <1>0, <2>1 DEF PInv, PipeTypeOK
  <2>3. Readers' = {} => Readers = {}
    BY <1>0, <2>1 DEF PInv, NoneHoldsNone, Readers
  <2>4. NoSleepWithData'
    BY <1>0, <1>3, <2>1 DEF NoSleepWithData
  <2>5. ReaderKeepsQueue' /\ WantRoom' /\ NoneHoldsNone'
    BY <1>0, <2>1 DEF PInv, ReaderKeepsQueue, WantRoom, NoneHoldsNone
  <2>6. InOrder' /\ EndIsFinal' /\ QueueDropped'
    BY <1>1, <2>1, <2>3 DEF PInv, InOrder, EndIsFinal, QueueDropped
  <2> QED BY <2>2, <2>4, <2>5, <2>6 DEF PInv
<1>5. CASE DupRead(p) \/ DupWrite(p) \/ CloseWrite(p)
  <2>1. /\ pc[p] = "user" /\ pc' = pc
        /\ queue' = queue /\ waiters' = waiters /\ blocked' = blocked
        /\ want' = want /\ sent' = sent /\ got' = got /\ result' = result
        /\ eof' = eof /\ epipe' = epipe
    BY <1>5 DEF DupRead, DupWrite, CloseWrite, history
  <2>2. rd' \in [Proc -> 0..MaxFds] /\ wr' \in [Proc -> 0..MaxFds]
    BY <1>0, <1>5 DEF DupRead, DupWrite, CloseWrite
  <2>3. \A q \in Proc : /\ rd[q] > 0 <=> rd'[q] > 0
                        /\ rd[q] = 0 => rd'[q] = 0
                        /\ wr[q] = 0 => wr'[q] = 0
    BY <1>0, <1>5 DEF DupRead, DupWrite, CloseWrite
  <2>4. PipeTypeOK'
    BY <2>1, <2>2 DEF PInv, PipeTypeOK
  <2>5. Readers' = Readers
    BY <2>3 DEF Readers
  <2>6. NoSleepWithData' /\ ReaderKeepsQueue' /\ WantRoom' /\ NoneHoldsNone'
    BY <2>1, <2>3
       DEF PInv, NoSleepWithData, ReaderKeepsQueue, WantRoom, NoneHoldsNone
  <2>7. InOrder' /\ EndIsFinal' /\ QueueDropped'
    BY <1>1, <2>1, <2>5 DEF PInv, InOrder, EndIsFinal, QueueDropped
  <2> QED BY <2>4, <2>6, <2>7 DEF PInv
<1>6. CASE CloseRead(p)
  <2>1. /\ pc[p] = "user" /\ rd[p] > 0 /\ rd' = [rd EXCEPT ![p] = @ - 1]
        /\ DropQueue /\ wr' = wr /\ pc' = pc /\ UNCHANGED <<want, history>>
    BY <1>6 DEF CloseRead
  <2>2. rd' \in [Proc -> 0..MaxFds] /\ wr' \in [Proc -> 0..MaxFds]
    BY <1>0, <2>1
  <2>3. /\ \A q \in Proc : pc[q] = "read" => rd'[q] = rd[q]
        /\ \A q \in Proc : pc'[q] = "none" => rd'[q] = 0 /\ wr'[q] = 0
    BY <1>0, <2>1 DEF PInv, NoneHoldsNone
  <2> QED BY <1>0, <1>1, <2>1, <2>2, <2>3, DropKeepsInvariant
<1>7. CASE Reap(p)
  <2>1. /\ pc[p] = "exit" /\ pc' = [pc EXCEPT ![p] = "none"]
        /\ rd' = [rd EXCEPT ![p] = 0] /\ wr' = [wr EXCEPT ![p] = 0]
        /\ DropQueue /\ UNCHANGED <<want, history>>
    BY <1>7 DEF Reap
  <2>2. /\ rd' \in [Proc -> 0..MaxFds] /\ wr' \in [Proc -> 0..MaxFds]
        /\ pc' \in [Proc -> {"none", "user", "read", "exit"}]
    BY <1>0, <2>1
  <2>3. /\ \A q \in Proc : pc[q] = "read" <=> pc'[q] = "read"
        /\ \A q \in Proc : pc[q] = "read" => rd'[q] = rd[q]
        /\ \A q \in Proc : pc'[q] = "none" => rd'[q] = 0 /\ wr'[q] = 0
    BY <1>0, <2>1 DEF PInv, NoneHoldsNone
  <2> QED BY <1>1, <2>1, <2>2, <2>3, DropKeepsInvariant
<1>8. CASE ExitProc(p)
  <2>1. /\ pc[p] = "user" /\ pc' = [pc EXCEPT ![p] = "exit"]
        /\ rd' = rd /\ wr' = wr
        /\ queue' = queue /\ waiters' = waiters /\ blocked' = blocked
        /\ want' = want /\ sent' = sent /\ got' = got /\ result' = result
        /\ eof' = eof /\ epipe' = epipe
    BY <1>8 DEF ExitProc, history, ends
  <2>2. PipeTypeOK'
    BY <1>0, <2>1 DEF PInv, PipeTypeOK
  <2>3. NoSleepWithData'
    BY <1>0, <1>3, <2>1 DEF NoSleepWithData
  <2>4. ReaderKeepsQueue' /\ WantRoom' /\ NoneHoldsNone'
    BY <1>0, <2>1 DEF PInv, ReaderKeepsQueue, WantRoom, NoneHoldsNone
  <2>5. InOrder' /\ EndIsFinal' /\ QueueDropped'
    BY <2>1 DEF PInv, InOrder, EndIsFinal, QueueDropped, Readers, Writers
  <2> QED BY <2>2, <2>3, <2>4, <2>5 DEF PInv
<1>9. ASSUME NEW n \in 0..MaxLen, ReadEof(p, n)
      PROVE  PInv'
  <2>1. /\ Writers = {} /\ queue = <<>> /\ result' = [len |-> n, n |-> 0]
        /\ eof' = (eof \/ n > 0)
        /\ rd' = rd /\ wr' = wr /\ pc' = pc
        /\ queue' = queue /\ waiters' = waiters /\ blocked' = blocked
        /\ want' = want /\ sent' = sent /\ got' = got /\ epipe' = epipe
    BY <1>9 DEF ReadEof, ends
  <2>2. result' \in [len : 0..MaxLen, n : 0..(MaxLen + 1)]
    BY <1>0, <2>1
  <2>3. eof' \in BOOLEAN
    BY <2>1
  <2>4. PipeTypeOK'
    BY <2>1, <2>2, <2>3 DEF PInv, PipeTypeOK
  <2>5. NoSleepWithData' /\ ReaderKeepsQueue' /\ WantRoom' /\ NoneHoldsNone'
    BY <2>1 DEF PInv, NoSleepWithData, ReaderKeepsQueue, WantRoom, NoneHoldsNone
  <2>6. InOrder' /\ EndIsFinal' /\ QueueDropped'
    BY <2>1 DEF PInv, InOrder, EndIsFinal, QueueDropped, Readers, Writers
  <2> QED BY <2>4, <2>5, <2>6 DEF PInv
<1>10. CASE ReadEmpty(p) \/ WriteBroken(p)
  <2>1. /\ rd' = rd /\ wr' = wr /\ pc' = pc
        /\ queue' = queue /\ waiters' = waiters /\ blocked' = blocked
        /\ want' = want /\ sent' = sent /\ got' = got /\ eof' = eof
        /\ epipe' \in BOOLEAN /\ (epipe' => epipe \/ Readers = {})
    <3>1. epipe \in BOOLEAN
      BY DEF PInv, PipeTypeOK
    <3>2. CASE ReadEmpty(p)
      BY <3>1, <3>2 DEF ReadEmpty, ends
    <3>3. CASE WriteBroken(p)
      BY <3>3 DEF WriteBroken, ends
    <3> QED BY <1>10, <3>2, <3>3
  <2>2. result' \in [len : 0..MaxLen, n : 0..(MaxLen + 1)]
    BY <1>0, <1>10 DEF ReadEmpty, WriteBroken, PInv, PipeTypeOK
  <2>4. PipeTypeOK'
    BY <2>1, <2>2 DEF PInv, PipeTypeOK
  <2>5. NoSleepWithData' /\ ReaderKeepsQueue' /\ WantRoom' /\ NoneHoldsNone'
    BY <2>1 DEF PInv, NoSleepWithData, ReaderKeepsQueue, WantRoom, NoneHoldsNone
  <2>6. InOrder' /\ EndIsFinal' /\ QueueDropped'
    BY <2>1 DEF PInv, InOrder, EndIsFinal, QueueDropped, Readers, Writers
  <2> QED BY <2>4, <2>5, <2>6 DEF PInv
<1>11. ASSUME NEW n \in 0..MaxLen, Read(p, n)
       PROVE  PInv'
  <2>1. n \in 1..MaxLen /\ Receive(p, n) /\ rd[p] > 0 /\ pc[p] = "user"
        /\ UNCHANGED <<ends, sent, eof, epipe>>
    BY <1>0, <1>11 DEF Read
  <2>2. ~ blocked[p]
    BY <1>3, <2>1
  <2> QED BY <2>1, <2>2, ReceiveKeepsInvariant
<1>12. CASE ReadRetry(p)
  <2>1. /\ pc[p] = "read" /\ ~ blocked[p] /\ Receive(p, want[p])
        /\ UNCHANGED <<ends, sent, eof, epipe>>
    BY <1>12 DEF ReadRetry
  <2>0. want[p] \in 0..MaxLen
    BY DEF PInv, PipeTypeOK
  <2>2. want[p] \in 1..MaxLen /\ rd[p] > 0
    BY <1>0, <2>0, <2>1 DEF PInv, WantRoom, ReaderKeepsQueue
  <2> QED BY <2>1, <2>2, ReceiveKeepsInvariant
<1>13. ASSUME NEW s \in Buffers, Write(p, s)
       PROVE  PInv'
  <2>1. s \in Seq(Byte)
    BY <1>0, IsASeq DEF Buffers
  <2> QED BY <1>13, <2>1, WriteKeepsInvariant
<1> QED BY <1>2, <1>4, <1>5, <1>6, <1>7, <1>8, <1>9, <1>10, <1>11, <1>12, <1>13

(* Every reachable state satisfies the inductive invariant.                  *)
THEOREM PipeInvariance == PipeSpec => []PInv
<1>1. PipeInit => PInv
  <2> SUFFICES ASSUME PipeInit PROVE PInv
    OBVIOUS
  <2> USE PipeBounds, RootAssumption DEF PipeInit
  <2>1. <<>> \in Seq(Byte) /\ <<>> \o <<>> = <<>>
    BY EmptySeq, ConcatEmptySeq
  <2>2. rd \in [Proc -> 0..MaxFds] /\ wr \in [Proc -> 0..MaxFds]
    BY DEF PipeInit
  <2>3. PipeTypeOK
    <3>1. result \in [len : 0..MaxLen, n : 0..(MaxLen + 1)]
      BY DEF PipeInit
    <3>2. pc \in [Proc -> {"none", "user", "read", "exit"}]
          /\ want \in [Proc -> 0..MaxLen]
      BY DEF PipeInit
    <3>3. blocked \in [Proc -> BOOLEAN]
      BY DEF PipeInit
    <3>4. waiters \in SUBSET Proc /\ eof \in BOOLEAN /\ epipe \in BOOLEAN
      BY DEF PipeInit
    <3> QED BY <2>1, <2>2, <3>1, <3>2, <3>3, <3>4 DEF PipeTypeOK
  <2>4. InOrder /\ NoSleepWithData /\ EndIsFinal /\ ReaderKeepsQueue
        /\ QueueDropped /\ WantRoom /\ NoneHoldsNone
    BY <2>1 DEF InOrder, NoSleepWithData, EndIsFinal, ReaderKeepsQueue,
                QueueDropped, WantRoom, NoneHoldsNone
  <2> QED BY <2>3, <2>4 DEF PInv
<1>2. PInv /\ [PipeNext]_pipeVars => PInv'
  <2>1. PInv /\ PipeNext => PInv'
    BY PInvNext
  <2>2. ASSUME PInv, UNCHANGED pipeVars
        PROVE  PInv'
    <3> USE <2>2 DEF pipeVars
    <3>1. PipeTypeOK'
      BY DEF PInv, PipeTypeOK
    <3>2. NoSleepWithData' /\ ReaderKeepsQueue' /\ WantRoom' /\ NoneHoldsNone'
      BY DEF PInv, NoSleepWithData, ReaderKeepsQueue, WantRoom, NoneHoldsNone
    <3>3. InOrder' /\ EndIsFinal' /\ QueueDropped'
      BY DEF PInv, InOrder, EndIsFinal, QueueDropped, Readers, Writers
    <3> QED BY <3>1, <3>2, <3>3 DEF PInv
  <2> QED BY <2>1, <2>2
<1> QED BY <1>1, <1>2, PTL DEF PipeSpec

(* Every variable keeps its type.                                            *)
THEOREM PipeTypeCorrect == PipeSpec => []PipeTypeOK
BY PipeInvariance, PTL DEF PInv

(* WaitQueue::send and receive: no byte is lost, doubled or reordered while  *)
(* a read end exists, for any number of readers and writers.                 *)
THEOREM BytesInOrder == PipeSpec => []InOrder
BY PipeInvariance, PTL DEF PInv

(* WaitQueue::receive: nobody sleeps beside bytes.                           *)
THEOREM NoLostByteWakeup == PipeSpec => []NoSleepWithData
BY PipeInvariance, PTL DEF PInv

(* PipeRead::read and PipeWrite::write: the end of the stream and EPIPE are  *)
(* final.                                                                    *)
THEOREM EndsFinal == PipeSpec => []EndIsFinal
BY PipeInvariance, PTL DEF PInv

(* A sleeping reader holds the Arc of the queue it sleeps in.                *)
THEOREM SleeperHoldsQueue == PipeSpec => []ReaderKeepsQueue
BY PipeInvariance, PTL DEF PInv

-----------------------------------------------------------------------------
(* Every step of the pipe is a step of the stream or leaves it unchanged.    *)
LEMMA StreamStep ==
  ASSUME PInv, PInv', PipeNext
  PROVE  [Stream!StreamNext]_(Stream!streamVars)
<1>0. /\ queue \in Seq(Byte) /\ got \in Seq(Byte) /\ Len(queue) \in Nat
      /\ MaxLen \in Nat
  BY LenProperties, PipeBounds DEF PInv, PipeTypeOK
<1>1. (Readers' # {} => Readers # {}) /\ (Writers' # {} => Writers # {})
  BY EndsStayGone DEF PInv
<1>2. PICK p \in Proc :
        \/ \E c \in Proc : CloneFiles(p, c)
        \/ DupRead(p) \/ DupWrite(p) \/ CloseRead(p) \/ CloseWrite(p)
        \/ ExitProc(p) \/ Reap(p)
        \/ \E n \in 0..MaxLen : ReadEof(p, n) \/ Read(p, n)
        \/ ReadEmpty(p) \/ ReadRetry(p)
        \/ \E s \in Buffers : Write(p, s)
        \/ WriteBroken(p)
  BY DEF PipeNext
<1>3. ASSUME got' = got, Readers' # {} => queue' = queue
      PROVE  Stream!Shut
  <2>1. Readers' = {} => queue' = <<>>
    BY DEF PInv, QueueDropped
  <2> QED BY <1>1, <1>3, <2>1 DEF Stream!Shut
<1>4. CASE (\E c \in Proc : CloneFiles(p, c)) \/ DupRead(p) \/ DupWrite(p)
           \/ CloseWrite(p) \/ ExitProc(p) \/ ReadEmpty(p) \/ WriteBroken(p)
           \/ (\E n \in 0..MaxLen : ReadEof(p, n))
  <2>1. got' = got /\ queue' = queue
    BY <1>4 DEF CloneFiles, DupRead, DupWrite, CloseWrite, ExitProc, ReadEmpty,
                WriteBroken, ReadEof, history
  <2> QED BY <1>3, <2>1 DEF Stream!StreamNext
<1>5. CASE CloseRead(p) \/ Reap(p)
  <2>1. got' = got /\ DropQueue
    BY <1>5 DEF CloseRead, Reap, history
  <2>2. queue' = IF \A q \in Proc : rd'[q] = 0 THEN <<>> ELSE queue
    BY <2>1 DEF DropQueue
  <2>3. Readers' # {} => ~ (\A q \in Proc : rd'[q] = 0)
    BY DEF Readers
  <2> QED BY <1>3, <2>1, <2>2, <2>3 DEF Stream!StreamNext
<1>6. ASSUME NEW n \in 1..MaxLen, Receive(p, n), rd[p] > 0,
             UNCHANGED <<ends, sent, eof, epipe>>
      PROVE  [Stream!StreamNext]_(Stream!streamVars)
  <2>0. Readers' = Readers /\ Writers' = Writers /\ Readers # {}
    BY <1>6 DEF ends, Readers, Writers
  <2>1. CASE queue # <<>> /\ Take(p, n)
    <3>1. PICK k \in 1..Len(queue) :
             /\ got' = got \o SubSeq(queue, 1, k)
             /\ queue' = SubSeq(queue, k + 1, Len(queue))
      BY <2>1, TakeMovesBytes
    <3>2. Stream!Deliver(k)
      BY <2>0, <3>1 DEF Stream!Deliver
    <3> QED BY <3>2 DEF Stream!StreamNext
  <2>2. CASE queue = <<>> /\ Enqueue(p, n)
    BY <2>0, <2>2 DEF Enqueue, Stream!streamVars
  <2> QED BY <1>6, <2>1, <2>2 DEF Receive
<1>7. ASSUME NEW n \in 0..MaxLen, Read(p, n)
      PROVE  [Stream!StreamNext]_(Stream!streamVars)
  BY <1>0, <1>6, <1>7 DEF Read
<1>8. CASE ReadRetry(p)
  <2>0. pc[p] = "read" /\ want[p] \in 0..MaxLen
    BY <1>8 DEF ReadRetry, PInv, PipeTypeOK
  <2>1. want[p] \in 1..MaxLen /\ rd[p] > 0
    BY <1>0, <2>0 DEF PInv, WantRoom, ReaderKeepsQueue
  <2> QED BY <1>6, <1>8, <2>1 DEF ReadRetry
<1>9. ASSUME NEW s \in Buffers, Write(p, s)
      PROVE  Stream!Send
  <2>1. s \in Seq(Byte)
    BY <1>0, IsASeq DEF Buffers
  <2>2. queue' = queue \o s /\ got' = got /\ Readers' = Readers
        /\ Writers' = Writers /\ Readers # {} /\ Writers # {}
    BY <1>9 DEF Write, ends, Readers, Writers
  <2>3. queue' \in Seq(Byte) /\ Len(queue') = Len(queue) + Len(s)
        /\ Len(s) \in Nat
    BY <1>0, <2>1, <2>2, ConcatProperties, LenProperties
  <2>4. SubSeq(queue', 1, Len(queue)) = queue
    <3>1. CASE queue = <<>>
      <4>1. Len(queue) = 0
        BY <3>1
      <4> QED BY <3>1, <4>1, SubSeqEmpty
    <3>2. CASE queue # <<>>
      <4>1. 1 \in 1..Len(queue) /\ Len(queue) \in 1..Len(queue)
        BY <3>2, <1>0, EmptySeq
      <4>2. SubSeq(queue \o s, 1, Len(queue)) = SubSeq(queue, 1, Len(queue))
        BY <1>0, <2>1, <4>1, SubSeqOfConcat1
      <4> QED BY <4>2, <2>2, <1>0, SubSeqFull
    <3> QED BY <3>1, <3>2
  <2>5. Len(queue') >= Len(queue)
    BY <2>3, <1>0
  <2> QED BY <2>2, <2>3, <2>4, <2>5 DEF Stream!Send
<1> QED BY <1>2, <1>4, <1>5, <1>7, <1>8, <1>9 DEF Stream!StreamNext

(* A pipe shared by any number of contexts, that come, go and sleep, is one  *)
(* stream of bytes.                                                          *)
THEOREM PipeImplementsStream == PipeSpec => ImplementsStream
<1>1. PipeInit => Stream!StreamInit
  BY RootAssumption DEF PipeInit, Stream!StreamInit, Readers, Writers
<1>2. PInv /\ PInv' /\ [PipeNext]_pipeVars
        => [Stream!StreamNext]_(Stream!streamVars)
  <2>1. PInv /\ PInv' /\ PipeNext => [Stream!StreamNext]_(Stream!streamVars)
    BY StreamStep
  <2>2. UNCHANGED pipeVars => UNCHANGED Stream!streamVars
    BY DEF pipeVars, Stream!streamVars, Readers, Writers
  <2> QED BY <2>1, <2>2
<1> QED BY <1>1, <1>2, PipeInvariance, PTL
        DEF PipeSpec, ImplementsStream, Stream!StreamSpec
=============================================================================
