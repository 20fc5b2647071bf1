------------------------------ MODULE StdWrite ------------------------------
(***************************************************************************)
(* The writing side of libstd's io: BufWriter, LineWriter and Broadcast    *)
(* over a Cursor that takes fewer bytes than it is given, is full, is      *)
(* interrupted, fails, or panics.                                          *)
(*                                                                         *)
(* An operation on a writer is the set of its outcomes                     *)
(* [s |-> the writer afterwards, r |-> the answer]. The record abs in the  *)
(* writer is a history: what an unbuffered writer would hold after the     *)
(* same accepted bytes.                                                    *)
(***************************************************************************)
EXTENDS Integers, Sequences, SequencesExt

CONSTANTS Cap,         \* capacity of the buffer
          SliceLen,    \* length of the slice a fixed cursor writes to
          Chunks,      \* what the caller writes: sequences of bytes, "n" a line end
          MaxWritten,  \* bound on the bytes accepted
          MaxWFaults   \* bound on the failures of the inner writer

ASSUME WriteAssumption == {Cap, SliceLen, MaxWritten, MaxWFaults} \subseteq Nat

VARIABLES wr,      \* the writer
          wcall,   \* the call under way: op, pieces still to write, answer
          wfaults  \* failures so far

writeVars == <<wr, wcall, wfaults>>

Lesser(a, b) == IF a < b THEN a ELSE b
WOk(n) == [ok |-> TRUE, n |-> n, e |-> "none"]
WErr(e) == [ok |-> FALSE, n |-> 0, e |-> e]
Out(s, r) == [s |-> s, r |-> r]

----------------------------------------------------------------------------
(* Write for Cursor<Vec<u8>>: zeroes up to the position, the bytes that are
   there overwritten, the others appended. *)
vec_write(c, b) ==
  LET padded == IF c.pos > Len(c.data) THEN c.data \o [i \in 1..(c.pos - Len(c.data)) |-> "0"] ELSE c.data
      left   == Lesser(Len(padded) - c.pos, Len(b))
  IN [data |-> SubSeq(padded, 1, c.pos) \o b \o SubSeq(padded, c.pos + left + 1, Len(padded)),
      pos  |-> c.pos + Len(b)]

(* Write for Cursor<&mut [u8]> and Cursor<Box<[u8]>>: as much as fits. *)
slice_write(c, b) ==
  LET at  == Lesser(c.pos, Len(c.data))
      amt == Lesser(Len(c.data) - at, Len(b))
  IN [c |-> [data |-> SubSeq(c.data, 1, at) \o SubSeq(b, 1, amt) \o SubSeq(c.data, at + amt + 1, Len(c.data)),
             pos  |-> c.pos + amt], n |-> amt]

(* The inner writer's write: some of the bytes, or a failure without effect. *)
inner_write(s, b) ==
  (IF s.fixed
   THEN LET w == slice_write(s.cursor, b) IN {Out([s EXCEPT !.cursor = w.c], WOk(w.n))}
   ELSE {Out([s EXCEPT !.cursor = vec_write(@, SubSeq(b, 1, k))], WOk(k)) :
           k \in IF b = <<>> THEN {0} ELSE 1..Len(b)})
  \cup IF wfaults < MaxWFaults
       THEN {Out(s, WErr(e)) : e \in {"Interrupted", "Other", "panic"}} ELSE {}

(* sys_fsync behind Stdout::flush may fail; a Cursor's flush does nothing. *)
inner_flush(s) ==
  {Out(s, WOk(0))} \cup
  IF wfaults < MaxWFaults THEN {Out(s, WErr(e)) : e \in {"Interrupted", "Other"}} ELSE {}

inner_seek_to(s, pos) == Out([s EXCEPT !.cursor.pos = pos, !.abs.pos = pos], WOk(pos))

----------------------------------------------------------------------------
(* flush_buf: writes of the rest of the buffer until all is written, again
   after Interrupted, up to an error or a write of 0. What was written is then
   taken from the buffer; a panic leaves before that, with panicked set. *)
Drained(s, w) == [s EXCEPT !.buf = SubSeq(@, w + 1, Len(@))]
Wrote(s, w) == [s EXCEPT !.cursor = IF w = 0 THEN @ ELSE
                                    IF s.fixed THEN slice_write(@, SubSeq(s.buf, 1, w)).c
                                    ELSE vec_write(@, SubSeq(s.buf, 1, w))]
Room(s) == IF s.fixed THEN Lesser(Len(s.buf), slice_write(s.cursor, s.buf).n) ELSE Len(s.buf)

(* Mutant: a failed flush leaves what it wrote in the buffer. *)
flush_buf_Undrained(s) ==
  {Out(Drained(Wrote(s, Room(s)), Room(s)), WOk(0))} \cup
  IF s.buf # <<>> /\ wfaults < MaxWFaults
  THEN {Out(Wrote(s, w), WErr("Other")) : w \in 0..Lesser(Room(s), Len(s.buf) - 1)} ELSE {}

flush_buf(s) ==
  LET len == Len(s.buf)
  IN (IF Room(s) = len THEN {Out(Drained(Wrote(s, len), len), WOk(0))}
      ELSE {Out(Drained(Wrote(s, Room(s)), Room(s)), WErr("WriteZero"))})
     \cup
     IF len > 0 /\ wfaults < MaxWFaults
     THEN {Out(Drained(Wrote(s, w), w), WErr("Other")) : w \in 0..Lesser(Room(s), len - 1)}
          \cup {Out([Wrote(s, w) EXCEPT !.panicked = TRUE], WErr("panic")) : w \in 0..Lesser(Room(s), len - 1)}
     ELSE {}

(* What the writer took, for the history. *)
Took(s, b, n) == [s EXCEPT !.abs = IF n = 0 THEN @ ELSE vec_write(@, SubSeq(b, 1, n)), !.took = @ + n]

(* Then: what follows a call that succeeded. *)
Then(outs, F(_)) == UNION {IF o.r.ok THEN F(o.s) ELSE {o} : o \in outs}

(* BufWriter::write: the buffer is emptied if the bytes do not fit behind what
   it holds, and passed by if they do not fit at all. *)
buf_write(s, b) ==
  LET put(t) ==
        IF Len(b) >= Cap
        THEN {IF o.r.ok THEN Out(Took(o.s, b, o.r.n), o.r)
              ELSE Out([o.s EXCEPT !.panicked = (o.r.e = "panic")], o.r) : o \in inner_write(t, b)}
        ELSE {Out(Took([t EXCEPT !.buf = @ \o b], b, Len(b)), WOk(Len(b)))}
  IN IF Len(s.buf) + Len(b) > Cap THEN Then(flush_buf(s), put) ELSE put(s)

buf_flush(s) == Then(flush_buf(s), inner_flush)

buf_seek(s, pos) == Then(flush_buf(s), LAMBDA t : {inner_seek_to(t, pos)})

(* into_inner gives the inner writer away if the buffer could be written. *)
into_inner(s) == Then(flush_buf(s), LAMBDA t : {Out([t EXCEPT !.inner = FALSE], WOk(0))})

(* drop writes the buffer unless the inner writer is gone or has panicked, and
   ignores the answer. *)
drop(s) == IF s.inner /\ ~s.panicked
           THEN {Out([o.s EXCEPT !.dropped = TRUE], o.r) : o \in flush_buf(s)}
           ELSE {Out([s EXCEPT !.dropped = TRUE], WOk(0))}

(* LineWriter::write: up to the first line end, a flush, then the rest. *)
newlines(b) == {i \in 1..Len(b) : b[i] = "n"}

line_write(s, b) ==
  IF newlines(b) = {} THEN buf_write(s, b)
  ELSE LET i == CHOOSE k \in newlines(b) : \A j \in newlines(b) : k <= j
           rest(t) == {IF o.r.ok THEN Out(o.s, WOk(i + o.r.n)) ELSE o :
                         o \in buf_write(t, SubSeq(b, i + 1, Len(b)))}
       IN UNION {IF ~o.r.ok \/ o.r.n # i THEN {o} ELSE Then(buf_flush(o.s), rest) :
                   o \in buf_write(s, SubSeq(b, 1, i))}

(* Broadcast::write: what the first writer took is written to the second in
   full; if that fails the first keeps it. *)
broadcast_write(s, b) ==
  UNION {IF ~o.r.ok THEN {o}
         ELSE LET t == Took(o.s, b, o.r.n)
              IN {Out([t EXCEPT !.second = @ \o SubSeq(b, 1, o.r.n)], o.r)} \cup
                 (IF wfaults < MaxWFaults
                  THEN {Out([t EXCEPT !.second = @ \o SubSeq(b, 1, k)], WErr("Other")) : k \in 0..o.r.n}
                  ELSE {}) : o \in inner_write(s, b)}

write(s, b) == CASE s.kind = "buf" -> buf_write(s, b)
                 [] s.kind = "line" -> line_write(s, b)
                 [] s.kind = "broadcast" -> broadcast_write(s, b)

----------------------------------------------------------------------------
NoCall == [op |-> "idle", pieces |-> <<>>, told |-> 0, res |-> WOk(0), chunk |-> <<>>]

BufWriter(kind, fixed) ==
  LET c == [data |-> IF fixed THEN [i \in 1..SliceLen |-> "0"] ELSE <<>>, pos |-> 0]
  IN [kind |-> kind, fixed |-> fixed, cursor |-> c, buf |-> <<>>, panicked |-> FALSE, inner |-> TRUE,
      dropped |-> FALSE, second |-> <<>>, abs |-> c, took |-> 0]

WriteInit == /\ \E k \in {"buf", "line", "broadcast"}, f \in BOOLEAN : wr = BufWriter(k, f)
             /\ wcall = NoCall
             /\ wfaults = 0

Failed(r) == ~r.ok /\ r.e # "WriteZero"

(* One outcome happens; a panic unwinds to the drop of the writer. *)
Settle(o, c) == /\ wr' = o.s
              /\ wcall' = [c EXCEPT !.op = IF o.r.e = "panic" THEN "unwind" ELSE @]
              /\ wfaults' = wfaults + IF Failed(o.r) THEN 1 ELSE 0

Usable == wcall.op = "idle" /\ wr.inner /\ ~wr.dropped
Anew == [wr EXCEPT !.took = 0]

Write(b) ==
  /\ Usable /\ Len(wr.abs.data) + Len(b) <= MaxWritten
  /\ \E o \in write(Anew, b) : Settle(o, [NoCall EXCEPT !.told = o.r.n, !.res = o.r, !.chunk = b])

(* write_all and write_fmt, which calls it for one piece after the other and
   returns the error it kept. *)
StartWriteAll(pieces) ==
  /\ Usable /\ Len(wr.abs.data) + Len(FlattenSeq(pieces)) <= MaxWritten
  /\ wr' = Anew
  /\ wcall' = [NoCall EXCEPT !.op = "write_all", !.pieces = pieces]
  /\ UNCHANGED wfaults

write_all ==
  /\ wcall.op = "write_all"
  /\ Len(wr.abs.data) <= MaxWritten
  /\ IF wcall.pieces = <<>>
     THEN wcall' = [wcall EXCEPT !.op = "idle"] /\ UNCHANGED <<wr, wfaults>>
     ELSE \E o \in write(wr, Head(wcall.pieces)) :
            LET b == Head(wcall.pieces)
                left == SubSeq(b, o.r.n + 1, Len(b))
                rest == IF left = <<>> THEN Tail(wcall.pieces) ELSE <<left>> \o Tail(wcall.pieces)
            IN Settle(o, IF o.r.ok
                       THEN IF o.r.n = 0
                            THEN [NoCall EXCEPT !.told = wcall.told, !.res = WErr("WriteZero")]
                            ELSE [wcall EXCEPT !.pieces = rest, !.told = @ + o.r.n]
                       ELSE IF o.r.e = "Interrupted" THEN wcall
                            ELSE [NoCall EXCEPT !.told = wcall.told, !.res = o.r])

Flush == /\ Usable
         /\ \E o \in IF wr.kind = "broadcast" THEN inner_flush(Anew) ELSE buf_flush(Anew) :
              Settle(o, [NoCall EXCEPT !.res = o.r])

SeekTo(pos) == /\ Usable /\ wr.kind = "buf"
               /\ \E o \in buf_seek(Anew, pos) : Settle(o, [NoCall EXCEPT !.res = o.r])

IntoInner == /\ Usable /\ wr.kind # "broadcast"
             /\ \E o \in into_inner(Anew) : Settle(o, [NoCall EXCEPT !.res = o.r])

Drop == /\ wcall.op \in {"idle", "unwind"} /\ ~wr.dropped
        /\ \E o \in drop(Anew) : Settle(o, [NoCall EXCEPT !.res = o.r])

WriteNext ==
  \/ \E b \in Chunks : Write(b)
  \/ \E b, c \in Chunks : Len(b) > 0 /\ Len(c) > 0 /\ StartWriteAll(<<b, c>>)
  \/ write_all
  \/ Flush
  \/ \E pos \in 0..1 : SeekTo(pos)
  \/ IntoInner
  \/ Drop

WriteSpec == WriteInit /\ [][WriteNext]_writeVars

----------------------------------------------------------------------------
(* Buffering is invisible: the inner writer and the buffer together hold what
   an unbuffered writer would hold after the same calls, short writes, retries,
   failed flushes and seeks included; a dropped writer has written it all unless
   the last flush failed; and after a panic nothing is written twice. *)
WrittenOnce ==
  wr.kind # "broadcast" =>
    /\ ~wr.panicked /\ ~wr.dropped =>
         IF wr.fixed THEN /\ wr.cursor.pos + Len(wr.buf) = wr.abs.pos
                          /\ wr.buf = SubSeq(wr.abs.data, wr.cursor.pos + 1, wr.abs.pos)
         ELSE wr.abs = IF wr.buf = <<>> THEN wr.cursor ELSE vec_write(wr.cursor, wr.buf)
    /\ ~wr.inner \/ (wr.dropped /\ ~wr.panicked /\ wcall.res.ok) =>
         wr.buf = <<>> /\ wr.cursor.pos = wr.abs.pos
    /\ wr.panicked => wr.cursor.pos <= wr.abs.pos

(* What the caller is told: a BufWriter has taken exactly the bytes it reported
   when it reports success or failure; a LineWriter that reports success has
   passed on everything up to the first line end. *)
ToldTruth ==
  wcall.op = "idle" =>
    /\ wr.kind = "buf" => wcall.told = wr.took
    /\ wr.kind = "line" => wcall.told <= wr.took
    /\ wr.kind = "line" /\ wcall.res.ok =>
         LET ends == {i \in newlines(wcall.chunk) : i <= wcall.told}
         IN ends = {} \/ \E i \in ends : Len(wr.buf) <= wcall.told - i
    /\ wr.kind = "broadcast" => IsPrefix(wr.second, wr.abs.data) \/ wfaults > 0

(* After a LineWriter has taken a line end, no complete line waits in its
   buffer (the test test_line_buffer). *)
LinesPassedOn ==
  wcall.op = "idle" /\ wr.kind = "line" /\ wcall.res.ok /\ wcall.told = Len(wcall.chunk)
     /\ newlines(wcall.chunk) # {} => newlines(wr.buf) = {}

============================================================================
