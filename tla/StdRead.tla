------------------------------ MODULE StdRead ------------------------------
(***************************************************************************)
(* The reading side of libstd's io: a BufReader over a seekable source,    *)
(* seen through the adaptors Take, Chain and Tee, and the loops of Read    *)
(* and BufRead that are written on top of read and fill_buf.               *)
(*                                                                         *)
(* The source answers a read with fewer bytes than were asked for, with    *)
(* Interrupted, or with another error.  An operation on a reader is the    *)
(* set of its outcomes [s |-> the reader afterwards, r |-> the answer];    *)
(* a loop takes one step of the model for each round.                      *)
(***************************************************************************)
EXTENDS Integers, Sequences, SequencesExt, FiniteSets

CONSTANTS Files,      \* what the source may hold: sequences of bytes
          Second,     \* the reader chained behind it, a slice
          BufCap,     \* the length of BufReader's buffer
          I64,        \* the range of i64 is -I64 .. I64 - 1
          MaxFaults,  \* how often the source or the writer may fail
          EmptyReads  \* whether a chain is asked for no bytes at all

ASSUME ReadAssumption == BufCap \in Nat /\ I64 \in Nat \ {0} /\ MaxFaults \in Nat /\ EmptyReads \in BOOLEAN

VARIABLES file,   \* the bytes of the source
          rd,     \* the reader: source position, buffer and adaptor state
          call,   \* the call under way
          faults  \* failures of the source so far

readVars == <<file, rd, call, faults>>

(* Bytes are ASCII letters "a", line ends "n", carriage returns "r" and the
   two halves "h", "t" of a character that takes two bytes. *)
utf8_char_width(b) == CASE b = "h" -> 2 [] b = "t" -> 0 [] OTHER -> 1

(* Valid UTF-8: halves come in pairs. *)
from_utf8(b) == \A i \in 1..Len(b) :
                   /\ b[i] = "h" => i < Len(b) /\ b[i+1] = "t"
                   /\ b[i] = "t" => i > 1 /\ b[i-1] = "h"

Least(a, b) == IF a < b THEN a ELSE b
Ok(b)  == [ok |-> TRUE, b |-> b, e |-> "none"]
Err(e) == [ok |-> FALSE, b |-> <<>>, e |-> e]
Outcome(s, r) == [s |-> s, r |-> r]

(* Cursor::fill_buf: what the source holds from its position on; the
   position may be behind the end. *)
cursor_fill_buf(s) == SubSeq(file, Least(s.ipos, Len(file)) + 1, Len(file))

(* The source's read: a prefix of that, of any length but 0 unless nothing is
   left or nothing is asked for, or an error that moves nothing. *)
inner_read(s, n) ==
  LET rest == cursor_fill_buf(s)
      most == Least(n, Len(rest))
      amts == IF most = 0 THEN {0} ELSE 1..most
  IN {Outcome([s EXCEPT !.ipos = @ + k], Ok(SubSeq(rest, 1, k))) : k \in amts}
     \cup IF faults < MaxFaults THEN {Outcome(s, Err(e)) : e \in {"Interrupted", "Other"}} ELSE {}

(* Cursor::seek.  (A File differs: the kernel takes a place before the beginning
   for 0, and fills the file up with zeros to one past its end; see Files.) *)
inner_seek(s, style, n) ==
  LET pos == CASE style = "Start" -> n
               [] style = "End" -> Len(file) + n
               [] style = "Current" -> s.ipos + n
  IN IF pos < 0 THEN Outcome(s, Err("InvalidInput"))
                ELSE Outcome([s EXCEPT !.ipos = pos], Ok(<<pos>>))

----------------------------------------------------------------------------
(* BufReader: buf[pos+1 .. cap] are the bytes read from the source and not yet
   given out; cap is Len(buf). *)
Buffered(s) == SubSeq(s.buf, s.pos + 1, Len(s.buf))

fill_buf(s) ==
  IF s.pos = Len(s.buf)
  THEN {IF o.r.ok THEN Outcome([o.s EXCEPT !.buf = o.r.b, !.pos = 0], o.r) ELSE o :
          o \in inner_read(s, BufCap)}
  ELSE {Outcome(s, Ok(Buffered(s)))}

consume(s, amt) == [s EXCEPT !.pos = Least(s.pos + amt, Len(s.buf))]

buf_read(s, n) ==
  IF s.pos = Len(s.buf) /\ n >= BufCap
  THEN inner_read(s, n)
  ELSE {IF o.r.ok
        THEN LET nread == Least(n, Len(o.r.b))
             IN Outcome(consume(o.s, nread), Ok(SubSeq(o.r.b, 1, nread)))
        ELSE o : o \in fill_buf(s)}

(* seek: relative to what the caller has seen, so the bytes still buffered are
   subtracted; in two steps if that leaves i64. The buffer is emptied once the
   source has moved. *)
Emptied(s) == [s EXCEPT !.pos = Len(s.buf)]

(* Mutant: a relative seek that forgets what is still buffered. *)
seek_Raw(s, style, n) ==
  LET o == inner_seek(s, style, n) IN IF o.r.ok THEN Outcome(Emptied(o.s), o.r) ELSE o

seek(s, style, n) ==
  LET remainder == Len(s.buf) - s.pos
      once(o) == IF o.r.ok THEN Outcome(Emptied(o.s), o.r) ELSE o
  IN IF style # "Current"
     THEN once(inner_seek(s, style, n))
     ELSE IF n - remainder >= -I64
          THEN once(inner_seek(s, "Current", n - remainder))
          ELSE LET back == inner_seek(s, "Current", -remainder)
               IN IF back.r.ok THEN once(inner_seek(Emptied(back.s), "Current", n)) ELSE back

----------------------------------------------------------------------------
(* Take: no more than limit bytes, and no call of the inner reader at 0. *)
take_read(s, n) ==
  IF s.limit = 0 THEN {Outcome(s, Ok(<<>>))}
  ELSE {IF o.r.ok THEN Outcome([o.s EXCEPT !.limit = @ - Len(o.r.b)], o.r) ELSE o :
          o \in buf_read(s, Least(n, s.limit))}

take_fill_buf(s) ==
  {IF o.r.ok THEN Outcome(o.s, Ok(SubSeq(o.r.b, 1, Least(Len(o.r.b), s.limit)))) ELSE o :
     o \in fill_buf(s)}

take_consume(s, amt) ==
  LET k == Least(amt, s.limit) IN consume([s EXCEPT !.limit = @ - k], k)

(* The read of a slice. *)
slice_read(s, n) ==
  LET k == Least(n, Len(Second) - s.second)
  IN Outcome([s EXCEPT !.second = @ + k], Ok(SubSeq(Second, s.second + 1, s.second + k)))

(* Chain: the first reader until it says 0, then the second. A read of no bytes
   is answered with 0 too. *)
chain_read(s, n) ==
  IF s.done_first THEN {slice_read(s, n)}
  ELSE {IF o.r.ok /\ o.r.b = <<>> THEN slice_read([o.s EXCEPT !.done_first = TRUE], n) ELSE o :
          o \in buf_read(s, n)}

(* The writer behind Tee and copy: write_all takes all, or stops after some of
   the bytes with an error. *)
write_out(s, b) ==
  {Outcome([s EXCEPT !.out = @ \o b], Ok(b))} \cup
  IF faults < MaxFaults
  THEN {Outcome([s EXCEPT !.out = @ \o SubSeq(b, 1, k)], Err("Other")) : k \in 0..Len(b)}
  ELSE {}

tee_read(s, n) ==
  UNION {IF o.r.ok THEN write_out(o.s, o.r.b) ELSE {o} : o \in buf_read(s, n)}

read(s, n) == CASE s.kind = "buf" -> buf_read(s, n)
                [] s.kind = "take" -> take_read(s, n)
                [] s.kind = "chain" -> chain_read(s, n)
                [] s.kind = "tee" -> tee_read(s, n)

----------------------------------------------------------------------------
(* Calls. got: the bytes the call has put into the caller's buffer; from: the
   caller's position when it began; lines: what the iterators have handed out. *)
(* What the caller has seen of the source: its position, not counting what is buffered. *)
Seen(s) == s.ipos - (Len(s.buf) - s.pos)

Resting == [op |-> "idle", last |-> "none", got |-> <<>>, n |-> 0, from |-> 0, res |-> Ok(<<>>), str |-> <<>>,
         lines |-> <<>>]

(* BufReader::with_capacity over a source at its beginning, in an adaptor. *)
with_capacity(kind, limit) ==
  [kind |-> kind, ipos |-> 0, buf |-> <<>>, pos |-> 0,
   limit |-> limit, second |-> 0, done_first |-> FALSE, out |-> <<>>]

ReadInit == /\ file \in Files
            /\ \E kind \in {"buf", "chain", "tee"}, limit \in {0, 2} :
                 rd \in {with_capacity("take", limit), with_capacity(kind, 0)}
            /\ call = Resting
            /\ faults = 0

Faulty(r) == ~r.ok /\ r.e \in {"Interrupted", "Other"}

(* One outcome happens. *)
Take(o, c) == /\ rd' = o.s
              /\ call' = c
              /\ faults' = faults + IF Faulty(o.r) THEN 1 ELSE 0
              /\ UNCHANGED file

Begin(op, n) == [Resting EXCEPT !.op = op, !.n = n, !.from = Seen(rd),
                             !.str = IF op \in {"read_to_string", "read_line", "stdin"} THEN <<"a">> ELSE <<>>]
Return(c, r) == [c EXCEPT !.op = "idle", !.last = IF c.op = "stdin" THEN c.op ELSE "none", !.n = 0, !.res = r]
Got(c, r) == [c EXCEPT !.got = @ \o r.b]

(* The reader with the record of what the last call wrote cleared. *)
Fresh == [rd EXCEPT !.out = <<>>]

(* read, one call. *)
Read(n) ==
  /\ call.op = "idle"
  /\ rd.kind = "chain" /\ n = 0 => EmptyReads
  /\ \E o \in read(Fresh, n) : Take(o, Return(Got(Begin("read", n), o.r), o.r))

(* fill_buf and then consume of amt of the bytes it showed. *)
FillConsume(amt) ==
  /\ call.op = "idle" /\ rd.kind \in {"buf", "take"}
  /\ \E o \in IF rd.kind = "take" THEN take_fill_buf(Fresh) ELSE fill_buf(Fresh) :
       LET k == Least(amt, Len(o.r.b))
           t == IF rd.kind = "take" THEN take_consume(o.s, k) ELSE consume(o.s, k)
       IN Take(IF o.r.ok THEN Outcome(t, o.r) ELSE o,
               Return(Got(Begin("consume", amt), Ok(SubSeq(o.r.b, 1, k))), o.r))

(* Where a seek of the unbuffered source would leave the caller. *)
SeekTarget(style, n, ok) ==
  IF ~ok THEN Seen(rd)
  ELSE CASE style = "Start" -> n [] style = "End" -> Len(file) + n [] style = "Current" -> Seen(rd) + n

Seek(style, n) ==
  /\ call.op = "idle" /\ rd.kind = "buf"
  /\ style = "Start" => n >= 0
  /\ LET o == seek(Fresh, style, n)
     IN /\ o.s.ipos <= Len(file) + 1
        /\ Take(o, [Return(Resting, o.r) EXCEPT !.last = "seek", !.from = SeekTarget(style, n, o.r.ok)])

(* A loop begins. *)
StartLoop(op, n) ==
  /\ call.op = "idle"
  /\ op \in {"read_until", "read_line", "lines"} => rd.kind \in {"buf", "take"}
  /\ op = "stdin" => rd.kind = "buf" /\ rd.buf = <<>>
  /\ call' = Begin(op, n)
  /\ rd' = Fresh
  /\ UNCHANGED <<file, faults>>

(* The guard of append_to_string: the String keeps what was appended only if
   it is UTF-8; the call then fails with InvalidData unless it failed anyway. *)
append_to_string(c, r) ==
  IF from_utf8(c.got) THEN Return([c EXCEPT !.str = @ \o c.got], r)
  ELSE Return(c, IF r.ok THEN Err("InvalidData") ELSE r)

(* A line without its end, \n or \r\n. *)
Chomp(l) ==
  IF l = <<>> \/ Last(l) # "n" THEN l
  ELSE IF Len(l) > 1 /\ l[Len(l) - 1] = "r" THEN SubSeq(l, 1, Len(l) - 2) ELSE SubSeq(l, 1, Len(l) - 1)

(* Lines::next: a call of read_line for every item, the end of line taken off;
   an empty answer ends the iteration. n counts the bytes handed out. *)
lines_next(c, r) ==
  LET l == SubSeq(c.got, c.n + 1, Len(c.got))
  IN IF ~r.ok \/ l = <<>> THEN Return(c, r)
     ELSE IF ~from_utf8(l) THEN Return(c, Err("InvalidData"))
     ELSE [c EXCEPT !.lines = Append(@, Chomp(l)), !.n = Len(c.got)]

Finish(c, r) == IF c.op = "lines" THEN lines_next(c, r) ELSE IF c.op \in {"read_to_string", "read_line"} THEN append_to_string(c, r) ELSE Return(c, r)

(* read_to_end: until 0, trying again after Interrupted; an error leaves what
   was read in the caller's vector. read_to_string runs it inside the guard. *)
read_to_end ==
  /\ call.op \in {"read_to_end", "read_to_string"}
  /\ \E k \in {1, 2} : \E o \in read(rd, k) :
       Take(o, IF o.r.ok THEN IF o.r.b = <<>> THEN Finish(call, Ok(call.got)) ELSE Got(call, o.r)
               ELSE IF o.r.e = "Interrupted" THEN call ELSE Finish(call, o.r))

(* read_exact: until n bytes are there; the end of the source is an error. *)
read_exact ==
  /\ call.op = "read_exact"
  /\ LET left == call.n - Len(call.got)
     IN IF left = 0
        THEN call' = Return(call, Ok(call.got)) /\ UNCHANGED <<file, rd, faults>>
        ELSE \E o \in read(rd, left) :
               Take(o, IF o.r.ok THEN IF o.r.b = <<>> THEN Return(call, Err("UnexpectedEof"))
                                      ELSE Got(call, o.r)
                       ELSE IF o.r.e = "Interrupted" THEN call ELSE Return(call, o.r))

(* read_until a line end: what fill_buf shows is searched, copied and consumed,
   up to and with the delimiter. read_line runs it inside the guard. *)
position(b) == {i \in 1..Len(b) : b[i] = "n"}
FirstOf(S) == CHOOSE i \in S : \A j \in S : i <= j

read_until ==
  /\ call.op \in {"read_until", "read_line", "lines"}
  /\ \E o \in IF rd.kind = "take" THEN take_fill_buf(rd) ELSE fill_buf(rd) :
       LET at   == position(o.r.b)
           used == IF at # {} THEN FirstOf(at) ELSE Len(o.r.b)
           t    == IF rd.kind = "take" THEN take_consume(o.s, used) ELSE consume(o.s, used)
           c    == Got(call, Ok(SubSeq(o.r.b, 1, used)))
       IN IF o.r.ok
          THEN Take(Outcome(t, o.r), IF at # {} \/ used = 0 THEN Finish(c, Ok(c.got)) ELSE c)
          ELSE Take(o, IF o.r.e = "Interrupted" THEN call ELSE Finish(call, o.r))

(* Bytes::next and Chars::next: one byte, then as many as its width says; here
   an interruption ends the call with what was read of the character lost. *)
chars_next ==
  /\ call.op = "chars"
  /\ LET width == IF call.got = <<>> THEN 1 ELSE utf8_char_width(call.got[1])
         done  == call.got # <<>> /\ Len(call.got) >= width
     IN IF done
        THEN /\ call' = Return(call, IF width > 0 /\ from_utf8(call.got) THEN Ok(call.got) ELSE Err("NotUtf8"))
             /\ UNCHANGED <<file, rd, faults>>
        ELSE \E o \in read(rd, width - Len(call.got)) :
               Take(o, IF ~o.r.ok THEN Return(call, o.r)
                       ELSE IF o.r.b # <<>> THEN Got(call, o.r)
                       ELSE Return(call, IF call.got = <<>> THEN Ok(<<>>) ELSE Err("NotUtf8")))

(* Stdin::read_line: bytes straight from the source into the String, one at a
   time, unchecked, and no retry. *)
stdin_read_line ==
  /\ call.op = "stdin" /\ rd.kind = "buf"
  /\ \E o \in inner_read(rd, 1) :
       LET c == [Got(call, o.r) EXCEPT !.str = @ \o o.r.b]
       IN Take(o, IF ~o.r.ok \/ o.r.b \in {<<>>, <<"n">>} THEN Return(c, o.r) ELSE c)

(* copy: read and write_all in turn until the reader says 0. *)
copy ==
  /\ call.op = "copy" /\ rd.kind # "tee"
  /\ \E o \in read(rd, 2) :
       IF ~o.r.ok THEN Take(o, IF o.r.e = "Interrupted" THEN call ELSE Return(call, o.r))
       ELSE IF o.r.b = <<>> THEN Take(o, Return(call, Ok(call.got)))
       ELSE \E w \in write_out(o.s, o.r.b) :
              Take(w, IF w.r.ok THEN Got(call, o.r) ELSE Return(Got(call, o.r), w.r))

----------------------------------------------------------------------------
Loops == {"read_to_end", "read_to_string", "read_exact", "read_until", "read_line", "lines", "chars", "stdin", "copy"}

(* Lengths asked for, and offsets of seek. *)
ReadStep ==
  \/ \E n \in 0..2 : Read(n)
  \/ \E n \in 0..1 : FillConsume(n)
  \/ \E style \in {"Start", "End", "Current"}, n \in -I64 .. 2 : Seek(style, n)
  \/ \E op \in Loops : (op = "copy" => rd.kind # "tee") /\ StartLoop(op, IF op = "read_exact" THEN 3 ELSE 0)
  \/ read_to_end
  \/ read_exact
  \/ read_until
  \/ chars_next
  \/ stdin_read_line
  \/ copy

ReadNext == Len(call.got) <= 9 /\ ReadStep
ReadSpec == ReadInit /\ [][ReadNext]_readVars

----------------------------------------------------------------------------
(* The bytes a sequence holds between two positions. *)
Slice(b, lo, hi) == SubSeq(b, lo + 1, Least(hi, Len(b)))

(* The caller gets the bytes of the source and, in a chain, those of the second
   reader: those from the position at which its call began to the position the
   reader now has, each once and in order, whatever the lengths of the reads and
   of the buffer, the interruptions retried and the seeks before, which move the
   caller's position as if nothing were buffered. A tee whose
   writer fails has read bytes that its caller does not get. *)
NothingSkipped ==
  /\ Buffered(rd) = Slice(file, Seen(rd), rd.ipos)
  /\ call.last = "seek" => Seen(rd) = call.from
  /\ \/ rd.kind = "chain" /\ rd.second > 0
     \/ rd.kind = "tee" /\ ~call.res.ok
     \/ call.got = Slice(file, call.from, Seen(rd))
  /\ rd.kind # "chain" => IsPrefix(rd.out, Slice(file, call.from, Seen(rd)))
  /\ rd.kind = "chain" /\ rd.second > 0 => rd.ipos >= Len(file) /\ Buffered(rd) = <<>>

(* What lines should yield for the bytes b: what stands between line ends,
   without a carriage return before the line end, and a last piece that has no
   line end if it is not empty. *)
LinesOf(b) ==
  LET ends == SetToSortSeq(position(b), <)
      from(i) == IF i = 1 THEN 1 ELSE ends[i - 1] + 1
      upto(i) == IF ends[i] > from(i) /\ b[ends[i] - 1] = "r" THEN ends[i] - 2 ELSE ends[i] - 1
      rest == SubSeq(b, from(Len(ends) + 1), Len(b))
  IN [i \in 1..Len(ends) |-> SubSeq(b, from(i), upto(i))] \o IF rest = <<>> THEN <<>> ELSE <<rest>>

(* A String that was read into, but for Stdin::read_line, is UTF-8 and has lost nothing of what it held,
   and a call that succeeds has appended exactly what it took from the reader;
   the lines handed out are those of the source, however the buffer cuts them. *)
TextIntact ==
  /\ call.str # <<>> =>
       /\ "stdin" \in {call.op, call.last} \/ from_utf8(call.str)
       /\ call.str[1] = "a"
       /\ call.op = "idle" /\ (call.res.ok \/ call.last = "stdin") => call.str = <<"a">> \o call.got
  /\ call.lines # <<>> =>
       IF call.op = "lines" THEN call.lines = LinesOf(SubSeq(call.got, 1, call.n))
                            ELSE call.res.ok => call.lines = LinesOf(call.got)

============================================================================
