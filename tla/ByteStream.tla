----------------------------- MODULE ByteStream -----------------------------
(***************************************************************************)
(* What a pipe promises: one stream of bytes.  Bytes are delivered in the  *)
(* order in which they were written, each once; when the last write end is *)
(* gone nothing more is written, and when the last read end is gone what   *)
(* was in flight is lost and nothing more is accepted.                     *)
(***************************************************************************)
EXTENDS Integers, Sequences

CONSTANT Byte

VARIABLES inflight,   \* bytes written and not yet delivered
          delivered,  \* bytes delivered
          writable,   \* there is a write end
          readable    \* there is a read end

streamVars == <<inflight, delivered, writable, readable>>

StreamInit == inflight = <<>> /\ delivered = <<>>
              /\ writable = TRUE /\ readable = TRUE

(* A write appends its bytes, in order.                                      *)
Send ==
  /\ writable /\ readable
  /\ inflight' \in Seq(Byte) /\ Len(inflight') >= Len(inflight)
  /\ SubSeq(inflight', 1, Len(inflight)) = inflight
  /\ UNCHANGED <<delivered, writable, readable>>

(* A read takes bytes from the front.                                        *)
Deliver(k) ==
  /\ readable
  /\ delivered' = delivered \o SubSeq(inflight, 1, k)
  /\ inflight' = SubSeq(inflight, k + 1, Len(inflight))
  /\ UNCHANGED <<writable, readable>>

(* Ends are never opened again.                                              *)
Shut ==
  /\ writable' => writable
  /\ readable' => readable
  /\ inflight' = IF readable' THEN inflight ELSE <<>>
  /\ UNCHANGED delivered

StreamNext ==
  \/ Send
  \/ \E k \in 1..Len(inflight) : Deliver(k)
  \/ Shut

StreamSpec == StreamInit /\ [][StreamNext]_streamVars
=============================================================================
