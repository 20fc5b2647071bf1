--------------------------- MODULE NetworkProofs ---------------------------
(***************************************************************************)
(* Proofs about the network schemes, Tcp and Inet, for every value of      *)
(* their constants.                                                        *)
(***************************************************************************)
EXTENDS Tcp, Inet, TLAPS

(***************************************************************************)
(* Tcp, for any number of writes, losses, strays and openings.             *)
(* Between two ends that are connected there is never more under way than  *)
(* there are ends in the middle of a write; so an acknowledgement that an  *)
(* end meets in a write is that of this write, although the code compares  *)
(* no sequence number.  The rest is how a connection comes to begin with   *)
(* nothing under way, whatever earlier ones left behind.                   *)
(***************************************************************************)

States == {"closed", "syn_sent", "listen", "syn_rcvd", "open", "reading", "writing"}
Up == {"open", "reading", "writing"}

S == {"S"}
SA == {"S", "A"}
A == {"A"}
PA == {"P", "A"}
FA == {"F", "A"}

U == 0..(U32 - 1)
End == [at : States, seq : U, ack : U]
Seg == [flags : {S, SA, A, PA, FA}, seq : U, ack : U, chunk : Nat, len : Nat, mine : BOOLEAN]
Outcome == {"pending", "ok", "fin", "EPIPE"}

(* Types; an end that writes has a write without an outcome.                 *)
TcpTypes ==
  /\ end \in [Ends -> End]
  /\ net \in [Ends -> Seq(Seg)]
  /\ wrote \in [Ends -> Seq(Outcome)]
  /\ taken \in [Ends -> Seq(Nat)]
  /\ \A e \in Ends : end[e].at = "writing" => wrote[e] # <<>>

----------------------------------------------------------------------------
(* What is under way, n, to an end: the segments of the connection in it.    *)
Mine(n) == {p \in 1..Len(n) : n[p].mine}

Quiet(n) == Mine(n) = {}
Only(n, F) == \A p \in Mine(n) : n[p].flags \in F
AtMostOne(n) == \A p, q \in Mine(n) : p = q
AtMostTwo(n) == \A p, q, r \in Mine(n) : ~ (p < q /\ q < r)
(* Segments of kind f come before all others, and there is only one.         *)
OnlyFirst(n, f) == \A p, q \in Mine(n) : p < q => n[q].flags # f
OnlyLast(n, f) == \A p, q \in Mine(n) : p < q => n[p].flags # f
None(n, f) == \A p \in Mine(n) : n[p].flags # f
(* The last segment, if it is data, is chunk k.                              *)
LastIs(n, k) == \A p \in Mine(n) : (n[p].flags = PA /\ \A q \in Mine(n) : q <= p) => n[p].chunk = k
(* Data comes in the order of its chunks, after those in t.                  *)
Rising(n, t) ==
  \A p \in Mine(n) : n[p].flags = PA =>
    /\ \A i \in 1..Len(t) : t[i] < n[p].chunk
    /\ \A q \in Mine(n) : n[q].flags = PA /\ p < q => n[p].chunk < n[q].chunk
Below(n, k) == \A p \in Mine(n) : n[p].flags = PA => n[p].chunk \in 1..k
Has(t, k) == \E i \in 1..Len(t) : t[i] = k

----------------------------------------------------------------------------
(* The handshake: the client is at c with nc under way to it, the server at  *)
(* s with ns.  A server that waits for a SYN meets it as the last segment    *)
(* under way; one that has answered meets what one client sent since.        *)
Handshake(c, nc, s, ns) ==
  /\ c \in {"closed", "syn_sent"} \cup Up
  /\ s \in {"closed", "listen", "syn_rcvd"} \cup Up
  /\ s = "listen" /\ ~ None(ns, S) => c = "syn_sent" /\ OnlyLast(ns, S) /\ Quiet(nc)
  /\ ~ None(nc, SA) => c = "syn_sent" /\ s = "syn_rcvd" /\ AtMostOne(nc) /\ Quiet(ns)
  /\ s = "syn_rcvd" => /\ Only(nc, {SA})
                       /\ OnlyFirst(ns, A)
                       /\ c \notin Up => Only(ns, {A, FA, S})
                       /\ c \in Up => Only(ns, {A, PA}) /\ OnlyLast(ns, PA)
                       /\ c \in Up /\ c # "writing" => None(ns, PA)

(* An end at x, with n under way to it, connected to one at y with m under   *)
(* way: there is at most one segment for each of them that writes.           *)
BothUp(x, n, y, m) ==
  /\ Only(n, {A, PA})
  /\ x # "writing" /\ y # "writing" => Quiet(n)
  /\ x # "writing" \/ y # "writing" => AtMostOne(n) /\ (Quiet(n) \/ Quiet(m))
  /\ AtMostTwo(n)
  /\ AtMostOne(n) \/ Quiet(m)

(* An end that the other one has left.                                       *)
Alone(x, n) == OnlyFirst(n, PA) /\ (x # "writing" => None(n, PA))

(* An acknowledgement under way to an end whose writes are w finds a write   *)
(* that waits for it, and that the other end has read into t.                *)
Acked(x, n, w, y, m, t) ==
  /\ x = "writing" /\ OnlyFirst(n, A)
  /\ y \in Up => Quiet(m)
  /\ Has(t, Len(w))

(* The data under way in m, sent by the end at x.                            *)
Data(x, w, y, m, t) ==
  /\ Rising(m, t) /\ Below(m, Len(w))
  /\ x = "writing" /\ y \in Up \cup {"syn_rcvd"} => LastIs(m, Len(w))

(* AckedWasRead, for the writes w of one end and what the other one read.    *)
Sound(w, t) ==
  /\ \A i, j \in 1..Len(t) : i < j => t[i] < t[j]
  /\ \A i \in 1..Len(t) : t[i] \in 1..Len(w)
  /\ \A k \in 1..Len(w) : w[k] = "ok" => Has(t, k)

(* One end and what it has sent to the other.                                *)
Link(x, n, w, y, m, t) ==
  /\ x \in Up /\ y \in Up => BothUp(x, n, y, m)
  /\ x \in Up /\ y \notin Up \cup {"syn_rcvd"} => Alone(x, n)
  /\ x \in Up /\ ~ None(n, A) => Acked(x, n, w, y, m, t)
  /\ Data(x, w, y, m, t)
  /\ Sound(w, t)

Links == \A e \in Ends : Link(end[e].at, net[e], wrote[e], end[Other(e)].at, net[Other(e)], taken[Other(e)])

NInv == TcpTypes /\ Handshake(end["client"].at, net["client"], end["server"].at, net["server"]) /\ Links

----------------------------------------------------------------------------
(* The five kinds of segment are different, and what the loops see of them.  *)
LEMMA Flags ==
  /\ S # SA /\ S # A /\ S # PA /\ S # FA /\ SA # A /\ SA # PA /\ SA # FA
  /\ A # PA /\ A # FA /\ PA # FA
  /\ S \ {"F"} = S /\ SA \ {"F"} = SA /\ A \ {"F"} = A /\ PA \ {"F"} = PA /\ FA \ {"F"} = A
  /\ "F" \notin A /\ "F" \in FA
<1>1. "S" \in S /\ "S" \in SA /\ "S" \notin A /\ "S" \notin PA /\ "S" \notin FA
  BY DEF S, SA, A, PA, FA
<1>2. "A" \notin S /\ "A" \in SA /\ "A" \in A /\ "A" \in PA /\ "A" \in FA
  BY DEF S, SA, A, PA, FA
<1>3. "P" \notin SA /\ "P" \notin A /\ "P" \in PA /\ "P" \notin FA
  BY DEF S, SA, A, PA, FA
<1>4. "F" \notin S /\ "F" \notin SA /\ "F" \notin A /\ "F" \notin PA /\ "F" \in FA
  BY DEF S, SA, A, PA, FA
<1>5. S \ {"F"} = S /\ SA \ {"F"} = SA /\ A \ {"F"} = A /\ PA \ {"F"} = PA /\ FA \ {"F"} = A
  BY DEF S, SA, A, PA, FA
<1> QED
  BY <1>1, <1>2, <1>3, <1>4, <1>5

(* m is n with nothing of the connection added, and at most its head taken:  *)
(* the segments of m are those of n, d places further on.                    *)
Shifted(m, n, d) ==
  /\ \A p \in Mine(m) : p + d \in Mine(n) /\ m[p].flags = n[p + d].flags
                        /\ m[p].chunk = n[p + d].chunk
  /\ \A p \in Mine(n) : p > d => p - d \in Mine(m)

(* What is said of n is then true of m.                                      *)
LEMMA ShiftedKeeps ==
  ASSUME NEW m \in Seq(Seg), NEW n \in Seq(Seg), NEW d \in {0, 1}, Shifted(m, n, d)
  PROVE  /\ Quiet(n) => Quiet(m)
         /\ AtMostOne(n) => AtMostOne(m)
         /\ AtMostTwo(n) => AtMostTwo(m)
         /\ \A F : Only(n, F) => Only(m, F)
         /\ \A f : OnlyFirst(n, f) => OnlyFirst(m, f)
         /\ \A f : OnlyLast(n, f) => OnlyLast(m, f)
         /\ \A f : None(n, f) => None(m, f)
         /\ \A k : LastIs(n, k) => LastIs(m, k)
         /\ \A t : Rising(n, t) => Rising(m, t)
         /\ \A k : Below(n, k) => Below(m, k)
<1>0. Mine(m) \subseteq Nat /\ Mine(n) \subseteq Nat
  BY DEF Mine
<1>1. \A p \in Mine(m) : p + d \in Mine(n) /\ m[p].flags = n[p + d].flags /\ m[p].chunk = n[p + d].chunk
  BY DEF Shifted
<1>2. Quiet(n) => Quiet(m)
  BY <1>1 DEF Quiet
<1>3. AtMostOne(n) => AtMostOne(m)
  BY <1>0, <1>1 DEF AtMostOne
<1>4. AtMostTwo(n) => AtMostTwo(m)
  <2> SUFFICES ASSUME AtMostTwo(n), NEW p \in Mine(m), NEW q \in Mine(m), NEW r \in Mine(m), p < q, q < r
               PROVE FALSE
    BY DEF AtMostTwo
  <2>1. p + d \in Mine(n) /\ q + d \in Mine(n) /\ r + d \in Mine(n)
    BY <1>1
  <2>2. p + d < q + d /\ q + d < r + d
    BY <1>0
  <2> QED
    BY <2>1, <2>2 DEF AtMostTwo
<1>5. \A F : Only(n, F) => Only(m, F)
  BY <1>1 DEF Only
<1>6. \A f : OnlyFirst(n, f) => OnlyFirst(m, f)
  <2> SUFFICES ASSUME NEW f, OnlyFirst(n, f), NEW p \in Mine(m), NEW q \in Mine(m), p < q
               PROVE m[q].flags # f
    BY DEF OnlyFirst
  <2> QED
    BY <1>0, <1>1 DEF OnlyFirst
<1>7. \A f : OnlyLast(n, f) => OnlyLast(m, f)
  <2> SUFFICES ASSUME NEW f, OnlyLast(n, f), NEW p \in Mine(m), NEW q \in Mine(m), p < q
               PROVE m[p].flags # f
    BY DEF OnlyLast
  <2> QED
    BY <1>0, <1>1 DEF OnlyLast
<1>8. \A f : None(n, f) => None(m, f)
  BY <1>1 DEF None
<1>9. \A k : LastIs(n, k) => LastIs(m, k)
  <2> SUFFICES ASSUME NEW k, LastIs(n, k), NEW p \in Mine(m), m[p].flags = PA, \A q \in Mine(m) : q <= p
               PROVE m[p].chunk = k
    BY DEF LastIs
  <2>1. \A q \in Mine(n) : q <= p + d
    BY <1>0 DEF Shifted
  <2> QED
    BY <1>1, <2>1 DEF LastIs
<1>10. \A t : Rising(n, t) => Rising(m, t)
  <2> SUFFICES ASSUME NEW t, Rising(n, t), NEW p \in Mine(m), m[p].flags = PA
               PROVE /\ \A i \in 1..Len(t) : t[i] < m[p].chunk
                     /\ \A q \in Mine(m) : m[q].flags = PA /\ p < q => m[p].chunk < m[q].chunk
    BY DEF Rising
  <2>1. p + d \in Mine(n) /\ n[p + d].flags = PA /\ m[p].chunk = n[p + d].chunk
    BY <1>1
  <2>2. \A i \in 1..Len(t) : t[i] < m[p].chunk
    BY <2>1 DEF Rising
  <2>3. ASSUME NEW q \in Mine(m), m[q].flags = PA, p < q
        PROVE m[p].chunk < m[q].chunk
    <3>1. q + d \in Mine(n) /\ n[q + d].flags = PA /\ m[q].chunk = n[q + d].chunk /\ p + d < q + d
      BY <1>0, <1>1, <2>3
    <3> QED
      BY <2>1, <3>1 DEF Rising
  <2> QED
    BY <2>2, <2>3
<1>11. \A k : Below(n, k) => Below(m, k)
  BY <1>1 DEF Below
<1> QED
  BY <1>2, <1>3, <1>4, <1>5, <1>6, <1>7, <1>8, <1>9, <1>10, <1>11

(* A queue of which the head was taken, or to which a stray was added.       *)
LEMMA TailShifts ==
  ASSUME NEW n \in Seq(Seg), n # <<>>
  PROVE  /\ Tail(n) \in Seq(Seg) /\ Head(n) \in Seg /\ Head(n) = n[1]
         /\ Shifted(Tail(n), n, 1)
<1>1. /\ Tail(n) \in Seq(Seg) /\ Head(n) \in Seg /\ Head(n) = n[1]
      /\ Len(Tail(n)) = Len(n) - 1 /\ Len(n) \in Nat \ {0}
      /\ \A p \in 1..Len(Tail(n)) : Tail(n)[p] = n[p + 1]
  OBVIOUS
<1>2. \A p : p \in Mine(Tail(n)) => p + 1 \in Mine(n) /\ Tail(n)[p] = n[p + 1]
  BY <1>1 DEF Mine
<1>3. \A p \in Mine(n) : p > 1 => p - 1 \in Mine(Tail(n))
  BY <1>1 DEF Mine
<1> QED
  BY <1>1, <1>2, <1>3 DEF Shifted

(* A stray is no segment of the connection.                                  *)
LEMMA StrayShifts ==
  ASSUME NEW n \in Seq(Seg), NEW g \in Seg, ~ g.mine
  PROVE  Append(n, g) \in Seq(Seg) /\ Shifted(Append(n, g), n, 0)
<1>1. /\ Append(n, g) \in Seq(Seg) /\ Len(Append(n, g)) = Len(n) + 1 /\ Len(n) \in Nat
      /\ Append(n, g)[Len(n) + 1] = g
      /\ \A p \in 1..Len(n) : Append(n, g)[p] = n[p]
  OBVIOUS
<1>2. \A p : p \in Mine(Append(n, g)) <=> p \in Mine(n)
  BY <1>1 DEF Mine
<1>3. \A p \in Mine(n) : Append(n, g)[p] = n[p] /\ p \in Nat
  BY <1>1 DEF Mine
<1> DEFINE m == Append(n, g)
<1>4. \A p \in Mine(m) : p + 0 \in Mine(n) /\ m[p].flags = n[p + 0].flags /\ m[p].chunk = n[p + 0].chunk
  <2> SUFFICES ASSUME NEW p \in Mine(m)
               PROVE p + 0 \in Mine(n) /\ m[p].flags = n[p + 0].flags /\ m[p].chunk = n[p + 0].chunk
    OBVIOUS
  <2>1. p \in Mine(n) /\ m[p] = n[p] /\ p \in Nat
    BY <1>2, <1>3
  <2>2. p + 0 = p
    BY <2>1
  <2> HIDE DEF m
  <2> QED
    BY <2>1, <2>2
<1>5. \A p \in Mine(n) : p > 0 => p - 0 \in Mine(m)
  BY <1>2, <1>3
<1> QED
  BY <1>1, <1>4, <1>5 DEF Shifted

(* The head is taken, and it is a segment of the connection.                 *)
LEMMA HeadTaken ==
  ASSUME NEW n \in Seq(Seg), n # <<>>, Head(n).mine
  PROVE  /\ ~ Quiet(n)
         /\ AtMostOne(n) => Quiet(Tail(n))
         /\ AtMostTwo(n) => AtMostOne(Tail(n))
         /\ \A F : Only(n, F) => Head(n).flags \in F
         /\ \A f : None(n, f) => Head(n).flags # f
         /\ \A f : OnlyFirst(n, f) => None(Tail(n), f)
         /\ \A f : OnlyLast(n, f) /\ Head(n).flags = f => Quiet(Tail(n))
         /\ \A k : AtMostOne(n) /\ LastIs(n, k) /\ Head(n).flags = PA => Head(n).chunk = k
         /\ \A k : Below(n, k) /\ Head(n).flags = PA => Head(n).chunk \in 1..k
<1>1. /\ Tail(n) \in Seq(Seg) /\ Head(n) = n[1]
      /\ Len(Tail(n)) = Len(n) - 1 /\ Len(n) \in Nat \ {0}
      /\ \A p \in 1..Len(Tail(n)) : Tail(n)[p] = n[p + 1]
  OBVIOUS
<1>2. 1 \in Mine(n)
  BY <1>1 DEF Mine
<1>3. \A p \in Mine(Tail(n)) : p \in Nat /\ 1 < p + 1 /\ p + 1 \in Mine(n) /\ Tail(n)[p] = n[p + 1]
  BY <1>1 DEF Mine
<1>4. ~ Quiet(n)
  BY <1>2 DEF Quiet
<1>5. AtMostOne(n) => Quiet(Tail(n))
  BY <1>2, <1>3 DEF AtMostOne, Quiet
<1>6. AtMostTwo(n) => AtMostOne(Tail(n))
  <2> SUFFICES ASSUME AtMostTwo(n), NEW p \in Mine(Tail(n)), NEW q \in Mine(Tail(n)), p < q
               PROVE FALSE
    BY <1>3 DEF AtMostOne
  <2>1. 1 < p + 1 /\ p + 1 < q + 1 /\ p + 1 \in Mine(n) /\ q + 1 \in Mine(n)
    BY <1>3
  <2> QED
    BY <1>2, <2>1 DEF AtMostTwo
<1>7. \A F : Only(n, F) => Head(n).flags \in F
  BY <1>1, <1>2 DEF Only
<1>8. \A f : None(n, f) => Head(n).flags # f
  BY <1>1, <1>2 DEF None
<1>9. \A f : OnlyFirst(n, f) => None(Tail(n), f)
  BY <1>1, <1>2, <1>3 DEF OnlyFirst, None
<1>10. \A f : OnlyLast(n, f) /\ Head(n).flags = f => Quiet(Tail(n))
  BY <1>1, <1>2, <1>3 DEF OnlyLast, Quiet
<1>11. \A k : AtMostOne(n) /\ LastIs(n, k) /\ Head(n).flags = PA => Head(n).chunk = k
  <2> SUFFICES ASSUME NEW k, AtMostOne(n), LastIs(n, k), Head(n).flags = PA
               PROVE Head(n).chunk = k
    OBVIOUS
  <2>1. \A q \in Mine(n) : q <= 1
    BY <1>2 DEF AtMostOne
  <2> QED
    BY <1>1, <1>2, <2>1 DEF LastIs
<1>12. \A k : Below(n, k) /\ Head(n).flags = PA => Head(n).chunk \in 1..k
  BY <1>1, <1>2 DEF Below
<1> QED
  BY <1>4, <1>5, <1>6, <1>7, <1>8, <1>9, <1>10, <1>11, <1>12

(* The head is data, and it is read.                                         *)
LEMMA HeadRead ==
  ASSUME NEW n \in Seq(Seg), n # <<>>, Head(n).mine, Head(n).flags = PA,
         NEW t \in Seq(Nat), Rising(n, t)
  PROVE  /\ \A i \in 1..Len(t) : t[i] < Head(n).chunk
         /\ Rising(Tail(n), Append(t, Head(n).chunk))
<1> DEFINE m == Tail(n)
           k == Head(n).chunk
           u == Append(t, k)
<1>1. /\ m \in Seq(Seg) /\ Head(n) = n[1] /\ Head(n) \in Seg
      /\ Len(m) = Len(n) - 1 /\ Len(n) \in Nat \ {0}
      /\ \A p \in 1..Len(m) : m[p] = n[p + 1]
  OBVIOUS
<1>2. 1 \in Mine(n)
  BY <1>1 DEF Mine
<1>3. \A p \in Mine(m) : p \in Nat /\ 1 < p + 1 /\ p + 1 \in Mine(n) /\ m[p] = n[p + 1]
  BY <1>1 DEF Mine
<1>4. \A i \in 1..Len(t) : t[i] < k
  BY <1>1, <1>2 DEF Rising
<1>5. k \in Nat
  BY <1>1 DEF Seg
<1>6. /\ Len(u) = Len(t) + 1 /\ Len(t) \in Nat
      /\ u[Len(t) + 1] = k
      /\ \A i \in 1..Len(t) : u[i] = t[i]
  BY <1>5
<1>6a. n[1].flags = PA /\ n[1].chunk = k
  BY <1>1
<1> HIDE DEF m, k, u
<1>7. ASSUME NEW p \in Mine(m), m[p].flags = PA
      PROVE /\ \A i \in 1..Len(u) : u[i] < m[p].chunk
            /\ \A q \in Mine(m) : m[q].flags = PA /\ p < q => m[p].chunk < m[q].chunk
  <2>1. p \in Nat /\ 1 < p + 1 /\ p + 1 \in Mine(n) /\ n[p + 1].flags = PA /\ m[p] = n[p + 1]
    BY <1>3, <1>7
  <2>2. k < m[p].chunk /\ \A i \in 1..Len(t) : t[i] < m[p].chunk
    BY <1>2, <1>6a, <2>1 DEF Rising
  <2>3. ASSUME NEW q \in Mine(m), m[q].flags = PA, p < q
        PROVE m[p].chunk < m[q].chunk
    <3>1. q \in Nat /\ q + 1 \in Mine(n) /\ n[q + 1].flags = PA /\ m[q] = n[q + 1]
      BY <1>3, <2>3
    <3>2. p + 1 < q + 1
      BY <2>1, <3>1, <2>3
    <3> QED
      BY <2>1, <3>1, <3>2 DEF Rising
  <2>4. \A i \in 1..Len(u) : u[i] < m[p].chunk
    BY <1>6, <2>2
  <2> QED
    BY <2>3, <2>4
<1>8. Rising(m, u)
  BY <1>7 DEF Rising
<1> QED
  BY <1>4, <1>8 DEF m, k, u

(* A segment of the connection is sent.                                      *)
LEMMA Sent ==
  ASSUME NEW n \in Seq(Seg), NEW g \in Seg, g.mine
  PROVE  /\ Append(n, g) \in Seq(Seg)
         /\ Quiet(n) => AtMostOne(Append(n, g))
         /\ AtMostOne(n) => AtMostTwo(Append(n, g))
         /\ \A F : Only(n, F) /\ g.flags \in F => Only(Append(n, g), F)
         /\ \A f : OnlyFirst(n, f) /\ g.flags # f => OnlyFirst(Append(n, g), f)
         /\ \A f : Quiet(n) => OnlyFirst(Append(n, g), f)
         /\ \A f : None(n, f) => OnlyLast(Append(n, g), f)
         /\ \A f : None(n, f) /\ g.flags # f => None(Append(n, g), f)
         /\ g.flags = PA => LastIs(Append(n, g), g.chunk)
         /\ \A k : g.flags # PA => LastIs(Append(n, g), k)
         /\ \A t : Rising(n, t) /\ g.flags # PA => Rising(Append(n, g), t)
         /\ \A k : Below(n, k) /\ (g.flags = PA => g.chunk \in 1..k) => Below(Append(n, g), k)
<1> DEFINE m == Append(n, g)
<1>1. /\ m \in Seq(Seg) /\ Len(m) = Len(n) + 1 /\ Len(n) \in Nat
      /\ m[Len(n) + 1] = g
      /\ \A p \in 1..Len(n) : m[p] = n[p]
  OBVIOUS
<1>2. \A p \in Mine(m) : p = Len(n) + 1 \/ p \in Mine(n)
  BY <1>1 DEF Mine
<1>3. \A p \in Mine(n) : m[p] = n[p] /\ p \in Nat /\ p < Len(n) + 1 /\ p \in Mine(m)
  BY <1>1 DEF Mine
<1>4. Len(n) + 1 \in Mine(m)
  BY <1>1 DEF Mine
<1> HIDE DEF m
<1>5. Quiet(n) => AtMostOne(m)
  BY <1>2 DEF Quiet, AtMostOne
<1>6. AtMostOne(n) => AtMostTwo(m)
  <2> SUFFICES ASSUME AtMostOne(n), NEW p \in Mine(m), NEW q \in Mine(m), NEW r \in Mine(m), p < q, q < r
               PROVE FALSE
    BY DEF AtMostTwo
  <2>1. r = Len(n) + 1 \/ r \in Mine(n)
    BY <1>2
  <2>2. p \in Mine(n) /\ q \in Mine(n)
    BY <1>1, <1>2, <1>3, <2>1
  <2> QED
    BY <1>3, <2>2 DEF AtMostOne
<1>7. \A F : Only(n, F) /\ g.flags \in F => Only(m, F)
  BY <1>1, <1>2, <1>3 DEF Only
<1>8. \A f : OnlyFirst(n, f) /\ g.flags # f => OnlyFirst(m, f)
  <2> SUFFICES ASSUME NEW f, OnlyFirst(n, f), g.flags # f, NEW p \in Mine(m), NEW q \in Mine(m), p < q
               PROVE m[q].flags # f
    BY DEF OnlyFirst
  <2>1. CASE q = Len(n) + 1
    BY <1>1, <2>1
  <2>2. CASE q \in Mine(n)
    <3>1. p \in Mine(n)
      BY <1>1, <1>2, <1>3, <2>2
    <3> QED
      BY <1>3, <2>2, <3>1 DEF OnlyFirst
  <2> QED
    BY <1>2, <2>1, <2>2
<1>9. \A f : Quiet(n) => OnlyFirst(m, f)
  BY <1>1, <1>2 DEF Quiet, OnlyFirst
<1>10. \A f : None(n, f) => OnlyLast(m, f)
  <2> SUFFICES ASSUME NEW f, None(n, f), NEW p \in Mine(m), NEW q \in Mine(m), p < q
               PROVE m[p].flags # f
    BY DEF OnlyLast
  <2>1. p \in Mine(n)
    BY <1>1, <1>2, <1>3
  <2> QED
    BY <1>3, <2>1 DEF None
<1>11. \A f : None(n, f) /\ g.flags # f => None(m, f)
  BY <1>1, <1>2, <1>3 DEF None
<1>12. g.flags = PA => LastIs(m, g.chunk)
  <2> SUFFICES ASSUME NEW p \in Mine(m), \A q \in Mine(m) : q <= p
               PROVE m[p].chunk = g.chunk
    BY DEF LastIs
  <2>1. p = Len(n) + 1
    BY <1>1, <1>2, <1>3, <1>4
  <2> QED
    BY <1>1, <2>1
<1>13. \A k : g.flags # PA => LastIs(m, k)
  <2> SUFFICES ASSUME NEW k, NEW p \in Mine(m), \A q \in Mine(m) : q <= p, g.flags # PA, m[p].flags = PA
               PROVE FALSE
    BY DEF LastIs
  <2>1. p = Len(n) + 1
    BY <1>1, <1>2, <1>3, <1>4
  <2> QED
    BY <1>1, <2>1
<1>14. \A t : Rising(n, t) /\ g.flags # PA => Rising(m, t)
  <2> SUFFICES ASSUME NEW t, Rising(n, t), g.flags # PA, NEW p \in Mine(m), m[p].flags = PA
               PROVE /\ \A i \in 1..Len(t) : t[i] < m[p].chunk
                     /\ \A q \in Mine(m) : m[q].flags = PA /\ p < q => m[p].chunk < m[q].chunk
    BY DEF Rising
  <2>1. \A q \in Mine(m) : m[q].flags = PA => q \in Mine(n) /\ m[q] = n[q]
    BY <1>1, <1>2, <1>3
  <2> QED
    BY <2>1 DEF Rising
<1>15. \A k : Below(n, k) /\ (g.flags = PA => g.chunk \in 1..k) => Below(m, k)
  BY <1>1, <1>2, <1>3 DEF Below
<1> QED
  BY <1>1, <1>5, <1>6, <1>7, <1>8, <1>9, <1>10, <1>11, <1>12, <1>13, <1>14, <1>15 DEF m

(* Data is sent that is newer than all before it.                            *)
LEMMA NewSent ==
  ASSUME NEW n \in Seq(Seg), NEW g \in Seg, g.mine, NEW t \in Seq(Nat), NEW k \in Nat,
         Rising(n, t), Below(n, k), \A i \in 1..Len(t) : t[i] \in 1..k, g.chunk = k + 1
  PROVE  Rising(Append(n, g), t) /\ Below(Append(n, g), k + 1)
<1> DEFINE m == Append(n, g)
<1>1. /\ Len(m) = Len(n) + 1 /\ Len(n) \in Nat
      /\ m[Len(n) + 1] = g
      /\ \A p \in 1..Len(n) : m[p] = n[p]
  OBVIOUS
<1>2. \A p \in Mine(m) : p = Len(n) + 1 \/ (p \in Mine(n) /\ m[p] = n[p] /\ p \in Nat /\ p < Len(n) + 1)
  BY <1>1 DEF Mine
<1> HIDE DEF m
<1>3. Below(m, k + 1)
  BY <1>1, <1>2 DEF Below
<1>4. ASSUME NEW p \in Mine(m), m[p].flags = PA
      PROVE /\ \A i \in 1..Len(t) : t[i] < m[p].chunk
            /\ \A q \in Mine(m) : m[q].flags = PA /\ p < q => m[p].chunk < m[q].chunk
  <2>1. CASE p = Len(n) + 1
    <3>1. m[p].chunk = k + 1
      BY <1>1, <2>1
    <3>2. \A q \in Mine(m) : ~ p < q
      BY <1>1, <1>2, <2>1
    <3> QED
      BY <3>1, <3>2
  <2>2. CASE p \in Mine(n) /\ m[p] = n[p]
    <3>1. \A i \in 1..Len(t) : t[i] < m[p].chunk
      BY <1>4, <2>2 DEF Rising
    <3>2. m[p].chunk < k + 1
      BY <1>4, <2>2 DEF Below
    <3>3. \A q \in Mine(n) : n[q].flags = PA /\ p < q => n[p].chunk < n[q].chunk
      BY <1>4, <2>2 DEF Rising
    <3>4. ASSUME NEW q \in Mine(m), m[q].flags = PA, p < q
          PROVE m[p].chunk < m[q].chunk
      BY <1>1, <1>2, <2>2, <3>2, <3>3, <3>4
    <3> QED
      BY <3>1, <3>4
  <2> QED
    BY <1>2, <2>1, <2>2
<1> QED
  BY <1>3, <1>4 DEF m, Rising

(* Nothing is under way after an opening.                                    *)
LEMMA NothingSent ==
  /\ <<>> \in Seq(Seg) /\ Quiet(<<>>) /\ AtMostOne(<<>>) /\ AtMostTwo(<<>>)
  /\ \A F : Only(<<>>, F)
  /\ \A f : OnlyFirst(<<>>, f) /\ OnlyLast(<<>>, f) /\ None(<<>>, f)
  /\ \A k : LastIs(<<>>, k) /\ Below(<<>>, k)
  /\ \A t : Rising(<<>>, t)
<1>1. Mine(<<>>) = {}
  BY DEF Mine
<1> QED
  BY <1>1 DEF Quiet, AtMostOne, AtMostTwo, Only, OnlyFirst, OnlyLast, None, LastIs, Below, Rising

(* One segment is the first and the last; with an acknowledgement first and  *)
(* data last there are two at most; with nothing else in it there is none.   *)
LEMMA FewHave ==
  ASSUME NEW n \in Seq(Seg)
  PROVE  /\ \A f : AtMostOne(n) => OnlyFirst(n, f) /\ OnlyLast(n, f)
         /\ \A f : Only(n, {f}) /\ None(n, f) => Quiet(n)
         /\ \A f : None(n, f) => OnlyFirst(n, f) /\ OnlyLast(n, f)
         /\ \A F, f : Only(n, F) /\ f \notin F => None(n, f)
         /\ None(n, A) /\ None(n, PA) /\ Only(n, {A, PA}) => Quiet(n)
         /\ n # <<>> /\ Head(n).mine /\ Only(n, {A, PA}) /\ OnlyFirst(n, A) /\ OnlyLast(n, PA)
              => AtMostOne(Tail(n))
<1>1. /\ \A f : AtMostOne(n) => OnlyFirst(n, f) /\ OnlyLast(n, f)
      /\ \A f : Only(n, {f}) /\ None(n, f) => Quiet(n)
      /\ \A f : None(n, f) => OnlyFirst(n, f) /\ OnlyLast(n, f)
      /\ \A F, f : Only(n, F) /\ f \notin F => None(n, f)
      /\ None(n, A) /\ None(n, PA) /\ Only(n, {A, PA}) => Quiet(n)
  <2>1. \A p \in Mine(n) : p \in Nat
    BY DEF Mine
  <2>2. \A f : AtMostOne(n) => OnlyFirst(n, f) /\ OnlyLast(n, f)
    BY <2>1 DEF AtMostOne, OnlyFirst, OnlyLast
  <2>3. \A f : Only(n, {f}) /\ None(n, f) => Quiet(n)
    BY DEF Only, None, Quiet
  <2>4. \A f : None(n, f) => OnlyFirst(n, f) /\ OnlyLast(n, f)
    BY DEF OnlyFirst, OnlyLast, None
  <2>5. \A F, f : Only(n, F) /\ f \notin F => None(n, f)
    BY DEF Only, None
  <2>6. None(n, A) /\ None(n, PA) /\ Only(n, {A, PA}) => Quiet(n)
    BY DEF Only, None, Quiet
  <2> QED
    BY <2>2, <2>3, <2>4, <2>5, <2>6
<1>2. ASSUME n # <<>>, Head(n).mine, Only(n, {A, PA}), OnlyFirst(n, A), OnlyLast(n, PA)
      PROVE AtMostOne(Tail(n))
  <2> DEFINE m == Tail(n)
  <2>1. \A p \in Mine(m) : p \in Nat /\ p + 1 \in Mine(n) /\ m[p].flags = n[p + 1].flags
    BY <1>2, TailShifts DEF Shifted, Mine
  <2>2. None(m, A)
    BY <1>2, HeadTaken
  <2> HIDE DEF m
  <2>3. ASSUME NEW p \in Mine(m), NEW q \in Mine(m), p < q
        PROVE FALSE
    <3>1. p + 1 < q + 1
      BY <2>1, <2>3
    <3>2. n[p + 1].flags # PA
      BY <1>2, <2>1, <3>1 DEF OnlyLast
    <3>3. n[p + 1].flags \in {A, PA}
      BY <1>2, <2>1 DEF Only
    <3>4. m[p].flags = A
      BY <2>1, <3>2, <3>3
    <3> QED
      BY <2>2, <3>4 DEF None
  <2>4. \A p, q \in Mine(m) : p = q
    BY <2>1, <2>3
  <2> QED
    BY <2>4 DEF AtMostOne, m
<1> QED
  BY <1>1, <1>2

(* A quiet queue has nothing of any kind in it.                              *)
LEMMA QuietHas ==
  ASSUME NEW n, Quiet(n)
  PROVE  /\ AtMostOne(n) /\ AtMostTwo(n)
         /\ \A F : Only(n, F)
         /\ \A f : OnlyFirst(n, f) /\ OnlyLast(n, f) /\ None(n, f)
  BY DEF Quiet, AtMostOne, AtMostTwo, Only, OnlyFirst, OnlyLast, None

----------------------------------------------------------------------------
(* The network loses a segment, or a stray passes: an end, and both.         *)
LEMMA ShiftLinks ==
  ASSUME NEW n \in Seq(Seg), NEW q \in Seq(Seg), NEW d \in {0, 1}, Shifted(q, n, d),
         NEW x, NEW w, NEW y, NEW m, NEW t, NEW v, NEW u,
         Link(x, n, w, y, m, t), Link(y, m, v, x, n, u)
  PROVE  Link(x, q, w, y, m, t) /\ Link(y, m, v, x, q, u)
<1>1. /\ Quiet(n) => Quiet(q)
      /\ AtMostOne(n) => AtMostOne(q)
      /\ AtMostTwo(n) => AtMostTwo(q)
      /\ Only(n, {A, PA}) => Only(q, {A, PA})
      /\ OnlyFirst(n, PA) => OnlyFirst(q, PA)
      /\ OnlyFirst(n, A) => OnlyFirst(q, A)
      /\ None(n, PA) => None(q, PA)
      /\ None(n, A) => None(q, A)
      /\ LastIs(n, Len(v)) => LastIs(q, Len(v))
      /\ Rising(n, u) => Rising(q, u)
      /\ Below(n, Len(v)) => Below(q, Len(v))
  BY ShiftedKeeps
<1>2. Link(x, q, w, y, m, t)
  BY <1>1 DEF Link, BothUp, Alone, Acked
<1>3. Link(y, m, v, x, q, u)
  BY <1>1 DEF Link, BothUp, Alone, Acked, Data
<1> QED
  BY <1>2, <1>3

(* The same of the handshake.                                                *)
LEMMA ShiftHandshake ==
  ASSUME NEW n \in Seq(Seg), NEW q \in Seq(Seg), NEW d \in {0, 1}, Shifted(q, n, d)
  PROVE  /\ \A c, s, m : Handshake(c, n, s, m) => Handshake(c, q, s, m)
         /\ \A c, s, m : Handshake(c, m, s, n) => Handshake(c, m, s, q)
<1>1. /\ Quiet(n) => Quiet(q)
      /\ AtMostOne(n) => AtMostOne(q)
      /\ Only(n, {SA}) => Only(q, {SA})
      /\ Only(n, {A, PA}) => Only(q, {A, PA})
      /\ Only(n, {A, FA, S}) => Only(q, {A, FA, S})
      /\ OnlyFirst(n, A) => OnlyFirst(q, A)
      /\ OnlyLast(n, S) => OnlyLast(q, S)
      /\ OnlyLast(n, PA) => OnlyLast(q, PA)
      /\ None(n, PA) => None(q, PA)
      /\ None(n, SA) => None(q, SA)
      /\ None(n, S) => None(q, S)
  BY ShiftedKeeps
<1>2. ASSUME NEW c, NEW s, NEW m, Handshake(c, n, s, m)
      PROVE Handshake(c, q, s, m)
  BY <1>1, <1>2 DEF Handshake
<1>3. ASSUME NEW c, NEW s, NEW m, Handshake(c, m, s, n)
      PROVE Handshake(c, m, s, q)
  BY <1>1, <1>3 DEF Handshake
<1> QED
  BY <1>2, <1>3

(* A read begins.                                                            *)
LEMMA ReadBegins ==
  ASSUME NEW n, NEW w, NEW y, NEW m, NEW t, NEW v, NEW u,
         Link("open", n, w, y, m, t), Link(y, m, v, "open", n, u)
  PROVE  Link("reading", n, w, y, m, t) /\ Link(y, m, v, "reading", n, u)
  BY DEF Link, BothUp, Alone, Acked, Data, Up

(* A write begins: it puts its data behind what is under way, unless the     *)
(* other end is closed.                                                      *)
LEMMA WriteBegins ==
  ASSUME NEW n \in Seq(Seg), NEW w \in Seq(Outcome), NEW y, NEW m \in Seq(Seg), NEW t \in Seq(Nat),
         NEW v, NEW u, NEW g \in Seg, g.mine, g.flags = PA, g.chunk = Len(w) + 1,
         NEW q, q = IF y = "closed" THEN m ELSE Append(m, g),
         Link("open", n, w, y, m, t), Link(y, m, v, "open", n, u)
  PROVE  /\ Link("writing", n, Append(w, "pending"), y, q, t)
         /\ Link(y, q, v, "writing", n, u)
<1> DEFINE z == Append(w, "pending")
<1>1. /\ z \in Seq(Outcome) /\ Len(z) = Len(w) + 1 /\ Len(w) \in Nat
      /\ z[Len(w) + 1] = "pending" /\ \A k \in 1..Len(w) : z[k] = w[k]
  BY DEF Outcome
<1> HIDE DEF z
<1>2. Sound(w, t) /\ Rising(m, t) /\ Below(m, Len(w))
  BY DEF Link, Data
<1>3. Sound(z, t)
  <2>1. \A k \in 1..Len(z) : z[k] = "ok" => k \in 1..Len(w) /\ w[k] = "ok"
    BY <1>1
  <2> QED
    BY <1>1, <1>2, <2>1 DEF Sound
<1>4. Rising(q, t) /\ Below(q, Len(z))
  <2>1. CASE y = "closed"
    <3>1. Below(m, Len(w) + 1)
      BY <1>1, <1>2 DEF Below
    <3> QED
      BY <1>1, <1>2, <2>1, <3>1
  <2>2. CASE y # "closed"
    <3>1. \A i \in 1..Len(t) : t[i] \in 1..Len(w)
      BY <1>2 DEF Sound
    <3>2. Rising(Append(m, g), t) /\ Below(Append(m, g), Len(w) + 1)
      BY <1>1, <1>2, <3>1, NewSent
    <3> QED
      BY <1>1, <2>2, <3>2
  <2> QED
    BY <2>1, <2>2
<1>5. y # "closed" => /\ q = Append(m, g)
                      /\ LastIs(q, Len(z))
                      /\ Quiet(m) => AtMostOne(q)
                      /\ AtMostOne(m) => AtMostTwo(q)
                      /\ Only(m, {A, PA}) => Only(q, {A, PA})
                      /\ OnlyFirst(m, A) => OnlyFirst(q, A)
                      /\ None(m, A) => None(q, A)
  BY <1>1, Sent, Flags
<1>6. y \in Up => y # "closed"
  BY DEF Up
<1>7. None(n, A)
  BY DEF Link, Acked, Up
<1>8. y \in Up => BothUp("open", n, y, m) /\ BothUp(y, m, "open", n)
  BY DEF Link, Up
<1>9. y \in Up => BothUp("writing", n, y, q) /\ BothUp(y, q, "writing", n)
  BY <1>5, <1>6, <1>8, QuietHas DEF BothUp, Up
<1>10. y \in Up /\ ~ None(q, A) => Acked(y, q, v, "writing", n, u)
  <2> SUFFICES ASSUME y \in Up, ~ None(q, A)
               PROVE Acked(y, q, v, "writing", n, u)
    OBVIOUS
  <2>1. Acked(y, m, v, "open", n, u)
    BY <1>5, <1>6 DEF Link
  <2> QED
    BY <1>5, <1>6, <2>1 DEF Acked, Up
<1>11. y \notin Up \cup {"syn_rcvd"} => Alone("writing", n)
  BY DEF Link, Alone, Up
<1>12. "writing" \in Up
  BY DEF Up
<1>13. Data("writing", z, y, q, t)
  BY <1>4, <1>5, <1>6 DEF Data
<1>14. Data(y, v, "writing", n, u) /\ Sound(v, u)
  BY <1>12 DEF Link, Data, Up
<1> QED
  BY <1>3, <1>7, <1>9, <1>10, <1>11, <1>12, <1>13, <1>14 DEF Link, z

(* A read returns the last of the writes v.                                  *)
LEMMA LastRead ==
  ASSUME NEW v \in Seq(Outcome), NEW u \in Seq(Nat), NEW h \in Nat, h = Len(v), h # 0,
         Sound(v, u), \A i \in 1..Len(u) : u[i] < h
  PROVE  Sound(v, Append(u, h)) /\ Has(Append(u, h), h)
<1> DEFINE z == Append(u, h)
<1>1. /\ Len(z) = Len(u) + 1 /\ Len(u) \in Nat /\ z[Len(u) + 1] = h
      /\ \A i \in 1..Len(u) : z[i] = u[i] /\ u[i] \in Nat
  OBVIOUS
<1>2. \A i \in 1..Len(z) : i \in 1..Len(u) \/ i = Len(u) + 1
  BY <1>1
<1> HIDE DEF z
<1>3. \A i, j \in 1..Len(z) : i < j => z[i] < z[j]
  <2> SUFFICES ASSUME NEW i \in 1..Len(z), NEW j \in 1..Len(z), i < j
               PROVE z[i] < z[j]
    OBVIOUS
  <2>1. i \in 1..Len(u) /\ z[i] = u[i]
    BY <1>1, <1>2
  <2>2. CASE j = Len(u) + 1
    BY <1>1, <2>1, <2>2
  <2>3. CASE j \in 1..Len(u)
    <3>1. z[j] = u[j]
      BY <1>1, <2>3
    <3>2. u[i] < u[j]
      BY <2>1, <2>3 DEF Sound
    <3> QED
      BY <2>1, <3>1, <3>2
  <2> QED
    BY <1>2, <2>2, <2>3
<1>4. \A i \in 1..Len(z) : z[i] \in 1..Len(v)
  <2> SUFFICES ASSUME NEW i \in 1..Len(z)
               PROVE z[i] \in 1..Len(v)
    OBVIOUS
  <2>1. CASE i \in 1..Len(u)
    BY <1>1, <2>1 DEF Sound
  <2>2. CASE i = Len(u) + 1
    BY <1>1, <2>2
  <2> QED
    BY <1>2, <2>1, <2>2
<1>5. \A j \in 1..Len(v) : v[j] = "ok" => Has(z, j)
  <2> SUFFICES ASSUME NEW j \in 1..Len(v), v[j] = "ok"
               PROVE Has(z, j)
    OBVIOUS
  <2>1. PICK i \in 1..Len(u) : u[i] = j
    BY DEF Sound, Has
  <2>2. i \in 1..Len(z) /\ z[i] = j
    BY <1>1, <2>1
  <2> QED
    BY <2>2 DEF Has
<1>6. Len(u) + 1 \in 1..Len(z)
  BY <1>1
<1> QED
  BY <1>1, <1>3, <1>4, <1>5, <1>6 DEF Sound, Has, z

(* A read ends: it met data, so the other end is in the write of this data   *)
(* and nothing else is under way; the data is taken and acknowledged.        *)
LEMMA ReadEnds ==
  ASSUME NEW n \in Seq(Seg), n # <<>>, Head(n).mine, Head(n).flags = PA,
         NEW w \in Seq(Outcome), NEW y, NEW m \in Seq(Seg), NEW t \in Seq(Nat),
         NEW v \in Seq(Outcome), NEW u \in Seq(Nat), NEW g \in Seg, g.mine, g.flags = A,
         y = "syn_rcvd" => None(n, PA),
         Link("reading", n, w, y, m, t), Link(y, m, v, "reading", n, u)
  PROVE  /\ y = "writing"
         /\ Link("open", Tail(n), w, y, Append(m, g), t)
         /\ Link(y, Append(m, g), v, "open", Tail(n), Append(u, Head(n).chunk))
<1> DEFINE h == Head(n).chunk
           z == Append(u, h)
<1>1. ~ None(n, PA) /\ ~ Quiet(n)
  BY HeadTaken
<1>2. y \in Up
  BY <1>1 DEF Link, Alone, Up
<1>3. BothUp("reading", n, y, m) /\ BothUp(y, m, "reading", n)
  BY <1>2 DEF Link, Up
<1>4. y = "writing" /\ AtMostOne(n) /\ Quiet(m)
  BY <1>1, <1>3 DEF BothUp
<1>5. Quiet(Tail(n))
  BY <1>4, HeadTaken
<1>6. LastIs(n, Len(v)) /\ Rising(n, u) /\ Below(n, Len(v)) /\ Sound(v, u)
  BY <1>4 DEF Link, Data, Up
<1>7. h = Len(v) /\ h \in 1..Len(v) /\ \A i \in 1..Len(u) : u[i] < h
  BY <1>4, <1>6, HeadTaken, HeadRead
<1>8. Rising(Tail(n), z)
  BY <1>6, HeadRead
<1>9. Below(Tail(n), Len(v)) /\ LastIs(Tail(n), Len(v))
  BY <1>6, ShiftedKeeps, TailShifts
<1>10. h \in Nat /\ h # 0
  BY <1>7
<1>11. Sound(v, z) /\ Has(z, Len(v))
  BY <1>6, <1>7, <1>10, LastRead
<1> HIDE DEF h, z
<1>13. /\ AtMostOne(Append(m, g)) /\ OnlyFirst(Append(m, g), A) /\ OnlyFirst(Append(m, g), PA)
       /\ Only(m, {A, PA}) => Only(Append(m, g), {A, PA})
       /\ Rising(m, t) => Rising(Append(m, g), t)
       /\ Below(m, Len(w)) => Below(Append(m, g), Len(w))
       /\ AtMostTwo(Append(m, g))
  BY <1>4, Sent, Flags, QuietHas
<1>14. /\ AtMostOne(Tail(n)) /\ AtMostTwo(Tail(n)) /\ None(Tail(n), A) /\ Only(Tail(n), {A, PA})
  BY <1>5, QuietHas
<1>15. BothUp("open", Tail(n), y, Append(m, g)) /\ BothUp(y, Append(m, g), "open", Tail(n))
  BY <1>3, <1>4, <1>5, <1>13, <1>14 DEF BothUp
<1>16. Acked(y, Append(m, g), v, "open", Tail(n), z)
  BY <1>4, <1>5, <1>11, <1>13 DEF Acked
<1>17. Data("open", w, y, Append(m, g), t) /\ Sound(w, t)
  BY <1>13 DEF Link, Data
<1>18. Data(y, v, "open", Tail(n), z)
  BY <1>8, <1>9 DEF Data
<1> QED
  BY <1>2, <1>4, <1>11, <1>14, <1>15, <1>16, <1>17, <1>18 DEF Link, h, z, Up

(* A write ends with the first segment that arrives; if that is an           *)
(* acknowledgement, it is the one of this write.                             *)
LEMMA WriteEnds ==
  ASSUME NEW n \in Seq(Seg), n # <<>>, Head(n).mine,
         NEW w \in Seq(Outcome), w # <<>>, NEW y, NEW m, NEW t,
         NEW v, NEW u, NEW r \in Outcome, r = "ok" => Head(n).flags = A,
         Link("writing", n, w, y, m, t), Link(y, m, v, "writing", n, u)
  PROVE  /\ Link("open", Tail(n), [w EXCEPT ![Len(w)] = r], y, m, t)
         /\ Link(y, m, v, "open", Tail(n), u)
<1> DEFINE z == [w EXCEPT ![Len(w)] = r]
<1>1. /\ z \in Seq(Outcome) /\ Len(z) = Len(w) /\ Len(w) \in Nat \ {0}
      /\ z[Len(w)] = r /\ \A k \in 1..Len(w) : k # Len(w) => z[k] = w[k]
  OBVIOUS
<1> HIDE DEF z
<1>2. ~ Quiet(n)
  BY HeadTaken
<1>3. ~ None(n, A) => Acked("writing", n, w, y, m, t)
  BY DEF Link, Up
<1>4. None(Tail(n), A)
  <2>1. CASE None(n, A)
    BY <2>1, ShiftedKeeps, TailShifts
  <2>2. CASE ~ None(n, A)
    BY <1>3, <2>2, HeadTaken DEF Acked
  <2> QED
    BY <2>1, <2>2
<1>5. Sound(w, t) /\ Data("writing", w, y, m, t)
  BY DEF Link
<1>6. Sound(z, t)
  <2>1. r = "ok" => Has(t, Len(w))
    BY <1>3, HeadTaken DEF Acked
  <2>2. \A k \in 1..Len(z) : z[k] = "ok" => Has(t, k)
    BY <1>1, <1>5, <2>1 DEF Sound
  <2> QED
    BY <1>1, <1>5, <2>2 DEF Sound
<1>7. Data("open", z, y, m, t)
  BY <1>1, <1>5 DEF Data
<1>8. y \in Up => BothUp("writing", n, y, m) /\ BothUp(y, m, "writing", n)
  BY DEF Link, Up
<1>9. /\ AtMostOne(n) => Quiet(Tail(n))
      /\ AtMostTwo(n) => AtMostOne(Tail(n))
      /\ Quiet(Tail(n)) => AtMostOne(Tail(n)) /\ AtMostTwo(Tail(n))
      /\ AtMostTwo(n) => AtMostTwo(Tail(n))
      /\ Only(n, {A, PA}) => Only(Tail(n), {A, PA})
      /\ OnlyFirst(n, PA) => None(Tail(n), PA) /\ OnlyFirst(Tail(n), PA)
      /\ Rising(n, u) => Rising(Tail(n), u)
      /\ Below(n, Len(v)) => Below(Tail(n), Len(v))
      /\ LastIs(n, Len(v)) => LastIs(Tail(n), Len(v))
  BY HeadTaken, ShiftedKeeps, TailShifts, QuietHas
<1>10. y \in Up => BothUp("open", Tail(n), y, m) /\ BothUp(y, m, "open", Tail(n))
  BY <1>2, <1>8, <1>9, QuietHas DEF BothUp
<1>11. y \notin Up \cup {"syn_rcvd"} => Alone("open", Tail(n))
  BY <1>9 DEF Link, Alone, Up
<1>12. y \in Up => None(m, A)
  BY <1>2 DEF Link, Acked, Up
<1>13. Data(y, v, "open", Tail(n), u) /\ Sound(v, u)
  BY <1>9 DEF Link, Data, Up
<1>14. "open" \in Up
  BY DEF Up
<1> QED
  BY <1>4, <1>6, <1>7, <1>10, <1>11, <1>12, <1>13, <1>14 DEF Link, z

(* An end is closed: the other one finds at most its own last exchange, and  *)
(* then the FIN.                                                             *)
LEMMA Leaves ==
  ASSUME NEW n \in Seq(Seg), NEW w, NEW y, NEW m \in Seq(Seg), NEW t,
         NEW v, NEW u, NEW g \in Seg, g.mine, g.flags = FA,
         NEW q, q = IF y = "closed" THEN m ELSE Append(m, g),
         Link("open", n, w, y, m, t), Link(y, m, v, "open", n, u)
  PROVE  /\ Link("closed", n, w, y, q, t)
         /\ Link(y, q, v, "closed", n, u)
<1>1. y \in Up => y # "closed"
  BY DEF Up
<1>2. y # "closed" => /\ q = Append(m, g)
                      /\ OnlyFirst(m, PA) => OnlyFirst(q, PA)
                      /\ OnlyFirst(m, A) => OnlyFirst(q, A)
                      /\ None(m, A) => None(q, A)
                      /\ None(m, PA) => None(q, PA)
  BY Sent, Flags
<1>3. Rising(q, t) /\ Below(q, Len(w))
  <2>1. Rising(m, t) /\ Below(m, Len(w))
    BY DEF Link, Data
  <2>2. Rising(Append(m, g), t) /\ Below(Append(m, g), Len(w))
    BY <2>1, Sent, Flags
  <2> QED
    BY <2>1, <2>2
<1>4. Link("closed", n, w, y, q, t)
  BY <1>3 DEF Link, Data, Up
<1>5. y \in Up => Alone(y, q)
  <2> SUFFICES ASSUME y \in Up
               PROVE Alone(y, q)
    OBVIOUS
  <2>1. BothUp(y, m, "open", n)
    BY DEF Link, Up
  <2>2. y # "writing" => Quiet(m)
    BY <2>1 DEF BothUp
  <2>3. AtMostOne(m)
    BY <2>1 DEF BothUp
  <2>4. OnlyFirst(m, PA) /\ (y # "writing" => None(m, PA))
    BY <2>2, <2>3, FewHave, QuietHas
  <2> QED
    BY <1>1, <1>2, <2>4 DEF Alone
<1>6. y \in Up /\ ~ None(q, A) => Acked(y, q, v, "closed", n, u)
  <2> SUFFICES ASSUME y \in Up, ~ None(q, A)
               PROVE Acked(y, q, v, "closed", n, u)
    OBVIOUS
  <2>1. Acked(y, m, v, "open", n, u)
    BY <1>1, <1>2 DEF Link
  <2> QED
    BY <1>1, <1>2, <2>1 DEF Acked, Up
<1>7. Data(y, v, "closed", n, u) /\ Sound(v, u)
  BY DEF Link, Data, Up
<1> QED
  BY <1>4, <1>5, <1>6, <1>7 DEF Link, Up

----------------------------------------------------------------------------
(* An opening begins, fails or is given up: an end that was not connected    *)
(* and is not answering a SYN begins again with what u and v allow.          *)
LEMMA BeginsAgain ==
  ASSUME NEW n, NEW w, NEW x, x \notin Up \cup {"syn_rcvd"},
         NEW y, NEW m \in Seq(Seg), NEW t, NEW v, NEW u,
         NEW g \in Seg, g.mine, g.flags \in {S, FA}, NEW q, q \in {m, Append(m, g)},
         NEW z, z \notin Up \cup {"syn_rcvd"}, NEW p, Rising(p, u), Below(p, Len(v)),
         Link(x, n, w, y, m, t), Link(y, m, v, x, n, u)
  PROVE  Link(z, p, w, y, q, t) /\ Link(y, q, v, z, p, u)
<1>1. /\ OnlyFirst(m, PA) => OnlyFirst(q, PA)
      /\ OnlyFirst(m, A) => OnlyFirst(q, A)
      /\ None(m, A) => None(q, A)
      /\ None(m, PA) => None(q, PA)
      /\ Rising(m, t) => Rising(q, t)
      /\ Below(m, Len(w)) => Below(q, Len(w))
  BY ZenonT(40), Sent, Flags
<1>2. Link(z, p, w, y, q, t)
  BY <1>1 DEF Link, Data, Up
<1>3. y \in Up => Alone(y, q)
  BY <1>1 DEF Link, Alone
<1>4. y \in Up /\ ~ None(q, A) => Acked(y, q, v, z, p, u)
  <2> SUFFICES ASSUME y \in Up, ~ None(q, A)
               PROVE Acked(y, q, v, z, p, u)
    OBVIOUS
  <2>1. Acked(y, m, v, x, n, u)
    BY <1>1 DEF Link
  <2> QED
    BY <1>1, <2>1 DEF Acked
<1>5. Data(y, v, z, p, u) /\ Sound(v, u)
  BY DEF Link, Data
<1> QED
  BY <1>2, <1>3, <1>4, <1>5 DEF Link

(* The same, when nothing is sent.                                           *)
LEMMA BeginsQuietly ==
  ASSUME NEW n, NEW w, NEW x, x \notin Up \cup {"syn_rcvd"},
         NEW y, NEW m, NEW t, NEW v, NEW u,
         NEW z, z \notin Up \cup {"syn_rcvd"}, NEW p, Rising(p, u), Below(p, Len(v)),
         Link(x, n, w, y, m, t), Link(y, m, v, x, n, u)
  PROVE  Link(z, p, w, y, m, t) /\ Link(y, m, v, z, p, u)
<1>1. Link(z, p, w, y, m, t)
  BY DEF Link, Data, Up
<1>2. y \in Up /\ ~ None(m, A) => Acked(y, m, v, z, p, u)
  BY DEF Link, Acked
<1>3. Data(y, v, z, p, u) /\ Sound(v, u)
  BY DEF Link, Data
<1> QED
  BY <1>1, <1>2, <1>3 DEF Link

(* The server answers a SYN with SYN and ACK.                                *)
LEMMA Answers ==
  ASSUME NEW nc \in Seq(Seg), NEW ns \in Seq(Seg), ns # <<>>, NEW wc, NEW tc, NEW ws, NEW ts,
         NEW g \in Seg, g.mine, g.flags = SA,
         Link("syn_sent", nc, wc, "listen", ns, ts), Link("listen", ns, ws, "syn_sent", nc, tc)
  PROVE  /\ Link("syn_sent", Append(nc, g), wc, "syn_rcvd", Tail(ns), ts)
         /\ Link("syn_rcvd", Tail(ns), ws, "syn_sent", Append(nc, g), tc)
<1>1. Rising(ns, ts) /\ Below(ns, Len(wc)) /\ Rising(nc, tc) /\ Below(nc, Len(ws)) /\ Sound(wc, ts) /\ Sound(ws, tc)
  BY DEF Link, Data
<1>2. Rising(Tail(ns), ts) /\ Below(Tail(ns), Len(wc))
  BY <1>1, TailShifts, ShiftedKeeps
<1>3. Rising(Append(nc, g), tc) /\ Below(Append(nc, g), Len(ws))
  BY <1>1, Sent, Flags
<1> QED
  BY <1>1, <1>2, <1>3 DEF Link, Data, Up

(* The client takes the answer, and acknowledges it.                         *)
LEMMA ClientEstablished ==
  ASSUME NEW nc \in Seq(Seg), nc # <<>>, Quiet(Tail(nc)), NEW ns \in Seq(Seg),
         NEW wc, NEW tc, NEW ws, NEW ts, NEW g \in Seg, g.mine, g.flags = A,
         Link("syn_sent", nc, wc, "syn_rcvd", ns, ts), Link("syn_rcvd", ns, ws, "syn_sent", nc, tc)
  PROVE  /\ Link("open", Tail(nc), wc, "syn_rcvd", Append(ns, g), ts)
         /\ Link("syn_rcvd", Append(ns, g), ws, "open", Tail(nc), tc)
<1>1. Rising(ns, ts) /\ Below(ns, Len(wc)) /\ Rising(nc, tc) /\ Below(nc, Len(ws)) /\ Sound(wc, ts) /\ Sound(ws, tc)
  BY DEF Link, Data
<1>2. Rising(Tail(nc), tc) /\ Below(Tail(nc), Len(ws))
  BY <1>1, TailShifts, ShiftedKeeps
<1>3. Rising(Append(ns, g), ts) /\ Below(Append(ns, g), Len(wc))
  BY <1>1, Sent, Flags
<1>4. None(Tail(nc), A)
  BY QuietHas
<1> QED
  BY <1>1, <1>2, <1>3, <1>4 DEF Link, Data, Up

(* The server takes the client's acknowledgement, or the FIN of one that has *)
(* gone again: it begins with nothing under way but a first write.           *)
LEMMA ServerEstablished ==
  ASSUME NEW nc \in Seq(Seg), NEW ns \in Seq(Seg), ns # <<>>, Head(ns).mine, NEW c,
         NEW wc, NEW tc, NEW ws, NEW ts, Handshake(c, nc, "syn_rcvd", ns),
         Link(c, nc, wc, "syn_rcvd", ns, ts), Link("syn_rcvd", ns, ws, c, nc, tc)
  PROVE  /\ Link(c, nc, wc, "open", Tail(ns), ts)
         /\ Link("open", Tail(ns), ws, c, nc, tc)
         /\ Handshake(c, nc, "open", Tail(ns))
<1>1. Rising(ns, ts) /\ Below(ns, Len(wc)) /\ Rising(nc, tc) /\ Below(nc, Len(ws)) /\ Sound(wc, ts) /\ Sound(ws, tc)
  BY DEF Link, Data
<1>2. Rising(Tail(ns), ts) /\ Below(Tail(ns), Len(wc)) /\ (LastIs(ns, Len(wc)) => LastIs(Tail(ns), Len(wc)))
  BY <1>1, TailShifts, ShiftedKeeps
<1>3. /\ c \in {"closed", "syn_sent"} \cup Up
      /\ OnlyFirst(ns, A) /\ Only(nc, {SA})
      /\ c \notin Up => Only(ns, {A, FA, S})
      /\ c \in Up => Only(ns, {A, PA}) /\ OnlyLast(ns, PA)
      /\ c \in Up /\ c # "writing" => None(ns, PA)
  BY DEF Handshake
<1>4. ~ Quiet(ns)
  BY HeadTaken
<1>5. None(nc, SA)
  BY <1>4 DEF Handshake
<1>6. Quiet(nc)
  BY <1>3, <1>5, FewHave
<1>7. None(Tail(ns), A)
  BY <1>3, HeadTaken
<1>8. c \in Up => BothUp("open", Tail(ns), c, nc) /\ BothUp(c, nc, "open", Tail(ns))
  <2> SUFFICES ASSUME c \in Up
               PROVE BothUp("open", Tail(ns), c, nc) /\ BothUp(c, nc, "open", Tail(ns))
    OBVIOUS
  <2>1. AtMostOne(Tail(ns)) /\ Only(Tail(ns), {A, PA})
    BY <1>3, FewHave, TailShifts, ShiftedKeeps
  <2>2. c # "writing" => Quiet(Tail(ns))
    <3>1. Tail(ns) \in Seq(Seg)
      BY TailShifts
    <3>2. c # "writing" => None(Tail(ns), PA)
      BY <1>3, TailShifts, ShiftedKeeps
    <3> QED
      BY <1>7, <2>1, <3>1, <3>2, FewHave
  <2>3. AtMostTwo(Tail(ns))
    BY <2>1 DEF AtMostOne, AtMostTwo, Mine
  <2> QED
    BY <1>6, <2>1, <2>2, <2>3, QuietHas DEF BothUp
<1>9. c \notin Up => Alone("open", Tail(ns))
  <2> SUFFICES ASSUME c \notin Up
               PROVE Alone("open", Tail(ns))
    OBVIOUS
  <2>1. None(ns, PA)
    <3>1. PA \notin {A, FA, S}
      BY Flags
    <3> QED
      BY <1>3, <3>1, FewHave
  <2>2. None(Tail(ns), PA) /\ Tail(ns) \in Seq(Seg)
    BY <2>1, TailShifts, ShiftedKeeps
  <2> QED
    BY <2>2, FewHave DEF Alone
<1>10. None(nc, A)
  BY <1>6, QuietHas
<1>11. Data("open", ws, c, nc, tc)
  BY <1>1 DEF Data
<1>12. Data(c, wc, "open", Tail(ns), ts)
  BY <1>2 DEF Link, Data, Up
<1>13. Handshake(c, nc, "open", Tail(ns))
  BY <1>3, <1>5 DEF Handshake, Up
<1>14. Link(c, nc, wc, "open", Tail(ns), ts)
  BY <1>1, <1>8, <1>10, <1>12 DEF Link, Up
<1>15. Link("open", Tail(ns), ws, c, nc, tc)
  BY <1>1, <1>7, <1>8, <1>9, <1>11 DEF Link
<1> QED
  BY <1>13, <1>14, <1>15

(* The server meets something else, gives the client up and listens again.   *)
LEMMA GivesUp ==
  ASSUME NEW nc \in Seq(Seg), NEW ns \in Seq(Seg), ns # <<>>, Head(ns).mine, NEW c,
         NEW wc, NEW tc, NEW ws, NEW ts, Handshake(c, nc, "syn_rcvd", ns),
         NEW g \in Seg, g.mine, g.flags = FA, NEW q, q = IF c = "closed" THEN nc ELSE Append(nc, g),
         Link(c, nc, wc, "syn_rcvd", ns, ts), Link("syn_rcvd", ns, ws, c, nc, tc)
  PROVE  /\ Link(c, q, wc, "listen", <<>>, ts)
         /\ Link("listen", <<>>, ws, c, q, tc)
         /\ Handshake(c, q, "listen", <<>>)
<1>1. Rising(ns, ts) /\ Below(ns, Len(wc)) /\ Rising(nc, tc) /\ Below(nc, Len(ws)) /\ Sound(wc, ts) /\ Sound(ws, tc)
  BY DEF Link, Data
<1>2. ~ Quiet(ns)
  BY HeadTaken
<1>3. c \in {"closed", "syn_sent"} \cup Up /\ Only(nc, {SA}) /\ None(nc, SA)
  BY <1>2 DEF Handshake
<1>4. Quiet(nc)
  BY <1>3, FewHave
<1>5. /\ OnlyFirst(q, PA) /\ None(q, PA) /\ None(q, A) /\ None(q, SA)
      /\ Rising(q, tc) /\ Below(q, Len(ws))
  BY <1>1, <1>4, QuietHas, Sent, Flags
<1>6. Data(c, wc, "listen", <<>>, ts) /\ Data("listen", ws, c, q, tc)
  BY <1>5, NothingSent DEF Data, Up
<1>7. Handshake(c, q, "listen", <<>>)
  BY <1>3, <1>5, NothingSent DEF Handshake, Up
<1>8. Link(c, q, wc, "listen", <<>>, ts) /\ Link("listen", <<>>, ws, c, q, tc)
  BY <1>1, <1>5, <1>6 DEF Link, Alone, Up
<1> QED
  BY <1>7, <1>8

(* Away from the two states of a server that opens, the handshake only asks  *)
(* that no answer to a SYN is left.                                          *)
LEMMA HandshakeCalm ==
  ASSUME NEW c \in {"closed", "syn_sent"} \cup Up, NEW s \in {"closed", "listen"} \cup Up,
         NEW nc, NEW ns, None(nc, SA), s = "listen" => None(ns, S)
  PROVE  Handshake(c, nc, s, ns)
  BY DEF Handshake, Up

(* A client, or a server, that is open writes or closes.                     *)
LEMMA ClientMovesOn ==
  ASSUME NEW nc, NEW s, NEW ns \in Seq(Seg), Handshake("open", nc, s, ns),
         NEW z \in {"writing", "closed"}, NEW g \in Seg, g.mine,
         g.flags = IF z = "writing" THEN PA ELSE FA,
         NEW q, q = IF s = "closed" THEN ns ELSE Append(ns, g)
  PROVE  Handshake(z, nc, s, q)
<1>1. None(nc, SA) /\ s \in {"closed", "listen", "syn_rcvd"} \cup Up
  BY DEF Handshake
<1>2. z \in {"closed", "syn_sent"} \cup Up
  BY DEF Up
<1>3. CASE s = "syn_rcvd"
  <2>1. Only(nc, {SA}) /\ OnlyFirst(ns, A) /\ Only(ns, {A, PA}) /\ None(ns, PA)
    BY <1>3 DEF Handshake, Up
  <2>2. q = Append(ns, g)
    BY <1>3
  <2>3. OnlyFirst(q, A)
    BY <2>1, <2>2, Sent, Flags
  <2>4. z = "writing" => Only(q, {A, PA}) /\ OnlyLast(q, PA)
    BY <2>1, <2>2, Sent
  <2>5. z = "closed" => Only(q, {A, FA, S})
    <3>1. Only(ns, {A, FA, S})
      BY <2>1 DEF Only, None
    <3> QED
      BY <2>2, <3>1, Sent
  <2> QED
    BY <1>1, <1>2, <1>3, <2>1, <2>3, <2>4, <2>5 DEF Handshake, Up
<1>4. CASE s # "syn_rcvd"
  <2>1. s = "listen" => None(ns, S)
    BY DEF Handshake
  <2>2. s = "listen" => None(q, S)
    BY <2>1, Sent, Flags
  <2> QED
    BY <1>1, <1>2, <1>4, <2>2, HandshakeCalm
<1> QED
  BY <1>3, <1>4

(* For the server, the client's queue gets data or a FIN.                    *)
LEMMA ServerMovesOn ==
  ASSUME NEW nc \in Seq(Seg), NEW c, NEW ns, Handshake(c, nc, "open", ns),
         NEW z \in {"writing", "closed"}, NEW g \in Seg, g.mine, g.flags \in {PA, FA},
         NEW q, q = IF c = "closed" THEN nc ELSE Append(nc, g)
  PROVE  Handshake(c, q, z, ns)
<1>1. None(nc, SA) /\ c \in {"closed", "syn_sent"} \cup Up
  BY DEF Handshake
<1>2. None(q, SA)
  BY <1>1, Sent, Flags
<1>3. z \in {"closed", "listen"} \cup Up /\ z # "listen"
  BY DEF Up
<1> QED
  BY <1>1, <1>2, <1>3, HandshakeCalm

----------------------------------------------------------------------------
(* The steps.  What a step leaves to show.                                   *)
LEMMA Ended ==
  ASSUME NEW e \in Ends
  PROVE  Other(e) \in Ends /\ Other(e) # e /\ Other(Other(e)) = e /\ Ends = {e, Other(e)}
  BY DEF Ends, Other

(* It is enough to show the links of one end and of the other.               *)
LEMMA Rebuild ==
  ASSUME NEW e \in Ends, TcpTypes',
         Handshake(end["client"].at, net["client"], end["server"].at, net["server"])',
         Link(end[e].at, net[e], wrote[e], end[Other(e)].at, net[Other(e)], taken[Other(e)])',
         Link(end[Other(e)].at, net[Other(e)], wrote[Other(e)], end[e].at, net[e], taken[e])'
  PROVE  NInv'
<1>1. \A f \in Ends : f = e \/ (f = Other(e) /\ Other(f) = e)
  BY Ended
<1>2. ASSUME NEW f \in Ends
      PROVE Link(end[f].at, net[f], wrote[f], end[Other(f)].at, net[Other(f)], taken[Other(f)])'
  <2>1. CASE f = e
    BY <2>1
  <2>2. CASE f = Other(e) /\ Other(f) = e
    BY <2>2
  <2> QED
    BY <1>1, <2>1, <2>2
<1> QED
  BY <1>2 DEF NInv, Links

(* What the invariant says of an end and of the other one.                   *)
LEMMA Parts ==
  ASSUME NInv, NEW e \in Ends
  PROVE  /\ TcpTypes
         /\ end[e] \in End /\ net[e] \in Seq(Seg) /\ wrote[e] \in Seq(Outcome) /\ taken[e] \in Seq(Nat)
         /\ Handshake(end["client"].at, net["client"], end["server"].at, net["server"])
         /\ Link(end[e].at, net[e], wrote[e], end[Other(e)].at, net[Other(e)], taken[Other(e)])
         /\ Link(end[Other(e)].at, net[Other(e)], wrote[Other(e)], end[e].at, net[e], taken[e])
<1>1. Other(e) \in Ends /\ Other(Other(e)) = e
  BY Ended
<1> QED
  BY <1>1 DEF NInv, Links, TcpTypes

(* A segment is lost, a stray comes, or is passed over.                      *)
LEMMA ShiftStep ==
  ASSUME NInv, NEW e \in Ends, NEW q \in Seq(Seg), NEW d \in {0, 1}, Shifted(q, net[e], d),
         net' = [net EXCEPT ![e] = q], UNCHANGED <<end, wrote, taken>>
  PROVE  NInv'
<1>1. net'[e] = q /\ \A f \in Ends : f # e => net'[f] = net[f]
  BY DEF NInv, TcpTypes
<1>2. TcpTypes'
  BY DEF NInv, TcpTypes
<1>3. net[e] \in Seq(Seg)
  BY Parts
<1>4. /\ Link(end[e].at, q, wrote[e], end[Other(e)].at, net[Other(e)], taken[Other(e)])
      /\ Link(end[Other(e)].at, net[Other(e)], wrote[Other(e)], end[e].at, q, taken[e])
  BY <1>3, Parts, ShiftLinks
<1>5. /\ e = "client" => Handshake(end["client"].at, q, end["server"].at, net["server"])
      /\ e = "server" => Handshake(end["client"].at, net["client"], end["server"].at, q)
  BY <1>3, Parts, ShiftHandshake
<1>6. Handshake(end["client"].at, net["client"], end["server"].at, net["server"])'
  <2>1. CASE e = "client"
    BY <1>1, <1>5, <2>1 DEF Ends
  <2>2. CASE e = "server"
    BY <1>1, <1>5, <2>2 DEF Ends
  <2> QED
    BY <2>1, <2>2 DEF Ends
<1>7. net'[Other(e)] = net[Other(e)]
  BY <1>1, Ended
<1> QED
  BY <1>1, <1>2, <1>4, <1>6, <1>7, Rebuild

(* A segment is lost, or a stray is passed over.                             *)
LEMMA LoseStep ==
  ASSUME NInv, NEW e \in Ends, Lose(e) \/ Skip(e)
  PROVE  NInv'
<1>1. net[e] # <<>> /\ net' = [net EXCEPT ![e] = Tail(net[e])] /\ UNCHANGED <<end, wrote, taken>>
  BY DEF Lose, Skip
<1>2. Tail(net[e]) \in Seq(Seg) /\ Shifted(Tail(net[e]), net[e], 1)
  BY <1>1, Parts, TailShifts
<1> QED
  BY <1>1, <1>2, ShiftStep

(* A stray comes.                                                            *)
LEMMA StrayStep ==
  ASSUME NInv, NEW e \in Ends, Stray(e)
  PROVE  NInv'
<1>1. PICK f \in {A, PA, SA} :
        net' = [net EXCEPT ![e] = Append(net[e], [flags |-> f, seq |-> 0, ack |-> 0, chunk |-> 0,
                                                  len |-> 1, mine |-> FALSE])]
  BY DEF Stray, A, PA, SA
<1> DEFINE g == [flags |-> f, seq |-> 0, ack |-> 0, chunk |-> 0, len |-> 1, mine |-> FALSE]
<1>2. g \in Seg /\ ~ g.mine
  BY TcpAssumption DEF Seg, U
<1>3. Append(net[e], g) \in Seq(Seg) /\ Shifted(Append(net[e], g), net[e], 0)
  <2> HIDE DEF g
  <2> QED
    BY <1>2, Parts, StrayShifts
<1>4. UNCHANGED <<end, wrote, taken>>
  BY DEF Stray
<1> QED
  BY <1>1, <1>3, <1>4, ShiftStep

(* The operations of an end that is open.                                    *)
LEMMA ReadStep ==
  ASSUME NInv, NEW e \in Ends, TcpRead(e)
  PROVE  NInv'
<1>1. /\ end[e].at = "open" /\ UNCHANGED <<net, wrote, taken>>
      /\ end' = [end EXCEPT ![e].at = "reading"]
  BY DEF TcpRead
<1>2. /\ end[e] \in End /\ Other(e) \in Ends /\ Other(e) # e
      /\ end'[e] = [end[e] EXCEPT !.at = "reading"] /\ \A f \in Ends : f # e => end'[f] = end[f]
  BY <1>1, Ended DEF NInv, TcpTypes
<1>3. end'[e].at = "reading" /\ end'[e] \in End
  BY <1>2 DEF End, States
<1>4. TcpTypes'
  BY <1>1, <1>2, <1>3 DEF NInv, TcpTypes
<1>5. /\ Link("reading", net[e], wrote[e], end[Other(e)].at, net[Other(e)], taken[Other(e)])
      /\ Link(end[Other(e)].at, net[Other(e)], wrote[Other(e)], "reading", net[e], taken[e])
  BY <1>1, Parts, ReadBegins
<1>6. Handshake(end["client"].at, net["client"], end["server"].at, net["server"])'
  <2>1. CASE e = "client"
    <3>1. Handshake("open", net["client"], end["server"].at, net["server"])
      BY <1>1, <2>1, Parts
    <3>2. Handshake("reading", net["client"], end["server"].at, net["server"])
      BY <3>1 DEF Handshake, Up
    <3> QED
      BY <1>1, <1>2, <1>3, <2>1, <3>2 DEF Ends
  <2>2. CASE e = "server"
    <3>1. Handshake(end["client"].at, net["client"], "open", net["server"])
      BY <1>1, <2>2, Parts
    <3>2. Handshake(end["client"].at, net["client"], "reading", net["server"])
      BY <3>1 DEF Handshake, Up
    <3> QED
      BY <1>1, <1>2, <1>3, <2>2, <3>2 DEF Ends
  <2> QED
    BY <2>1, <2>2 DEF Ends
<1> QED
  BY <1>1, <1>2, <1>3, <1>4, <1>5, <1>6, Rebuild

(* write sends its data.                                                     *)
LEMMA WriteStep ==
  ASSUME NInv, NEW e \in Ends, TcpWrite(e)
  PROVE  NInv'
<1>0. PICK l \in Lens : Send(e, Segment(e, PA, Len(wrote[e]) + 1, l))
  BY DEF TcpWrite, PA
<1> DEFINE o == Other(e)
           g == Segment(e, PA, Len(wrote[e]) + 1, l)
           q == IF end[o].at = "closed" THEN net[o] ELSE Append(net[o], g)
<1>1. /\ end[e].at = "open" /\ taken' = taken
      /\ end' = [end EXCEPT ![e].at = "writing"]
      /\ wrote' = [wrote EXCEPT ![e] = Append(wrote[e], "pending")]
      /\ net' = [net EXCEPT ![o] = q]
  BY <1>0 DEF TcpWrite, Send
<1>2. /\ e \in Ends /\ o \in Ends /\ o # e /\ end[e] \in End
      /\ net[e] \in Seq(Seg) /\ net[o] \in Seq(Seg)
      /\ wrote[e] \in Seq(Outcome) /\ taken[o] \in Seq(Nat)
  BY Ended, Parts DEF NInv, TcpTypes
<1>3. /\ end'[e] = [end[e] EXCEPT !.at = "writing"] /\ end'[o] = end[o]
      /\ net'[o] = q /\ net'[e] = net[e]
      /\ wrote'[e] = Append(wrote[e], "pending") /\ wrote'[o] = wrote[o]
  BY <1>1, <1>2 DEF NInv, TcpTypes
<1>4. end'[e].at = "writing" /\ end'[e] \in End
  BY <1>2, <1>3 DEF End, States
<1>5. g \in Seg /\ g.mine /\ g.flags = PA /\ g.chunk = Len(wrote[e]) + 1
  BY <1>2, TcpAssumption DEF Segment, Seg, End
<1> HIDE DEF g
<1>6. q \in Seq(Seg)
  BY <1>2, <1>5
<1> HIDE DEF q
<1>7. TcpTypes'
  <2>1. Append(wrote[e], "pending") \in Seq(Outcome) /\ Append(wrote[e], "pending") # <<>>
    <3>1. "pending" \in Outcome
      BY DEF Outcome
    <3>2. ASSUME NEW w \in Seq(Outcome), NEW x \in Outcome
          PROVE Append(w, x) \in Seq(Outcome) /\ Append(w, x) # <<>>
      <4>1. Append(w, x) \in Seq(Outcome) /\ Len(Append(w, x)) = Len(w) + 1 /\ Len(w) \in Nat
        OBVIOUS
      <4>2. Len(Append(w, x)) # 0
        BY <4>1
      <4>3. Len(<<>>) = 0
        OBVIOUS
      <4> QED
        BY <4>1, <4>2, <4>3
    <3> QED
      BY <1>2, <3>1, <3>2
  <2>2. end' \in [Ends -> End] /\ net' \in [Ends -> Seq(Seg)] /\ taken' \in [Ends -> Seq(Nat)]
    BY <1>1, <1>2, <1>3, <1>4, <1>6 DEF NInv, TcpTypes
  <2>3. wrote' \in [Ends -> Seq(Outcome)]
    BY <1>1, <2>1 DEF NInv, TcpTypes
  <2>4. \A f \in Ends : end'[f].at = "writing" => wrote'[f] # <<>>
    BY ZenonT(40), <1>3, <2>1, Ended DEF NInv, TcpTypes
  <2> QED
    BY <2>2, <2>3, <2>4 DEF TcpTypes
<1>8. /\ Link("open", net[e], wrote[e], end[o].at, net[o], taken[o])
      /\ Link(end[o].at, net[o], wrote[o], "open", net[e], taken[e])
  BY <1>1, Parts
<1>9. /\ Link("writing", net[e], Append(wrote[e], "pending"), end[o].at, q, taken[o])
      /\ Link(end[o].at, q, wrote[o], "writing", net[e], taken[e])
  BY <1>2, <1>5, <1>8, WriteBegins DEF q
<1>10. Handshake(end["client"].at, net["client"], end["server"].at, net["server"])'
  <2>1. CASE e = "client"
    <3>1. Handshake("open", net["client"], end["server"].at, net["server"])
      BY <1>1, <2>1, Parts
    <3>2. o = "server"
      BY <2>1 DEF Other
    <3>3. Handshake("writing", net["client"], end["server"].at, q)
      BY <1>2, <1>5, <3>1, <3>2, ClientMovesOn DEF q
    <3> QED
      BY <1>3, <1>4, <2>1, <3>2, <3>3
  <2>2. CASE e = "server"
    <3>1. Handshake(end["client"].at, net["client"], "open", net["server"])
      BY <1>1, <2>2, Parts
    <3>2. o = "client"
      BY <2>2 DEF Other
    <3>3. Handshake(end["client"].at, q, "writing", net["server"])
      BY <1>2, <1>5, <3>1, <3>2, ServerMovesOn DEF q
    <3> QED
      BY <1>3, <1>4, <2>2, <3>2, <3>3
  <2> QED
    BY <2>1, <2>2 DEF Ends
<1> QED
  BY <1>1, <1>3, <1>4, <1>7, <1>9, <1>10, Rebuild

(* A resource is dropped.                                                    *)
LEMMA DropStep ==
  ASSUME NInv, NEW e \in Ends, Drop(e)
  PROVE  NInv'
<1> DEFINE o == Other(e)
           g == Fin(e, end[e])
           q == IF end[o].at = "closed" THEN net[o] ELSE Append(net[o], g)
<1>1. /\ end[e].at = "open" /\ UNCHANGED <<wrote, taken>>
      /\ end' = [end EXCEPT ![e] = TcpClosed]
      /\ net' = [net EXCEPT ![o] = q]
  BY DEF Drop, Send
<1>2. /\ e \in Ends /\ o \in Ends /\ o # e /\ end[e] \in End
      /\ net[e] \in Seq(Seg) /\ net[o] \in Seq(Seg)
  BY Ended, Parts DEF NInv, TcpTypes
<1>3. /\ end'[e] = TcpClosed /\ end'[o] = end[o]
      /\ net'[o] = q /\ net'[e] = net[e]
  BY <1>1, <1>2 DEF NInv, TcpTypes
<1>4. TcpClosed \in End /\ TcpClosed.at = "closed"
  BY TcpAssumption DEF TcpClosed, End, States, U
<1>5. g \in Seg /\ g.mine /\ g.flags = FA
  BY <1>2 DEF Fin, Seg, End, FA
<1> HIDE DEF g
<1>6. q \in Seq(Seg)
  BY <1>2, <1>5
<1> HIDE DEF q
<1>7. TcpTypes'
  BY <1>1, <1>2, <1>3, <1>4, <1>6 DEF NInv, TcpTypes
<1>8. /\ Link("open", net[e], wrote[e], end[o].at, net[o], taken[o])
      /\ Link(end[o].at, net[o], wrote[o], "open", net[e], taken[e])
  BY <1>1, Parts
<1>9. /\ Link("closed", net[e], wrote[e], end[o].at, q, taken[o])
      /\ Link(end[o].at, q, wrote[o], "closed", net[e], taken[e])
  <2>1. q = IF end[o].at = "closed" THEN net[o] ELSE Append(net[o], g)
    BY DEF q
  <2> HIDE DEF o
  <2> QED
    BY <1>2, <1>5, <1>8, <2>1, Leaves
<1>10. Handshake(end["client"].at, net["client"], end["server"].at, net["server"])'
  <2>1. CASE e = "client"
    <3>1. Handshake("open", net["client"], end["server"].at, net["server"])
      BY <1>1, <2>1, Parts
    <3>2. o = "server"
      BY <2>1 DEF Other
    <3>3. Handshake("closed", net["client"], end["server"].at, q)
      BY <1>2, <1>5, <3>1, <3>2, ClientMovesOn DEF q
    <3> QED
      BY <1>3, <1>4, <2>1, <3>2, <3>3
  <2>2. CASE e = "server"
    <3>1. Handshake(end["client"].at, net["client"], "open", net["server"])
      BY <1>1, <2>2, Parts
    <3>2. o = "client"
      BY <2>2 DEF Other
    <3>3. Handshake(end["client"].at, q, "closed", net["server"])
      BY <1>2, <1>5, <3>1, <3>2, ServerMovesOn DEF q
    <3> QED
      BY <1>3, <1>4, <2>2, <3>2, <3>3
  <2> QED
    BY <2>1, <2>2 DEF Ends
<1> QED
  BY <1>1, <1>3, <1>4, <1>7, <1>9, <1>10, Rebuild

(* While the server waits for the client's acknowledgement, no data has come *)
(* to the client, and what comes to a connected client is no SYN.            *)
LEMMA NoEarlyData ==
  ASSUME NInv, NEW e \in Ends
  PROVE  /\ end[Other(e)].at = "syn_rcvd" => None(net[e], PA)
         /\ end["client"].at \in Up => None(net["client"], SA)
         /\ end["server"].at \in Up => None(net["client"], SA)
         /\ end["client"].at \in Up /\ end["server"].at = "syn_rcvd" => Quiet(net["client"])
         /\ end["client"].at \in {"closed", "syn_sent"} \cup Up
         /\ end["server"].at \in {"closed", "listen", "syn_rcvd"} \cup Up
<1>1. Handshake(end["client"].at, net["client"], end["server"].at, net["server"]) /\ net["client"] \in Seq(Seg)
  BY Parts DEF Ends, NInv, TcpTypes
<1>2. PA \notin {SA}
  BY Flags
<1>3. end["server"].at = "syn_rcvd" => None(net["client"], PA)
  BY <1>1, <1>2, FewHave DEF Handshake
<1>4. end["client"].at # "syn_rcvd"
  BY <1>1 DEF Handshake, Up
<1>5. end[Other(e)].at = "syn_rcvd" => None(net[e], PA)
  BY <1>3, <1>4 DEF Ends, Other
<1>6. /\ end["client"].at \in Up => None(net["client"], SA)
      /\ end["server"].at \in Up => None(net["client"], SA)
      /\ end["client"].at \in {"closed", "syn_sent"} \cup Up
      /\ end["server"].at \in {"closed", "listen", "syn_rcvd"} \cup Up
  BY <1>1 DEF Handshake, Up
<1>7. end["client"].at \in Up /\ end["server"].at = "syn_rcvd" => Quiet(net["client"])
  BY <1>1, <1>6, FewHave DEF Handshake
<1> QED
  BY <1>5, <1>6, <1>7

(* What is seen of the head of a queue.                                      *)
LEMMA Kinds ==
  ASSUME NEW g \in Seg
  PROVE  /\ Kind(g) = S => g.flags = S
         /\ Kind(g) = SA => g.flags = SA
         /\ Kind(g) = PA => g.flags = PA
         /\ Kind(g) = A => g.flags \in {A, FA}
         /\ g.flags = SA => Kind(g) = SA
         /\ g.flags = A => Kind(g) = A
         /\ g.flags \in {A, FA} /\ "F" \notin g.flags => g.flags = A
<1>1. g.flags \in {S, SA, A, PA, FA}
  BY DEF Seg
<1>2. Kind(g) = g.flags \ {"F"}
  BY DEF Kind
<1> QED
  BY <1>1, <1>2, Flags

(* read meets a segment: data ends it, anything else is passed over.         *)
LEMMA TcpReadStep ==
  ASSUME NInv, NEW e \in Ends, tcp_read(e)
  PROVE  NInv'
<1> DEFINE o == Other(e)
           h == Head(net[e])
           r == [at |-> "open", seq |-> h.ack, ack |-> (h.seq + h.len) % U32]
           g == Ack(r)
           q == Append(net[o], g)
<1>1. end[e].at = "reading" /\ net[e] # <<>> /\ h.mine /\ wrote' = wrote
  BY DEF tcp_read, Arrives
<1>2. /\ e \in Ends /\ o \in Ends /\ o # e /\ end[e] \in End
      /\ net[e] \in Seq(Seg) /\ net[o] \in Seq(Seg) /\ h \in Seg
      /\ wrote[e] \in Seq(Outcome) /\ wrote[o] \in Seq(Outcome)
      /\ taken[e] \in Seq(Nat) /\ taken[o] \in Seq(Nat)
  BY <1>1, Ended, Parts, TailShifts DEF NInv, TcpTypes
<1>3. CASE Kind(h) # PA
  <2>1. net' = [net EXCEPT ![e] = Tail(net[e])] /\ UNCHANGED <<end, wrote, taken>>
    BY <1>3 DEF tcp_read, PA
  <2>2. Tail(net[e]) \in Seq(Seg) /\ Shifted(Tail(net[e]), net[e], 1)
    BY <1>1, <1>2, TailShifts
  <2> QED
    BY <2>1, <2>2, ShiftStep
<1>4. CASE Kind(h) = PA
  <2>1. /\ end' = [end EXCEPT ![e] = r]
        /\ net' = [net EXCEPT ![e] = Tail(net[e]), ![o] = IF end[o].at = "closed" THEN net[o] ELSE q]
        /\ taken' = [taken EXCEPT ![e] = Append(taken[e], h.chunk)]
    BY <1>2, <1>4 DEF tcp_read, Reply, PA
  <2>2. h.flags = PA
    BY <1>2, <1>4, Kinds
  <2>3. r \in End /\ r.at = "open"
    <3>1. h.seq \in U /\ h.ack \in U /\ h.len \in Nat
      BY <1>2 DEF Seg
    <3>2. (h.seq + h.len) % U32 \in U
      <4>1. h.seq + h.len \in Nat
        BY <3>1, TcpAssumption DEF U
      <4> QED
        BY <4>1, TcpAssumption DEF U
    <3> QED
      BY <3>1, <3>2 DEF End, States
  <2>4. g \in Seg /\ g.mine /\ g.flags = A
    BY <2>3 DEF Ack, Seg, End, A
  <2>5. /\ Link("reading", net[e], wrote[e], end[o].at, net[o], taken[o])
        /\ Link(end[o].at, net[o], wrote[o], "reading", net[e], taken[e])
        /\ end[o].at = "syn_rcvd" => None(net[e], PA)
    BY <1>1, Parts, NoEarlyData
  <2> HIDE DEF g, r
  <2>6. /\ end[o].at = "writing"
        /\ Link("open", Tail(net[e]), wrote[e], end[o].at, q, taken[o])
        /\ Link(end[o].at, q, wrote[o], "open", Tail(net[e]), Append(taken[e], h.chunk))
    <3> HIDE DEF o
    <3> QED
      BY <1>1, <1>2, <2>2, <2>4, <2>5, ReadEnds
  <2>7. /\ end'[e] = r /\ end'[o] = end[o]
        /\ net'[o] = q /\ net'[e] = Tail(net[e])
        /\ taken'[e] = Append(taken[e], h.chunk) /\ taken'[o] = taken[o]
    BY <1>2, <2>1, <2>6 DEF NInv, TcpTypes
  <2>8. q \in Seq(Seg) /\ Tail(net[e]) \in Seq(Seg)
    BY <1>1, <1>2, <2>4, TailShifts
  <2>9. TcpTypes'
    <3>1. Append(taken[e], h.chunk) \in Seq(Nat)
      BY <1>2 DEF Seg
    <3>2. end' \in [Ends -> End] /\ net' \in [Ends -> Seq(Seg)] /\ taken' \in [Ends -> Seq(Nat)]
      BY <1>2, <2>1, <2>3, <2>6, <2>8, <3>1 DEF NInv, TcpTypes
    <3>3. \A f \in Ends : end'[f].at = "writing" => wrote'[f] # <<>>
      <4>1. \A f \in Ends : f = e \/ f = o
        BY Ended
      <4>2. end[o].at = "writing" => wrote[o] # <<>>
        BY <1>2 DEF NInv, TcpTypes
      <4>3. end'[e].at # "writing"
        BY <2>3, <2>7
      <4> HIDE DEF o
      <4> QED
        BY <1>1, <2>7, <4>1, <4>2, <4>3
    <3> QED
      BY <1>1, <3>2, <3>3 DEF NInv, TcpTypes
  <2>10. Handshake(end["client"].at, net["client"], end["server"].at, net["server"])'
    <3>1. {"open", "writing"} \subseteq Up
      BY DEF Up
    <3>2. CASE e = "client"
      <4>1. o = "server"
        BY <3>2 DEF Other
      <4>2. None(Tail(net["client"]), SA)
        <5>1. None(net["client"], SA)
          BY <2>6, <3>1, <4>1, NoEarlyData
        <5> QED
          BY <1>1, <1>2, <3>2, <5>1, TailShifts, ShiftedKeeps
      <4>3. Handshake("open", Tail(net["client"]), "writing", q)
        BY <3>1, <4>2, HandshakeCalm
      <4> QED
        BY <2>3, <2>6, <2>7, <3>2, <4>1, <4>3
    <3>3. CASE e = "server"
      <4>1. o = "client"
        BY <3>3 DEF Other
      <4>2. None(q, SA)
        <5>1. None(net["client"], SA)
          BY <2>6, <3>1, <4>1, NoEarlyData
        <5>2. g.flags # SA
          BY <2>4, Flags
        <5> QED
          BY <1>2, <2>4, <4>1, <5>1, <5>2, Sent
      <4>3. Handshake("writing", q, "open", Tail(net["server"]))
        BY <3>1, <4>2, HandshakeCalm
      <4> QED
        BY <2>3, <2>6, <2>7, <3>3, <4>1, <4>3
    <3> QED
      BY <3>2, <3>3 DEF Ends
  <2> QED
    BY <1>1, <2>3, <2>6, <2>7, <2>9, <2>10, Rebuild
<1> QED
  BY <1>3, <1>4

(* write meets a segment, which ends it.                                     *)
LEMMA TcpWriteStep ==
  ASSUME NInv, NEW e \in Ends, tcp_write(e)
  PROVE  NInv'
<1> DEFINE o == Other(e)
           h == Head(net[e])
<1>1. /\ end[e].at = "writing" /\ net[e] # <<>> /\ h.mine /\ taken' = taken
      /\ net' = [net EXCEPT ![e] = Tail(net[e])]
  BY DEF tcp_write, Arrives
<1>2. /\ e \in Ends /\ o \in Ends /\ o # e /\ end[e] \in End
      /\ net[e] \in Seq(Seg) /\ net[o] \in Seq(Seg) /\ h \in Seg
      /\ wrote[e] \in Seq(Outcome) /\ wrote[e] # <<>>
  BY <1>1, Ended, Parts, TailShifts DEF NInv, TcpTypes
<1>3. PICK r \in Outcome, k \in End :
        /\ k.at = "open" /\ end' = [end EXCEPT ![e] = k]
        /\ wrote' = [wrote EXCEPT ![e] = [wrote[e] EXCEPT ![Len(wrote[e])] = r]]
        /\ r = "ok" => h.flags = A
  <2>1. CASE Kind(h) = A
    <3> DEFINE k == [at |-> "open", seq |-> h.ack, ack |-> h.seq]
               r == IF "F" \in h.flags THEN "fin" ELSE "ok"
    <3>1. k \in End /\ k.at = "open"
      BY <1>2 DEF Seg, End, States
    <3>2. r \in Outcome /\ (r = "ok" => h.flags = A)
      BY <1>2, <2>1, Kinds DEF Outcome
    <3>3. /\ end' = [end EXCEPT ![e] = k]
          /\ wrote' = [wrote EXCEPT ![e] = [wrote[e] EXCEPT ![Len(wrote[e])] = r]]
      BY <2>1 DEF tcp_write, A
    <3> QED
      BY <3>1, <3>2, <3>3
  <2>2. CASE Kind(h) # A
    <3> DEFINE k == [end[e] EXCEPT !.at = "open"]
    <3>1. k \in End /\ k.at = "open"
      BY <1>2 DEF End, States
    <3>2. /\ end' = [end EXCEPT ![e] = k]
          /\ wrote' = [wrote EXCEPT ![e] = [wrote[e] EXCEPT ![Len(wrote[e])] = "EPIPE"]]
      BY <2>2 DEF tcp_write, A
    <3>3. "EPIPE" \in Outcome /\ "EPIPE" # "ok"
      BY DEF Outcome
    <3> QED
      BY <3>1, <3>2, <3>3
  <2> QED
    BY <2>1, <2>2
<1> DEFINE z == [wrote[e] EXCEPT ![Len(wrote[e])] = r]
<1>4. /\ end'[e] = k /\ end'[o] = end[o]
      /\ net'[e] = Tail(net[e]) /\ net'[o] = net[o]
      /\ wrote'[e] = z /\ wrote'[o] = wrote[o]
  BY <1>1, <1>2, <1>3 DEF NInv, TcpTypes
<1>5. TcpTypes'
  <2>1. Tail(net[e]) \in Seq(Seg) /\ z \in Seq(Outcome)
    BY <1>1, <1>2, TailShifts
  <2>2. end' \in [Ends -> End] /\ net' \in [Ends -> Seq(Seg)]
    BY <1>1, <1>3, <2>1 DEF NInv, TcpTypes
  <2>3. wrote' \in [Ends -> Seq(Outcome)]
    BY <1>3, <2>1 DEF NInv, TcpTypes
  <2>4. \A f \in Ends : end'[f].at = "writing" => wrote'[f] # <<>>
    BY <1>3, <1>4, Ended DEF NInv, TcpTypes
  <2> QED
    BY <1>1, <2>2, <2>3, <2>4 DEF NInv, TcpTypes
<1>6. /\ Link("writing", net[e], wrote[e], end[o].at, net[o], taken[o])
      /\ Link(end[o].at, net[o], wrote[o], "writing", net[e], taken[e])
  BY <1>1, Parts
<1>7. /\ Link("open", Tail(net[e]), z, end[o].at, net[o], taken[o])
      /\ Link(end[o].at, net[o], wrote[o], "open", Tail(net[e]), taken[e])
  <2> HIDE DEF o
  <2> QED
    BY <1>1, <1>2, <1>3, <1>6, WriteEnds
<1>8. Handshake(end["client"].at, net["client"], end["server"].at, net["server"])'
  <2>1. {"open", "writing"} \subseteq Up
    BY DEF Up
  <2>2. CASE e = "client"
    <3>1. o = "server"
      BY <2>2 DEF Other
    <3>2. end["server"].at # "syn_rcvd" /\ None(net["client"], SA)
      BY <1>1, <1>2, <2>1, <2>2, NoEarlyData, HeadTaken
    <3>3. None(Tail(net["client"]), SA)
      BY <1>1, <1>2, <2>2, <3>2, TailShifts, ShiftedKeeps
    <3>4. end["server"].at = "listen" => None(net["server"], S)
      BY <1>1, <2>2, Parts DEF Handshake
    <3>5. Handshake("open", Tail(net["client"]), end["server"].at, net["server"])
      BY <2>1, <3>2, <3>3, <3>4, NoEarlyData, HandshakeCalm
    <3> QED
      BY <1>3, <1>4, <2>2, <3>1, <3>5
  <2>3. CASE e = "server"
    <3>1. o = "client"
      BY <2>3 DEF Other
    <3>2. None(net["client"], SA) /\ end["client"].at \in {"closed", "syn_sent"} \cup Up
      BY <1>1, <2>1, <2>3, NoEarlyData
    <3>3. Handshake(end["client"].at, net["client"], "open", Tail(net["server"]))
      BY <2>1, <3>2, HandshakeCalm
    <3> QED
      BY <1>3, <1>4, <2>3, <3>1, <3>3
  <2> QED
    BY <2>2, <2>3 DEF Ends
<1> QED
  BY <1>1, <1>3, <1>4, <1>5, <1>7, <1>8, Rebuild

(* The client opens.                                                         *)
LEMMA ClientOpenStep ==
  ASSUME NInv, client_open
  PROVE  NInv'
<1> DEFINE s == end["server"].at
           ns == net["server"]
<1>1. PICK i \in Isn :
        /\ end["client"].at = "closed" /\ UNCHANGED <<wrote, taken>>
        /\ end' = [end EXCEPT !["client"] = [at |-> "syn_sent", seq |-> i, ack |-> 0]]
        /\ net' = [net EXCEPT !["client"] = <<>>,
                              !["server"] = IF s = "closed" THEN ns ELSE
                                Append(ns, [flags |-> S, seq |-> i, ack |-> 0, chunk |-> 0, len |-> 0,
                                            mine |-> TRUE])]
  BY DEF client_open, S, NInv, TcpTypes, Ends
<1> DEFINE k == [at |-> "syn_sent", seq |-> i, ack |-> 0]
           g == [flags |-> S, seq |-> i, ack |-> 0, chunk |-> 0, len |-> 0, mine |-> TRUE]
           q == IF s = "closed" THEN ns ELSE Append(ns, g)
<1>2. "client" \in Ends /\ "server" \in Ends /\ Other("client") = "server" /\ Other("server") = "client"
  BY DEF Ends, Other
<1>3. net["client"] \in Seq(Seg) /\ ns \in Seq(Seg)
  BY <1>2 DEF NInv, TcpTypes
<1>4. i \in U /\ 0 \in U
  BY TcpAssumption DEF U
<1>5. k \in End /\ k.at = "syn_sent" /\ g \in Seg /\ g.mine /\ g.flags = S
  BY <1>4 DEF End, States, Seg
<1>6. /\ end'["client"] = k /\ end'["server"] = end["server"]
      /\ net'["client"] = <<>> /\ net'["server"] = q
  BY <1>1, <1>2 DEF NInv, TcpTypes
<1> HIDE DEF k, g
<1>7. q \in Seq(Seg) /\ q \in {ns, Append(ns, g)}
  BY <1>3, <1>5
<1>8. TcpTypes'
  <2>1. \A f \in Ends : f = "client" \/ f = "server"
    BY DEF Ends
  <2>2. end' \in [Ends -> End] /\ net' \in [Ends -> Seq(Seg)]
    BY <1>1, <1>5, <1>7, NothingSent DEF NInv, TcpTypes, g, k
  <2>3. \A f \in Ends : end'[f].at = "writing" => wrote'[f] # <<>>
    BY <1>1, <1>5, <1>6, <2>1 DEF NInv, TcpTypes
  <2> QED
    BY <1>1, <2>2, <2>3 DEF NInv, TcpTypes
<1> HIDE DEF q
<1>9. /\ Link("closed", net["client"], wrote["client"], s, ns, taken["server"])
      /\ Link(s, ns, wrote["server"], "closed", net["client"], taken["client"])
      /\ Handshake("closed", net["client"], s, ns)
  BY <1>1, <1>2, Parts
<1>10. /\ Link("syn_sent", <<>>, wrote["client"], s, q, taken["server"])
       /\ Link(s, q, wrote["server"], "syn_sent", <<>>, taken["client"])
  <2>1. "closed" \notin Up \cup {"syn_rcvd"} /\ "syn_sent" \notin Up \cup {"syn_rcvd"}
    BY DEF Up
  <2>2. Rising(<<>>, taken["client"]) /\ Below(<<>>, Len(wrote["server"]))
    BY NothingSent
  <2>3. g.flags \in {S, FA}
    BY <1>5
  <2> QED
    BY <1>3, <1>5, <1>7, <1>9, <2>1, <2>2, <2>3, BeginsAgain
<1>11. Handshake("syn_sent", <<>>, s, q)
  <2>1. s \in {"closed", "listen", "syn_rcvd"} \cup Up
    BY <1>9 DEF Handshake
  <2>2. CASE s = "listen"
    <3>1. None(ns, S)
      BY <1>9, <2>2 DEF Handshake
    <3>2. OnlyLast(q, S)
      <4>1. q = Append(ns, g)
        BY <2>2 DEF q
      <4> QED
        BY <1>3, <1>5, <3>1, <4>1, Sent
    <3> QED
      BY <2>2, <3>2, NothingSent DEF Handshake, Up
  <2>3. CASE s = "syn_rcvd"
    <3>1. OnlyFirst(ns, A) /\ Only(ns, {A, FA, S})
      BY <1>9, <2>3 DEF Handshake, Up
    <3>2. q = Append(ns, g)
      BY <2>3 DEF q
    <3>3. OnlyFirst(q, A) /\ Only(q, {A, FA, S})
      BY <1>3, <1>5, <3>1, <3>2, Sent, Flags
    <3> QED
      BY <2>3, <3>3, NothingSent DEF Handshake, Up
  <2>4. CASE s \in {"closed"} \cup Up
    BY <2>4, NothingSent, HandshakeCalm DEF Up
  <2> QED
    BY <2>1, <2>2, <2>3, <2>4
<1> QED
  BY <1>1, <1>2, <1>5, <1>6, <1>8, <1>10, <1>11, Rebuild

(* The server begins to listen.                                              *)
LEMMA ListenStep ==
  ASSUME NInv, TcpListen
  PROVE  NInv'
<1> DEFINE c == end["client"].at
           nc == net["client"]
           ns == net["server"]
           k == [TcpClosed EXCEPT !.at = "listen"]
<1>1. /\ end["server"].at = "closed" /\ UNCHANGED <<wrote, taken>>
      /\ end' = [end EXCEPT !["server"] = k] /\ net' = [net EXCEPT !["server"] = <<>>]
  BY DEF TcpListen
<1>2. "client" \in Ends /\ "server" \in Ends /\ Other("client") = "server" /\ Other("server") = "client"
  BY DEF Ends, Other
<1>3. nc \in Seq(Seg)
  BY <1>2 DEF NInv, TcpTypes
<1>4. k \in End /\ k.at = "listen"
  BY TcpAssumption DEF TcpClosed, End, States, U
<1>5. /\ end'["client"] = end["client"] /\ end'["server"] = k
      /\ net'["client"] = nc /\ net'["server"] = <<>>
  BY <1>1, <1>2 DEF NInv, TcpTypes
<1> HIDE DEF k
<1>6. TcpTypes'
  <2>1. \A f \in Ends : f = "client" \/ f = "server"
    BY DEF Ends
  <2>2. end' \in [Ends -> End] /\ net' \in [Ends -> Seq(Seg)]
    BY <1>1, <1>4, NothingSent DEF NInv, TcpTypes
  <2>3. \A f \in Ends : end'[f].at = "writing" => wrote'[f] # <<>>
    BY <1>1, <1>4, <1>5, <2>1 DEF NInv, TcpTypes
  <2> QED
    BY <1>1, <2>2, <2>3 DEF NInv, TcpTypes
<1>7. /\ Link("closed", ns, wrote["server"], c, nc, taken["client"])
      /\ Link(c, nc, wrote["client"], "closed", ns, taken["server"])
      /\ Handshake(c, nc, "closed", ns)
  BY <1>1, <1>2, Parts
<1>8. /\ Link("listen", <<>>, wrote["server"], c, nc, taken["client"])
      /\ Link(c, nc, wrote["client"], "listen", <<>>, taken["server"])
  <2>2. "closed" \notin Up \cup {"syn_rcvd"} /\ "listen" \notin Up \cup {"syn_rcvd"}
    BY DEF Up
  <2>3. Rising(<<>>, taken["server"]) /\ Below(<<>>, Len(wrote["client"]))
    BY NothingSent
  <2> QED
    BY <1>7, <2>2, <2>3, BeginsQuietly
<1>9. Handshake(c, nc, "listen", <<>>)
  BY <1>7, NothingSent DEF Handshake, Up
<1> QED
  BY <1>1, <1>2, <1>4, <1>5, <1>6, <1>8, <1>9, Rebuild

(* The client gets an answer.                                                *)
LEMMA ClientEstablishStep ==
  ASSUME NInv, client_establish
  PROVE  NInv'
<1> DEFINE s == end["server"].at
           nc == net["client"]
           ns == net["server"]
           h == Head(nc)
<1>1. end["client"].at = "syn_sent" /\ nc # <<>> /\ h.mine /\ UNCHANGED <<wrote, taken>>
  BY DEF client_establish, Arrives
<1>2. "client" \in Ends /\ "server" \in Ends /\ Other("client") = "server" /\ Other("server") = "client"
  BY DEF Ends, Other
<1>3. end["client"] \in End /\ nc \in Seq(Seg) /\ ns \in Seq(Seg) /\ h \in Seg /\ Tail(nc) \in Seq(Seg)
  BY <1>1, <1>2, TailShifts DEF NInv, TcpTypes
<1>4. /\ Link("syn_sent", nc, wrote["client"], s, ns, taken["server"])
      /\ Link(s, ns, wrote["server"], "syn_sent", nc, taken["client"])
      /\ Handshake("syn_sent", nc, s, ns)
  BY <1>1, <1>2, Parts
(* What the step sends, g, and where it leaves the client, k.                *)
<1>5. ASSUME NEW k \in End, k.at # "writing", NEW g \in Seg, NEW q,
             q = IF s = "closed" THEN ns ELSE Append(ns, g),
             end' = [end EXCEPT !["client"] = k], net' = Reply("client", g),
             Link(k.at, Tail(nc), wrote["client"], s, q, taken["server"]),
             Link(s, q, wrote["server"], k.at, Tail(nc), taken["client"]),
             Handshake(k.at, Tail(nc), s, q)
      PROVE NInv'
  <2>1. net' = [net EXCEPT !["client"] = Tail(nc), !["server"] = q]
    BY <1>2, <1>5 DEF Reply, NInv, TcpTypes
  <2>2. /\ end'["client"] = k /\ end'["server"] = end["server"]
        /\ net'["client"] = Tail(nc) /\ net'["server"] = q
    BY <1>2, <1>5, <2>1 DEF NInv, TcpTypes
  <2>3. q \in Seq(Seg)
    BY <1>3, <1>5
  <2>4. TcpTypes'
    <3>1. \A f \in Ends : f = "client" \/ f = "server"
      BY DEF Ends
    <3>2. end' \in [Ends -> End] /\ net' \in [Ends -> Seq(Seg)]
      BY <1>3, <1>5, <2>1, <2>3 DEF NInv, TcpTypes
    <3>3. \A f \in Ends : end'[f].at = "writing" => wrote'[f] # <<>>
      BY <1>1, <1>5, <2>2, <3>1 DEF NInv, TcpTypes
    <3> QED
      BY <1>1, <3>2, <3>3 DEF NInv, TcpTypes
  <2> QED
    BY <1>1, <1>2, <1>5, <2>2, <2>4, Rebuild
<1>6. CASE Kind(h) = SA
  <2> DEFINE k == [at |-> "open", seq |-> h.ack, ack |-> (h.seq + 1) % U32]
             g == Ack(k)
             q == IF s = "closed" THEN ns ELSE Append(ns, g)
  <2>1. end' = [end EXCEPT !["client"] = k] /\ net' = Reply("client", g)
    BY <1>6 DEF client_establish, SA
  <2>2. k \in End /\ k.at = "open"
    <3>1. h.seq \in U /\ h.ack \in U
      BY <1>3 DEF Seg
    <3>2. (h.seq + 1) % U32 \in U
      <4>1. h.seq + 1 \in Nat
        BY <3>1, TcpAssumption DEF U
      <4> QED
        BY <4>1, TcpAssumption DEF U
    <3> QED
      BY <3>1, <3>2 DEF End, States
  <2>3. g \in Seg /\ g.mine /\ g.flags = A
    BY <2>2 DEF Ack, Seg, End, A
  <2> HIDE DEF g, k
  <2>4. ~ None(nc, SA)
    BY <1>1, <1>3, <1>6, Kinds, HeadTaken
  <2>5. s = "syn_rcvd" /\ AtMostOne(nc) /\ Quiet(ns)
    BY <1>4, <2>4 DEF Handshake
  <2>6. q = Append(ns, g)
    BY <2>5
  <2>7. Quiet(Tail(nc))
    BY <1>1, <1>3, <2>5, HeadTaken
  <2>8. /\ Link("open", Tail(nc), wrote["client"], s, q, taken["server"])
        /\ Link(s, q, wrote["server"], "open", Tail(nc), taken["client"])
    BY <1>1, <1>3, <1>4, <2>3, <2>5, <2>6, <2>7, ClientEstablished
  <2>9. Handshake("open", Tail(nc), s, q)
    <3>1. Only(Tail(nc), {SA}) /\ None(Tail(nc), SA)
      BY <2>7, QuietHas
    <3>2. OnlyFirst(q, A) /\ Only(q, {A, PA}) /\ OnlyLast(q, PA) /\ None(q, PA)
      BY <1>3, <2>3, <2>5, <2>6, QuietHas, Sent, Flags
    <3> QED
      BY <2>5, <3>1, <3>2 DEF Handshake, Up
  <2> QED
    BY <1>5, <2>1, <2>2, <2>3, <2>8, <2>9
<1>7. CASE Kind(h) # SA
  <2> DEFINE k == TcpClosed
             g == Fin("client", end["client"])
             q == IF s = "closed" THEN ns ELSE Append(ns, g)
  <2>1. end' = [end EXCEPT !["client"] = k] /\ net' = Reply("client", g)
    BY <1>7 DEF client_establish, SA
  <2>2. k \in End /\ k.at = "closed"
    BY TcpAssumption DEF TcpClosed, End, States, U
  <2>3. g \in Seg /\ g.mine /\ g.flags = FA
    BY <1>3 DEF Fin, Seg, End, FA
  <2> HIDE DEF g, k
  <2>4. q \in {ns, Append(ns, g)}
    OBVIOUS
  <2>5. ~ Quiet(nc) /\ h.flags # SA
    BY <1>1, <1>3, <1>7, Kinds, HeadTaken
  <2>6. s # "syn_rcvd"
    <3>1. s = "syn_rcvd" => Only(nc, {SA})
      BY <1>4 DEF Handshake
    <3> QED
      BY <1>1, <1>3, <2>5, <3>1, HeadTaken
  <2>7. None(nc, SA) /\ (s = "listen" => None(ns, S)) /\ s \in {"closed", "listen"} \cup Up
    BY <1>4, <2>5, <2>6 DEF Handshake
  <2>8. None(Tail(nc), SA) /\ Rising(Tail(nc), taken["client"]) /\ Below(Tail(nc), Len(wrote["server"]))
    <3>1. Rising(nc, taken["client"]) /\ Below(nc, Len(wrote["server"]))
      BY <1>4 DEF Link, Data
    <3> QED
      BY <1>1, <1>3, <2>7, <3>1, TailShifts, ShiftedKeeps
  <2>9. s = "listen" => None(q, S)
    BY <1>3, <2>3, <2>7, Sent, Flags
  <2>10. Handshake("closed", Tail(nc), s, q)
    BY <2>7, <2>8, <2>9, HandshakeCalm
  <2>11. /\ Link("closed", Tail(nc), wrote["client"], s, q, taken["server"])
         /\ Link(s, q, wrote["server"], "closed", Tail(nc), taken["client"])
    <3>1. "closed" \notin Up \cup {"syn_rcvd"} /\ "syn_sent" \notin Up \cup {"syn_rcvd"}
      BY DEF Up
    <3>2. g.flags \in {S, FA}
      BY <2>3
    <3> DEFINE p == Tail(nc)
               t == taken["server"]
               u == taken["client"]
               v == wrote["server"]
               w == wrote["client"]
    <3> HIDE DEF q, s, nc, ns, p, t, u, v, w
    <3>3. Link("syn_sent", nc, w, s, ns, t) /\ Link(s, ns, v, "syn_sent", nc, u)
      BY <1>4 DEF p, t, u, v, w
    <3>4. Rising(p, u) /\ Below(p, Len(v))
      BY <2>8 DEF p, t, u, v, w
    <3>5. Link("closed", p, w, s, q, t) /\ Link(s, q, v, "closed", p, u)
      BY <1>3, <2>3, <2>4, <3>1, <3>2, <3>3, <3>4, BeginsAgain
    <3> QED
      BY <3>5 DEF p, t, u, v, w
  <2> QED
    BY <1>5, <2>1, <2>2, <2>3, <2>10, <2>11
<1> QED
  BY <1>6, <1>7

(* The server, once its queue or end has changed: k is where it is, p what   *)
(* is under way to it, q what is under way to the client.                    *)
LEMMA ServerStep ==
  ASSUME NInv, NEW k \in End, k.at # "writing", NEW p \in Seq(Seg), NEW q \in Seq(Seg),
         end' = [end EXCEPT !["server"] = k], UNCHANGED <<wrote, taken>>,
         net' = [net EXCEPT !["server"] = p, !["client"] = q],
         Link(end["client"].at, q, wrote["client"], k.at, p, taken["server"]),
         Link(k.at, p, wrote["server"], end["client"].at, q, taken["client"]),
         Handshake(end["client"].at, q, k.at, p)
  PROVE  NInv'
<1>1. "client" \in Ends /\ "server" \in Ends /\ Other("client") = "server" /\ Other("server") = "client"
  BY DEF Ends, Other
<1>2. /\ end'["server"] = k /\ end'["client"] = end["client"]
      /\ net'["client"] = q /\ net'["server"] = p
  BY <1>1 DEF NInv, TcpTypes
<1>3. TcpTypes'
  <2>1. \A f \in Ends : f = "client" \/ f = "server"
    BY DEF Ends
  <2>2. end' \in [Ends -> End] /\ net' \in [Ends -> Seq(Seg)]
    BY DEF NInv, TcpTypes
  <2>3. \A f \in Ends : end'[f].at = "writing" => wrote'[f] # <<>>
    BY <1>2, <2>1 DEF NInv, TcpTypes
  <2> QED
    BY <2>2, <2>3 DEF NInv, TcpTypes
<1> QED
  BY <1>1, <1>2, <1>3, Rebuild

(* A listening server gets a segment.                                        *)
LEMMA ServerOpenStep ==
  ASSUME NInv, server_open
  PROVE  NInv'
<1> DEFINE c == end["client"].at
           nc == net["client"]
           ns == net["server"]
           h == Head(ns)
<1>1. end["server"].at = "listen" /\ ns # <<>> /\ UNCHANGED <<wrote, taken>>
  BY DEF server_open
<1>2. "client" \in Ends /\ "server" \in Ends /\ Other("client") = "server" /\ Other("server") = "client"
  BY DEF Ends, Other
<1>3. end["server"] \in End /\ nc \in Seq(Seg) /\ ns \in Seq(Seg) /\ h \in Seg /\ Tail(ns) \in Seq(Seg)
  BY <1>1, <1>2, TailShifts DEF NInv, TcpTypes
<1>4. /\ Link(c, nc, wrote["client"], "listen", ns, taken["server"])
      /\ Link("listen", ns, wrote["server"], c, nc, taken["client"])
      /\ Handshake(c, nc, "listen", ns)
  BY <1>1, <1>2, Parts
<1>5. CASE ~ (h.mine /\ Kind(h) = S)
  <2>1. net' = [net EXCEPT !["server"] = <<>>] /\ end' = end
    BY <1>5 DEF server_open, S
  <2>2. net' = [net EXCEPT !["server"] = <<>>, !["client"] = nc] /\ end' = [end EXCEPT !["server"] = end["server"]]
    BY <1>2, <2>1 DEF NInv, TcpTypes
  <2>3. Rising(<<>>, taken["server"]) /\ Below(<<>>, Len(wrote["client"])) /\ "listen" \notin Up \cup {"syn_rcvd"}
    BY NothingSent DEF Up
  <2>4. /\ Link("listen", <<>>, wrote["server"], c, nc, taken["client"])
        /\ Link(c, nc, wrote["client"], "listen", <<>>, taken["server"])
    BY <1>4, <2>3, BeginsQuietly
  <2>5. Handshake(c, nc, "listen", <<>>)
    BY <1>4, NothingSent DEF Handshake, Up
  <2> QED
    BY <1>1, <1>3, <2>2, <2>4, <2>5, NothingSent, ServerStep
<1>6. CASE h.mine /\ Kind(h) = S
  <2>1. h.flags = S
    BY <1>3, <1>6, Kinds
  <2>2. ~ None(ns, S)
    BY <1>1, <1>3, <1>6, <2>1, HeadTaken
  <2>3. c = "syn_sent" /\ OnlyLast(ns, S) /\ Quiet(nc)
    BY <1>4, <2>2 DEF Handshake
  <2>4. Quiet(Tail(ns))
    BY <1>1, <1>3, <1>6, <2>1, <2>3, HeadTaken
  <2>5. PICK i \in Isn :
          LET r == [at |-> "syn_rcvd", seq |-> i, ack |-> (h.seq + 1) % U32]
          IN  end' = [end EXCEPT !["server"] = r] /\ net' = Reply("server", [Ack(r) EXCEPT !.flags = SA])
    BY <1>6 DEF server_open, S, SA
  <2> DEFINE k == [at |-> "syn_rcvd", seq |-> i, ack |-> (h.seq + 1) % U32]
             g == [Ack(k) EXCEPT !.flags = SA]
             q == Append(nc, g)
  <2>6. k \in End /\ k.at = "syn_rcvd"
    <3>1. h.seq \in U /\ i \in U
      BY <1>3, TcpAssumption DEF Seg, U
    <3>2. (h.seq + 1) % U32 \in U
      <4>1. h.seq + 1 \in Nat
        BY <3>1, TcpAssumption DEF U
      <4> QED
        BY <4>1, TcpAssumption DEF U
    <3> QED
      BY <3>1, <3>2 DEF End, States
  <2>7. g \in Seg /\ g.mine /\ g.flags = SA
    <3> HIDE DEF k
    <3> DEFINE a == Ack(k)
    <3>1. a \in Seg /\ a.mine
      BY <2>6 DEF Ack, Seg, End, A
    <3> HIDE DEF a
    <3>2. [a EXCEPT !.flags = SA] \in Seg /\ [a EXCEPT !.flags = SA].mine /\ [a EXCEPT !.flags = SA].flags = SA
      BY <3>1 DEF Seg
    <3> QED
      BY <3>2 DEF a
  <2>8. end' = [end EXCEPT !["server"] = k] /\ net' = Reply("server", g)
    BY <2>5
  <2> HIDE DEF g, k
  <2>9. net' = [net EXCEPT !["server"] = Tail(ns), !["client"] = q]
    BY <1>2, <2>3, <2>8 DEF Reply, NInv, TcpTypes
  <2>10. q \in Seq(Seg)
    BY <1>3, <2>7
  <2>11. /\ Link("syn_sent", q, wrote["client"], "syn_rcvd", Tail(ns), taken["server"])
         /\ Link("syn_rcvd", Tail(ns), wrote["server"], "syn_sent", q, taken["client"])
    BY <1>1, <1>3, <1>4, <1>6, <2>3, <2>7, Answers
  <2>12. Handshake("syn_sent", q, "syn_rcvd", Tail(ns))
    <3>1. AtMostOne(q) /\ Only(q, {SA})
      BY <1>3, <2>3, <2>7, QuietHas, Sent
    <3>2. OnlyFirst(Tail(ns), A) /\ Only(Tail(ns), {A, FA, S})
      BY <2>4, QuietHas
    <3> QED
      BY <2>4, <3>1, <3>2 DEF Handshake, Up
  <2> HIDE DEF q
  <2> QED
    BY <1>1, <1>3, <2>3, <2>6, <2>8, <2>9, <2>10, <2>11, <2>12, ServerStep
<1> QED
  BY <1>5, <1>6

(* A server that answered gets a segment.                                    *)
LEMMA ServerEstablishStep ==
  ASSUME NInv, server_establish
  PROVE  NInv'
<1> DEFINE c == end["client"].at
           nc == net["client"]
           ns == net["server"]
           h == Head(ns)
<1>1. end["server"].at = "syn_rcvd" /\ ns # <<>> /\ h.mine /\ UNCHANGED <<wrote, taken>>
  BY DEF server_establish, Arrives
<1>2. "client" \in Ends /\ "server" \in Ends /\ Other("client") = "server" /\ Other("server") = "client"
  BY DEF Ends, Other
<1>3. end["server"] \in End /\ nc \in Seq(Seg) /\ ns \in Seq(Seg) /\ h \in Seg /\ Tail(ns) \in Seq(Seg)
  BY <1>1, <1>2, TailShifts DEF NInv, TcpTypes
<1>4. /\ Link(c, nc, wrote["client"], "syn_rcvd", ns, taken["server"])
      /\ Link("syn_rcvd", ns, wrote["server"], c, nc, taken["client"])
      /\ Handshake(c, nc, "syn_rcvd", ns)
  BY <1>1, <1>2, Parts
<1>5. CASE Kind(h) = A
  <2> DEFINE k == [at |-> "open", seq |-> h.ack, ack |-> h.seq]
  <2>1. end' = [end EXCEPT !["server"] = k] /\ net' = [net EXCEPT !["server"] = Tail(ns)]
    BY <1>5 DEF server_establish, A
  <2>2. net' = [net EXCEPT !["server"] = Tail(ns), !["client"] = nc]
    BY <1>2, <2>1 DEF NInv, TcpTypes
  <2>3. k \in End /\ k.at = "open"
    BY <1>3 DEF Seg, End, States
  <2> HIDE DEF k
  <2>4. /\ Link(c, nc, wrote["client"], "open", Tail(ns), taken["server"])
        /\ Link("open", Tail(ns), wrote["server"], c, nc, taken["client"])
        /\ Handshake(c, nc, "open", Tail(ns))
    BY <1>1, <1>3, <1>4, ServerEstablished
  <2> QED
    BY ZenonT(40), <1>1, <1>3, <2>1, <2>2, <2>3, <2>4, ServerStep
<1>6. CASE Kind(h) # A
  <2> DEFINE k == [TcpClosed EXCEPT !.at = "listen"]
             g == Fin("server", end["server"])
             q == IF c = "closed" THEN nc ELSE Append(nc, g)
  <2>1. end' = [end EXCEPT !["server"] = k] /\ net' = [Reply("server", g) EXCEPT !["server"] = <<>>]
    BY <1>6 DEF server_establish, A
  <2>2. net' = [net EXCEPT !["server"] = <<>>, !["client"] = q]
    BY <1>2, <2>1 DEF Reply, NInv, TcpTypes
  <2>3. k \in End /\ k.at = "listen"
    BY TcpAssumption DEF TcpClosed, End, States, U
  <2>4. g \in Seg /\ g.mine /\ g.flags = FA
    BY <1>3 DEF Fin, Seg, End, FA
  <2> HIDE DEF k, g
  <2>5. q \in Seq(Seg)
    BY <1>3, <2>4
  <2>6. /\ Link(c, q, wrote["client"], "listen", <<>>, taken["server"])
        /\ Link("listen", <<>>, wrote["server"], c, q, taken["client"])
        /\ Handshake(c, q, "listen", <<>>)
    BY ZenonT(40), <1>1, <1>3, <1>4, <2>4, GivesUp
  <2> HIDE DEF q
  <2> QED
    BY ZenonT(40), <1>1, <2>1, <2>2, <2>3, <2>5, <2>6, NothingSent, ServerStep
<1> QED
  BY <1>5, <1>6

----------------------------------------------------------------------------
(* Every step keeps the invariant.                                           *)
LEMMA NNext ==
  ASSUME NInv, [TcpNext]_tcpVars
  PROVE  NInv'
<1>1. CASE UNCHANGED tcpVars
  BY <1>1 DEF tcpVars, NInv, TcpTypes, Links
<1>2. ASSUME NEW e \in Ends,
             \/ Lose(e) \/ Stray(e) \/ Skip(e)
             \/ TcpRead(e) \/ TcpWrite(e) \/ tcp_read(e) \/ tcp_write(e) \/ Drop(e)
      PROVE NInv'
  BY <1>2, LoseStep, StrayStep, ReadStep, WriteStep, TcpReadStep, TcpWriteStep, DropStep
<1> QED
  BY <1>1, <1>2, ClientOpenStep, ListenStep, ClientEstablishStep, ServerOpenStep, ServerEstablishStep DEF TcpNext

(* Nothing is under way at the beginning.                                    *)
LEMMA NInit ==
  TcpInit => NInv
<1> SUFFICES ASSUME TcpInit
             PROVE NInv
  OBVIOUS
<1>1. TcpClosed \in End /\ TcpClosed.at = "closed"
  BY TcpAssumption DEF TcpClosed, End, States, U
<1>2. \A e \in Ends : end[e].at = "closed" /\ net[e] = <<>> /\ wrote[e] = <<>> /\ taken[e] = <<>>
  BY <1>1 DEF TcpInit
<1>3. TcpTypes
  BY <1>1, <1>2, NothingSent DEF TcpInit, TcpTypes
<1>4. "closed" \notin Up /\ "closed" # "writing"
  BY DEF Up
<1>5. Sound(<<>>, <<>>)
  BY DEF Sound
<1>6. Data("closed", <<>>, "closed", <<>>, <<>>)
  BY NothingSent DEF Data
<1>7. Link("closed", <<>>, <<>>, "closed", <<>>, <<>>)
  BY <1>4, <1>5, <1>6 DEF Link
<1>8. Links
  BY <1>2, <1>7, Ended DEF Links
<1>9. Handshake("closed", <<>>, "closed", <<>>)
  BY NothingSent, HandshakeCalm
<1> QED
  BY <1>2, <1>3, <1>8, <1>9 DEF NInv, Ends

(* The inductive invariant of both ends: sequence numbers stay in range, a   *)
(* connection begins with nothing under way, there is never more under way   *)
(* than there are writes, and an acknowledgement finds its write.            *)
THEOREM TcpInvariance == TcpSpec => []NInv
  BY NInit, NNext, PTL DEF TcpSpec

-----------------------------------------------------------------------------
(* The lengths: data under way to an end, n, and what it read, t and g, are  *)
(* those of the writes, whose lengths are z, of the other one.               *)
Carried(n) == {n[p] : p \in Mine(n)}
Sized(n, z) == \A h \in Carried(n) : h.flags = PA => h.chunk \in 1..Len(z) /\ h.len = z[h.chunk]
Filled(t, g, z) ==
  /\ Len(g) = Len(t)
  /\ \A i \in 1..Len(t) : /\ t[i] \in 1..Len(z) /\ g[i].room \in Nat
                          /\ g[i].n = Copied(z[t[i]], g[i].room)

Gifts == [n : Nat, room : Nat]
SizesMatch ==
  /\ size \in [Ends -> Seq(Nat)] /\ gave \in [Ends -> Seq(Gifts)]
  /\ \A e \in Ends : /\ Len(size[e]) = Len(wrote[e])
                     /\ Sized(net[Other(e)], size[e])
                     /\ Filled(taken[Other(e)], gave[Other(e)], size[e])

(* What a queue carries after a step.                                        *)
LEMMA Carries ==
  ASSUME NEW n \in Seq(Seg)
  PROVE  /\ n # <<>> => Carried(Tail(n)) \subseteq Carried(n)
         /\ n # <<>> /\ Head(n).mine => Head(n) \in Carried(n)
         /\ \A g : Carried(Append(n, g)) \subseteq Carried(n) \cup {g}
         /\ \A g : ~ g.mine => Carried(Append(n, g)) \subseteq Carried(n)
         /\ Carried(<<>>) = {}
<1>1. n # <<>> => Carried(Tail(n)) \subseteq Carried(n)
  <2> SUFFICES ASSUME n # <<>>, NEW p \in Mine(Tail(n))
               PROVE Tail(n)[p] \in Carried(n)
    BY DEF Carried
  <2>1. /\ Len(Tail(n)) = Len(n) - 1 /\ Len(n) \in Nat \ {0}
        /\ \A i \in 1..Len(Tail(n)) : Tail(n)[i] = n[i + 1]
    OBVIOUS
  <2>2. p + 1 \in Mine(n) /\ Tail(n)[p] = n[p + 1]
    BY <2>1 DEF Mine
  <2> QED
    BY <2>2 DEF Carried
<1>2. n # <<>> /\ Head(n).mine => Head(n) \in Carried(n)
  <2> SUFFICES ASSUME n # <<>>, Head(n).mine
               PROVE Head(n) \in Carried(n)
    OBVIOUS
  <2>1. Head(n) = n[1] /\ 1 \in 1..Len(n)
    OBVIOUS
  <2> QED
    BY <2>1 DEF Carried, Mine
<1>3. ASSUME NEW g
      PROVE /\ Carried(Append(n, g)) \subseteq Carried(n) \cup {g}
            /\ ~ g.mine => Carried(Append(n, g)) \subseteq Carried(n)
  <2> DEFINE m == Append(n, g)
  <2>1. /\ Len(m) = Len(n) + 1 /\ Len(n) \in Nat
        /\ m[Len(n) + 1] = g
        /\ \A p \in 1..Len(n) : m[p] = n[p]
    OBVIOUS
  <2> HIDE DEF m
  <2>2. ASSUME NEW p \in Mine(m)
        PROVE m[p] \in Carried(n) \/ (m[p] = g /\ g.mine)
    <3>1. p \in 1..Len(m) /\ m[p].mine
      BY DEF Mine
    <3>2. CASE p = Len(n) + 1
      BY <2>1, <3>1, <3>2
    <3>3. CASE p \in 1..Len(n)
      BY <2>1, <3>1, <3>3 DEF Carried, Mine
    <3> QED
      BY <2>1, <3>1, <3>2, <3>3
  <2>3. \A h \in Carried(m) : h \in Carried(n) \/ (h = g /\ g.mine)
    BY <2>2 DEF Carried
  <2> QED
    BY <2>3 DEF m
<1>4. Carried(<<>>) = {}
  BY DEF Carried, Mine
<1> QED
  BY <1>1, <1>2, <1>3, <1>4

(* A step that neither reads nor writes keeps the lengths, if what is under  *)
(* way has no new data.                                                      *)
LEMMA SizesKeep ==
  ASSUME SizesMatch, UNCHANGED <<size, taken, gave>>,
         \A e \in Ends : Len(wrote'[e]) = Len(wrote[e]),
         \A e \in Ends : \A h \in Carried(net'[e]) : h.flags = PA => h \in Carried(net[e])
  PROVE  SizesMatch'
<1>1. ASSUME NEW e \in Ends
      PROVE (/\ Len(size[e]) = Len(wrote[e])
             /\ Sized(net[Other(e)], size[e])
             /\ Filled(taken[Other(e)], gave[Other(e)], size[e]))'
  <2>1. Other(e) \in Ends
    BY Ended
  <2>2. Sized(net'[Other(e)], size[e])
    BY <2>1 DEF SizesMatch, Sized
  <2> QED
    BY <2>2 DEF SizesMatch
<1> QED
  BY <1>1 DEF SizesMatch

(* write sends data of its length.                                           *)
LEMMA WriteSized ==
  ASSUME NInv, SizesMatch, NEW e \in Ends, TcpWrite(e)
  PROVE  SizesMatch'
<1>0. PICK l \in Lens : size' = [size EXCEPT ![e] = Append(size[e], l)] /\ Send(e, Segment(e, PA, Len(wrote[e]) + 1, l))
  BY DEF TcpWrite, PA
<1> DEFINE o == Other(e)
           g == Segment(e, PA, Len(wrote[e]) + 1, l)
           z == Append(size[e], l)
           w == Append(wrote[e], "pending")
           q == IF end[o].at = "closed" THEN net[o] ELSE Append(net[o], g)
<1>1. /\ taken' = taken /\ gave' = gave /\ wrote' = [wrote EXCEPT ![e] = w] /\ size' = [size EXCEPT ![e] = z]
      /\ net' = [net EXCEPT ![o] = q]
  BY <1>0 DEF TcpWrite, Send
<1>2. /\ o \in Ends /\ o # e /\ Other(o) = e /\ end[e] \in End /\ net[o] \in Seq(Seg) /\ net[e] \in Seq(Seg)
      /\ wrote[e] \in Seq(Outcome) /\ size[e] \in Seq(Nat) /\ l \in Nat
      /\ \A f \in Ends : f = e \/ f = o
  BY Ended, TcpAssumption DEF NInv, TcpTypes, SizesMatch
<1>3. g \in Seg /\ g.flags = PA /\ g.chunk = Len(wrote[e]) + 1 /\ g.len = l
  BY <1>2 DEF Segment, Seg, End
<1>4. Len(size[e]) = Len(wrote[e]) /\ Len(wrote[e]) \in Nat
  BY <1>2 DEF SizesMatch
<1>5. /\ z \in Seq(Nat) /\ Len(z) = Len(size[e]) + 1 /\ z[Len(size[e]) + 1] = l
      /\ \A i \in 1..Len(size[e]) : z[i] = size[e][i]
  BY <1>2
<1>6. Len(w) = Len(wrote[e]) + 1
  BY <1>2 DEF Outcome
<1> HIDE DEF g, z, w
<1>7. Carried(q) \subseteq Carried(net[o]) \cup {g}
  BY <1>2, <1>3, Carries
<1> HIDE DEF q, o
<1>8. /\ wrote'[e] = w /\ wrote'[o] = wrote[o] /\ size'[e] = z /\ size'[o] = size[o]
      /\ net'[o] = q /\ net'[e] = net[e]
  BY <1>1, <1>2 DEF NInv, TcpTypes, SizesMatch
<1>9. Sized(q, z)
  <2> SUFFICES ASSUME NEW h \in Carried(q), h.flags = PA
               PROVE h.chunk \in 1..Len(z) /\ h.len = z[h.chunk]
    BY DEF Sized
  <2>1. CASE h = g
    BY <1>3, <1>4, <1>5, <2>1
  <2>2. CASE h \in Carried(net[o])
    <3>1. h.chunk \in 1..Len(size[e]) /\ h.len = size[e][h.chunk]
      BY <2>2 DEF SizesMatch, Sized, o
    <3> QED
      BY <1>4, <1>5, <3>1
  <2> QED
    BY <1>7, <2>1, <2>2
<1>10. Filled(taken[o], gave[o], z)
  <2>1. Filled(taken[o], gave[o], size[e])
    BY DEF SizesMatch, o
  <2>2. ASSUME NEW i \in 1..Len(taken[o])
        PROVE taken[o][i] \in 1..Len(z) /\ z[taken[o][i]] = size[e][taken[o][i]]
    <3>1. taken[o][i] \in 1..Len(size[e])
      BY <2>1 DEF Filled
    <3> QED
      BY <1>4, <1>5, <3>1
  <2> QED
    BY <2>1, <2>2 DEF Filled
<1>11. Len(size[o]) = Len(wrote[o]) /\ Sized(net[e], size[o]) /\ Filled(taken[e], gave[e], size[o])
  BY <1>2 DEF SizesMatch
<1>12. size' \in [Ends -> Seq(Nat)] /\ gave' \in [Ends -> Seq(Gifts)]
  BY <1>1, <1>5 DEF SizesMatch
<1>13. Len(z) = Len(w)
  BY <1>4, <1>5, <1>6
<1>14. Other(e) = o
  BY DEF o
<1> QED
  BY <1>1, <1>2, <1>8, <1>9, <1>10, <1>11, <1>12, <1>13, <1>14 DEF SizesMatch

(* read copies what its buffer has room for.                                 *)
LEMMA ReadSized ==
  ASSUME NInv, SizesMatch, NEW e \in Ends, tcp_read(e)
  PROVE  SizesMatch'
<1> DEFINE o == Other(e)
           h == Head(net[e])
           r == [at |-> "open", seq |-> h.ack, ack |-> (h.seq + h.len) % U32]
           g == Ack(r)
           q == IF end[o].at = "closed" THEN net[o] ELSE Append(net[o], g)
<1>1. net[e] # <<>> /\ h.mine /\ wrote' = wrote /\ size' = size
  BY DEF tcp_read, Arrives
<1>2. /\ o \in Ends /\ o # e /\ Other(o) = e /\ net[e] \in Seq(Seg) /\ net[o] \in Seq(Seg) /\ h \in Seg
      /\ taken[e] \in Seq(Nat) /\ gave[e] \in Seq(Gifts)
      /\ \A f \in Ends : f = e \/ f = o
  BY <1>1, Ended, TailShifts DEF NInv, TcpTypes, SizesMatch
<1>3. CASE Kind(h) # PA
  <2>1. net' = [net EXCEPT ![e] = Tail(net[e])] /\ UNCHANGED <<taken, gave>>
    BY <1>3 DEF tcp_read, PA
  <2>2. net'[e] = Tail(net[e]) /\ net'[o] = net[o]
    BY <1>2, <2>1 DEF NInv, TcpTypes
  <2>3. Carried(net'[e]) \subseteq Carried(net[e])
    BY <1>1, <1>2, <2>2, Carries
  <2> HIDE DEF o
  <2> QED
    BY <1>1, <1>2, <2>1, <2>2, <2>3, SizesKeep
<1>4. CASE Kind(h) = PA
  <2>0. PICK room \in Rooms : gave' = [gave EXCEPT ![e] = Append(gave[e], [n |-> Copied(h.len, room), room |-> room])]
    BY <1>4 DEF tcp_read, PA
  <2> DEFINE y == [n |-> Copied(h.len, room), room |-> room]
             t == Append(taken[e], h.chunk)
             k == Append(gave[e], y)
  <2>1. /\ net' = [net EXCEPT ![e] = Tail(net[e]), ![o] = q]
        /\ taken' = [taken EXCEPT ![e] = t] /\ gave' = [gave EXCEPT ![e] = k]
    BY <1>2, <1>4, <2>0 DEF tcp_read, Reply, PA
  <2>2. h.flags = PA
    BY <1>2, <1>4, Kinds
  <2>3. room \in Nat /\ h.len \in Nat /\ h.chunk \in Nat
    BY <1>2, TcpAssumption DEF Seg
  <2>4. y \in Gifts /\ y.room = room /\ y.n = Copied(h.len, room)
    BY <2>3 DEF Gifts, Copied
  <2>5. g \in Seg /\ g.flags = A
    <3>1. h.seq \in U /\ h.ack \in U
      BY <1>2 DEF Seg
    <3>2. (h.seq + h.len) % U32 \in U
      <4>1. h.seq + h.len \in Nat
        BY <2>3, <3>1, TcpAssumption DEF U
      <4> QED
        BY <4>1, TcpAssumption DEF U
    <3>3. r.seq \in U /\ r.ack \in U
      BY <3>1, <3>2
    <3> HIDE DEF r
    <3> QED
      BY <3>3 DEF Ack, Seg, A
  <2> HIDE DEF g, y
  <2>6. Carried(q) \subseteq Carried(net[o]) \cup {g} /\ g.flags # PA
    BY <1>2, <2>5, Carries, Flags
  <2>7. Carried(Tail(net[e])) \subseteq Carried(net[e]) /\ h \in Carried(net[e])
    BY <1>1, <1>2, Carries
  <2>8. /\ t \in Seq(Nat) /\ Len(t) = Len(taken[e]) + 1 /\ t[Len(taken[e]) + 1] = h.chunk /\ Len(taken[e]) \in Nat
        /\ \A i \in 1..Len(taken[e]) : t[i] = taken[e][i]
    BY <1>2, <2>3
  <2>9. /\ k \in Seq(Gifts) /\ Len(k) = Len(gave[e]) + 1 /\ k[Len(gave[e]) + 1] = y
        /\ \A i \in 1..Len(gave[e]) : k[i] = gave[e][i]
    BY <1>2, <2>4
  <2> HIDE DEF q, h, o, t, k
  <2>10. /\ net'[e] = Tail(net[e]) /\ net'[o] = q /\ taken'[e] = t /\ taken'[o] = taken[o]
         /\ gave'[e] = k /\ gave'[o] = gave[o]
    BY <1>2, <2>1 DEF NInv, TcpTypes, SizesMatch
  <2>11. Sized(net[e], size[o]) /\ Filled(taken[e], gave[e], size[o]) /\ Len(size[o]) = Len(wrote[o])
    BY <1>2 DEF SizesMatch
  <2>12. Sized(net[o], size[e]) /\ Filled(taken[o], gave[o], size[e]) /\ Len(size[e]) = Len(wrote[e])
    BY DEF SizesMatch, o
  <2>13. Sized(Tail(net[e]), size[o])
    BY <2>7, <2>11 DEF Sized
  <2>14. Sized(q, size[e])
    BY <2>6, <2>12 DEF Sized
  <2>15. Filled(t, k, size[o])
    <3>1. h.chunk \in 1..Len(size[o]) /\ h.len = size[o][h.chunk]
      BY <2>2, <2>7, <2>11 DEF Sized
    <3>2. Len(gave[e]) = Len(taken[e])
      BY <2>11 DEF Filled
    <3>3. ASSUME NEW i \in 1..Len(t)
          PROVE t[i] \in 1..Len(size[o]) /\ k[i].room \in Nat /\ k[i].n = Copied(size[o][t[i]], k[i].room)
      <4>1. CASE i = Len(taken[e]) + 1
        BY <2>3, <2>4, <2>8, <2>9, <3>1, <3>2, <4>1
      <4>2. CASE i \in 1..Len(taken[e])
        BY <2>8, <2>9, <2>11, <3>2, <4>2 DEF Filled
      <4> QED
        BY <2>8, <4>1, <4>2
    <3> QED
      BY <2>8, <2>9, <3>2, <3>3 DEF Filled
  <2>16. size' \in [Ends -> Seq(Nat)] /\ gave' \in [Ends -> Seq(Gifts)]
    BY <1>1, <2>1, <2>9 DEF SizesMatch
  <2>17. Other(e) = o
    BY DEF o
  <2> QED
    BY <1>1, <1>2, <2>10, <2>11, <2>12, <2>13, <2>14, <2>15, <2>16, <2>17 DEF SizesMatch
<1> QED
  BY <1>3, <1>4

(* Queues of which an end may have taken its head or all, and to which it    *)
(* may have sent something without data.                                     *)
LEMMA NoNewData ==
  ASSUME NInv, NEW e \in Ends, NEW p, NEW q, NEW g, g.flags # PA,
         p \in {net[e], <<>>} \/ (net[e] # <<>> /\ p = Tail(net[e])),
         q \in {net[Other(e)], Append(net[Other(e)], g)},
         net' = [net EXCEPT ![e] = p, ![Other(e)] = q]
  PROVE  \A f \in Ends : \A h \in Carried(net'[f]) : h.flags = PA => h \in Carried(net[f])
<1> DEFINE o == Other(e)
<1>1. o \in Ends /\ o # e /\ (\A f \in Ends : f = e \/ f = o) /\ net[e] \in Seq(Seg) /\ net[o] \in Seq(Seg)
  BY Ended DEF NInv, TcpTypes
<1>2. Carried(p) \subseteq Carried(net[e])
  BY <1>1, Carries
<1>3. Carried(q) \subseteq Carried(net[o]) \cup {g}
  BY <1>1, Carries
<1>4. net'[e] = p /\ net'[o] = q
  BY <1>1 DEF NInv, TcpTypes
<1> HIDE DEF o
<1> QED
  BY <1>1, <1>2, <1>3, <1>4

(* The other steps send no data.                                             *)
LEMMA OtherSized ==
  ASSUME NInv, SizesMatch, [TcpNext]_tcpVars,
         \A e \in Ends : ~ TcpWrite(e) /\ ~ tcp_read(e)
  PROVE  SizesMatch'
<1> USE DEF NInv, TcpTypes
<1>0. /\ "client" \in Ends /\ "server" \in Ends /\ Other("client") = "server" /\ Other("server") = "client"
      /\ \A e \in Ends : Other(e) \in Ends /\ Other(e) # e
  BY Ended DEF Ends, Other
<1>s. \A r : /\ Ack(r).flags # PA /\ Fin("client", r).flags # PA /\ Fin("server", r).flags # PA
             /\ [Ack(r) EXCEPT !.flags = SA].flags # PA
  BY Flags DEF Ack, Fin, A, FA
<1>f. \A e, r : Fin(e, r).flags # PA
  BY Flags DEF Fin, FA
<1>1. CASE UNCHANGED tcpVars
  BY <1>1 DEF tcpVars, SizesMatch
<1>2. ASSUME NEW e \in Ends, Lose(e) \/ Skip(e) \/ tcp_write(e)
      PROVE  SizesMatch'
  <2>1. net[e] # <<>> /\ net' = [net EXCEPT ![e] = Tail(net[e])] /\ UNCHANGED <<size, taken, gave>>
    BY <1>2 DEF Lose, Skip, tcp_write, Arrives
  <2>2. net' = [net EXCEPT ![e] = Tail(net[e]), ![Other(e)] = net[Other(e)]]
    BY <1>0, <2>1
  <2>3. \A f \in Ends : Len(wrote'[f]) = Len(wrote[f])
    <3>1. CASE wrote' = wrote
      BY <3>1
    <3>2. CASE tcp_write(e)
      <4>1. wrote[e] \in Seq(Outcome)
        OBVIOUS
      <4>2. ASSUME NEW y PROVE Len([wrote[e] EXCEPT ![Len(wrote[e])] = y]) = Len(wrote[e])
        BY <4>1
      <4>3. PICK y : wrote' = [wrote EXCEPT ![e] = [wrote[e] EXCEPT ![Len(wrote[e])] = y]]
        BY <3>2 DEF tcp_write
      <4> QED
        BY <4>2, <4>3
    <3> QED
      BY <1>2, <3>1, <3>2 DEF Lose, Skip
  <2>4. [flags |-> A].flags # PA
    BY Flags
  <2>5. \A f \in Ends : \A h \in Carried(net'[f]) : h.flags = PA => h \in Carried(net[f])
    <3> DEFINE g == [flags |-> A]
               p == Tail(net[e])
               q == net[Other(e)]
    <3>1. g.flags # PA
      BY <2>4
    <3>2. net[e] # <<>> /\ p = Tail(net[e]) /\ q \in {net[Other(e)], Append(net[Other(e)], g)}
      BY <2>1
    <3>3. net' = [net EXCEPT ![e] = p, ![Other(e)] = q]
      BY <2>2
    <3> HIDE DEF g, p, q
    <3> QED
      BY <3>1, <3>2, <3>3, NoNewData
  <2> QED
    BY <2>1, <2>3, <2>5, SizesKeep
<1>3. ASSUME NEW e \in Ends, Stray(e)
      PROVE  SizesMatch'
  <2>1. \E g : net' = [net EXCEPT ![e] = Append(net[e], g)] /\ ~ g.mine
    <3>1. PICK f \in {A, PA, SA} :
            net' = [net EXCEPT ![e] = Append(net[e], [flags |-> f, seq |-> 0, ack |-> 0, chunk |-> 0,
                                                      len |-> 1, mine |-> FALSE])]
      BY <1>3 DEF Stray, A, PA, SA
    <3> DEFINE g == [flags |-> f, seq |-> 0, ack |-> 0, chunk |-> 0, len |-> 1, mine |-> FALSE]
    <3>2. ~ g.mine /\ net' = [net EXCEPT ![e] = Append(net[e], g)]
      BY <3>1
    <3> HIDE DEF g
    <3> QED
      BY <3>2
  <2>1a. PICK g : net' = [net EXCEPT ![e] = Append(net[e], g)] /\ ~ g.mine
    BY <2>1
  <2>2. net'[e] = Append(net[e], g) /\ \A f \in Ends : f # e => net'[f] = net[f]
    BY <2>1a
  <2>3. net[e] \in Seq(Seg)
    OBVIOUS
  <2>4. Carried(net'[e]) \subseteq Carried(net[e])
    BY <2>1a, <2>2, <2>3, Carries
  <2> QED
    BY <1>3, <2>2, <2>4, SizesKeep DEF Stray
<1>4. ASSUME NEW e \in Ends, TcpRead(e)
      PROVE  SizesMatch'
  BY <1>4, SizesKeep DEF TcpRead
<1>5. ASSUME NEW e \in Ends, Drop(e)
      PROVE  SizesMatch'
  <2> DEFINE g == Fin(e, end[e])
             q == IF end[Other(e)].at = "closed" THEN net[Other(e)] ELSE Append(net[Other(e)], g)
  <2>1. UNCHANGED <<wrote, size, taken, gave>> /\ net' = [net EXCEPT ![Other(e)] = q]
    BY <1>5 DEF Drop, Send
  <2>2. net' = [net EXCEPT ![e] = net[e], ![Other(e)] = q]
    BY <1>0, <2>1
  <2>3. g.flags # PA
    BY <1>f
  <2> HIDE DEF g
  <2>4. \A f \in Ends : \A h \in Carried(net'[f]) : h.flags = PA => h \in Carried(net[f])
    BY <2>2, <2>3, NoNewData
  <2> QED
    BY <2>1, <2>4, SizesKeep
<1>6. CASE client_open
  <2>1. PICK n \in Isn : LET g == [flags |-> S, seq |-> n, ack |-> 0, chunk |-> 0, len |-> 0, mine |-> TRUE]
                         IN net' = [net EXCEPT !["client"] = <<>>,
                                               !["server"] = IF end["server"].at = "closed" THEN net["server"]
                                                             ELSE Append(net["server"], g)]
    BY <1>0, <1>6 DEF client_open, S
  <2> DEFINE g == [flags |-> S, seq |-> n, ack |-> 0, chunk |-> 0, len |-> 0, mine |-> TRUE]
             q == IF end["server"].at = "closed" THEN net["server"] ELSE Append(net["server"], g)
  <2>2. g.flags # PA
    BY Flags
  <2>3. net' = [net EXCEPT !["client"] = <<>>, !["server"] = q]
    BY <2>1
  <2> HIDE DEF g
  <2>4. \A f \in Ends : \A h \in Carried(net'[f]) : h.flags = PA => h \in Carried(net[f])
    BY <1>0, <2>2, <2>3, NoNewData
  <2> QED
    BY <1>6, <2>4, SizesKeep DEF client_open
<1>7. CASE TcpListen
  <2>1. net' = [net EXCEPT !["server"] = <<>>, !["client"] = net["client"]]
    BY <1>0, <1>7 DEF TcpListen
  <2>2. [flags |-> A].flags # PA
    BY Flags
  <2>3. \A f \in Ends : \A h \in Carried(net'[f]) : h.flags = PA => h \in Carried(net[f])
    BY <1>0, <2>1, <2>2, NoNewData
  <2> QED
    BY <1>7, <2>3, SizesKeep DEF TcpListen
<1>8. ASSUME NEW e \in Ends, NEW g, g.flags # PA, net[e] # <<>>,
             net' = Reply(e, g) \/ net' = [Reply(e, g) EXCEPT ![e] = <<>>]
             \/ net' = [net EXCEPT ![e] = Tail(net[e])] \/ net' = [net EXCEPT ![e] = <<>>],
             UNCHANGED <<wrote, size, taken, gave>>
      PROVE  SizesMatch'
  <2>1. \E p \in {Tail(net[e]), <<>>}, q \in {net[Other(e)], Append(net[Other(e)], g)} :
          net' = [net EXCEPT ![e] = p, ![Other(e)] = q]
    BY <1>0, <1>8 DEF Reply
  <2>2. \A f \in Ends : \A h \in Carried(net'[f]) : h.flags = PA => h \in Carried(net[f])
    BY <1>8, <2>1, NoNewData
  <2> QED
    BY <1>8, <2>2, SizesKeep
<1>9. CASE client_establish
  <2>1. \E g : g.flags # PA /\ net' = Reply("client", g)
    <3> DEFINE h == Head(net["client"])
               r == [at |-> "open", seq |-> h.ack, ack |-> (h.seq + 1) % U32]
    <3>1. net' = Reply("client", Ack(r)) \/ net' = Reply("client", Fin("client", end["client"]))
      BY <1>9 DEF client_establish
    <3> HIDE DEF r
    <3> QED
      BY <1>s, <3>1
  <2>2. net["client"] # <<>> /\ UNCHANGED <<wrote, size, taken, gave>>
    BY <1>9 DEF client_establish, Arrives
  <2> QED
    BY <1>0, <1>8, <2>1, <2>2
<1>10. CASE server_open
  <2>1. \E g : g.flags # PA /\ (net' = Reply("server", g) \/ net' = [net EXCEPT !["server"] = <<>>])
    <3> DEFINE h == Head(net["server"])
    <3>1. \/ net' = [net EXCEPT !["server"] = <<>>]
          \/ \E n \in Isn : LET r == [at |-> "syn_rcvd", seq |-> n, ack |-> (h.seq + 1) % U32]
                            IN net' = Reply("server", [Ack(r) EXCEPT !.flags = SA])
      BY <1>10 DEF server_open, SA
    <3> HIDE DEF h
    <3>2. CASE net' = [net EXCEPT !["server"] = <<>>]
      BY <1>s, <3>2
    <3>3. ASSUME NEW n \in Isn, net' = Reply("server", [Ack([at |-> "syn_rcvd", seq |-> n, ack |-> (h.seq + 1) % U32])
                                                         EXCEPT !.flags = SA])
          PROVE \E g : g.flags # PA /\ net' = Reply("server", g)
      <4> DEFINE r == [at |-> "syn_rcvd", seq |-> n, ack |-> (h.seq + 1) % U32]
      <4>1. net' = Reply("server", [Ack(r) EXCEPT !.flags = SA])
        BY <3>3
      <4> HIDE DEF r
      <4> QED
        BY <1>s, <4>1
    <3> QED
      BY <3>1, <3>2, <3>3
  <2>2. net["server"] # <<>> /\ UNCHANGED <<wrote, size, taken, gave>>
    BY <1>10 DEF server_open
  <2> QED
    BY <1>0, <1>8, <2>1, <2>2
<1>11. CASE server_establish
  <2>1. \/ net' = [net EXCEPT !["server"] = Tail(net["server"])]
        \/ net' = [Reply("server", Fin("server", end["server"])) EXCEPT !["server"] = <<>>]
    BY <1>11 DEF server_establish
  <2>2. net["server"] # <<>> /\ UNCHANGED <<wrote, size, taken, gave>>
    BY <1>11 DEF server_establish, Arrives
  <2>3. Fin("server", end["server"]).flags # PA
    BY <1>f
  <2> QED
    BY <1>0, <1>8, <2>1, <2>2, <2>3
<1> QED
  BY <1>1, <1>2, <1>3, <1>4, <1>5, <1>6, <1>7, <1>9, <1>10, <1>11 DEF TcpNext

LEMMA SizesInit ==
  TcpInit => SizesMatch
<1>1. ASSUME TcpInit, NEW e \in Ends
      PROVE /\ Len(size[e]) = Len(wrote[e])
            /\ Sized(net[Other(e)], size[e])
            /\ Filled(taken[Other(e)], gave[Other(e)], size[e])
  <2>1. Other(e) \in Ends
    BY Ended
  <2>2. net[Other(e)] = <<>> /\ size[e] = <<>> /\ wrote[e] = <<>> /\ taken[Other(e)] = <<>> /\ gave[Other(e)] = <<>>
    BY <1>1, <2>1 DEF TcpInit
  <2> QED
    BY <2>2 DEF Sized, Filled, Carried, Mine
<1>2. TcpInit => size \in [Ends -> Seq(Nat)] /\ gave \in [Ends -> Seq(Gifts)]
  BY DEF TcpInit
<1> QED
  BY <1>1, <1>2 DEF SizesMatch

(* The lengths of what is under way and of what was read are those written.  *)
THEOREM SizesInvariance == TcpSpec => []SizesMatch
<1>1. NInv /\ SizesMatch /\ [TcpNext]_tcpVars => SizesMatch'
  BY WriteSized, ReadSized, OtherSized
<1> QED
  BY <1>1, SizesInit, TcpInvariance, PTL DEF TcpSpec

(* Reads return the other end's writes in order, each at most once and no    *)
(* byte that was not written, and a write that returned success, other than  *)
(* through a FIN, was read: all of it or as much as filled the buffer of the *)
(* read, for any number of writes, lengths, losses and openings              *)
(* (Resource::read and write).                                               *)
THEOREM AckedWereRead == TcpSpec => []AckedWasRead
<1>1. ASSUME NInv, SizesMatch
      PROVE AckedWasRead
  <2> SUFFICES ASSUME NEW e \in Ends
               PROVE LET t == taken[Other(e)]
                         g == gave[Other(e)]
                     IN /\ \A i, j \in 1..Len(t) : i < j => t[i] < t[j]
                        /\ \A i \in 1..Len(t) : t[i] \in 1..Len(wrote[e]) /\ g[i].n <= size[e][t[i]]
                        /\ \A k \in 1..Len(wrote[e]) :
                             wrote[e][k] = "ok" => \E i \in 1..Len(t) : t[i] = k /\ g[i].n \in {size[e][k], g[i].room}
    BY DEF AckedWasRead
  <2> DEFINE t == taken[Other(e)]
             g == gave[Other(e)]
             z == size[e]
  <2>1. Sound(wrote[e], t)
    BY <1>1 DEF NInv, Links, Link
  <2>2. Filled(t, g, z) /\ z \in Seq(Nat) /\ Len(z) = Len(wrote[e])
    BY <1>1 DEF SizesMatch
  <2> HIDE DEF t, g, z
  <2>3. ASSUME NEW i \in 1..Len(t)
        PROVE  g[i].n <= z[t[i]] /\ g[i].n \in {z[t[i]], g[i].room}
    <3>1. z[t[i]] \in Nat /\ g[i].room \in Nat /\ g[i].n = Copied(z[t[i]], g[i].room)
      BY <2>2 DEF Filled
    <3> QED
      BY <3>1 DEF Copied
  <2>4. \A k \in 1..Len(wrote[e]) :
          wrote[e][k] = "ok" => \E i \in 1..Len(t) : t[i] = k /\ g[i].n \in {z[k], g[i].room}
    BY <2>1, <2>3 DEF Sound, Has
  <2> QED
    BY <2>1, <2>3, <2>4 DEF Sound, t, g, z
<1> QED
  BY <1>1, TcpInvariance, SizesInvariance, PTL

(* Between two ends that are connected at most as many segments of theirs    *)
(* are under way to an end as there are ends that write.                     *)
FewUnderWay ==
  \A e \in Ends : end[e].at \in Up /\ end[Other(e)].at \in Up =>
    /\ AtMostTwo(net[e])
    /\ "writing" \notin {end[e].at, end[Other(e)].at} => Quiet(net[e])
    /\ end[e].at # "writing" \/ end[Other(e)].at # "writing" => AtMostOne(net[e])

(* Since a write waits for its answer (write sends one segment and loops),   *)
(* queues between connected ends stay this short, whatever is lost.          *)
THEOREM QueuesShort == TcpSpec => []FewUnderWay
<1>1. NInv => FewUnderWay
  BY DEF NInv, Links, Link, BothUp, FewUnderWay
<1> QED
  BY <1>1, TcpInvariance, PTL

-----------------------------------------------------------------------------
(***************************************************************************)
(* Inet, for any number of hosts, clients, ports and frames.  A process is *)
(* in one of the states its code can be in (Right); what it has been given *)
(* and what it has answered is a function of the frames up to its place    *)
(* in what arrived, and these never change.                                *)
(***************************************************************************)

Hosts == Peers \cup {Me, Bcast}
Arps == [oper : {1, 2}, src_mac : Hosts, src_ip : Hosts, dst_ip : Hosts]
Icmps == [type : {0, 8}, data : Nat]
Udps == [src : Ports, dst : Ports, len : {0, 1}]
Ips == [proto : {"icmp", "udp"}, src : Hosts, dst : Hosts, data : Icmps \cup Udps]
Wired == [src : Hosts, dst : Hosts, type : {"800", "806"}, data : Arps \cup Ips]

(* What peers send, as the schemes meet it.                                  *)
Fair(f) ==
  /\ f \in Wired /\ f.src \in Peers
  /\ f.type = "806" => /\ f.data \in Arps /\ f.data.src_mac = f.src /\ f.data.src_ip = f.src
                       /\ f.dst \in {Me, Bcast}
  /\ f.type = "800" => /\ f.data \in Ips /\ f.data.src = f.src /\ f.dst = Me
                       /\ f.data.proto = "icmp" => /\ f.data.dst = Me /\ f.data.data \in Icmps
                                                   /\ f.data.data.type = 8
                       /\ f.data.proto = "udp" => f.data.data \in Udps
Heard == {f \in Wired : Fair(f)}

EthLink == [at : {"listen", "resolve", "run"}, pos : Nat, mac : Hosts, type : {"800", "806"}, since : Nat]
IpLink == [at : {"accept", "run"}, pos : Nat, mac : Hosts, type : {"800"}, since : Nat,
           ip : Hosts, proto : {"icmp", "udp"}, data : Seq(Nat)]
Socket == [at : {"open", "read", "spin"}, pos : Nat, mac : Hosts, type : {"800"}, since : Nat, ip : Hosts,
           proto : {"udp"}, data : Seq(Nat), host_port : Ports, peer_port : Ports]
Towers == {Closed} \cup EthLink \cup IpLink \cup Socket

(* The states a process may be in, by its resources r, after in arrived.     *)
Waiting(r, at, type, in) == r \in EthLink /\ r.at = at /\ r.mac = Bcast /\ r.type = type /\ r.pos <= Len(in)
Serving(r, in) == r.mac \in Peers /\ r.pos <= Len(in) /\ r.since \in 1..r.pos
Accepted(r, proto, in) ==
  /\ r \in IpLink /\ r.at = "accept" /\ r.proto = proto /\ Serving(r, in) /\ r.ip = r.mac
  /\ r.since = r.pos /\ r.data = <<r.pos>>
  /\ LET f == in[r.pos] IN f.type = "800" /\ f.src = r.mac /\ f.data.proto = proto /\ f.data.dst = Me
IsMine(r, in, i) ==
  LET f == in[i] IN f.type = "800" /\ f.data.proto = "udp" /\ f.data.dst = Me
    /\ f.data.src = r.ip /\ f.data.data.src = r.peer_port /\ f.data.data.dst = r.host_port

(* What a socket was given, g: its own datagrams up to its place, none left  *)
(* out since the opening; one that is kept for a read is the first.          *)
Given(r, g, in) ==
  /\ \A i \in 1..Len(g) : g[i] \in 1..r.pos /\ IsMine(r, in, g[i])
  /\ \A i, j \in 1..Len(g) : i < j => g[i] < g[j]
  /\ r.since >= 1
  /\ r.data = <<>> => \A k \in r.since..r.pos : IsMine(r, in, k) => \E j \in 1..Len(g) : g[j] = k
  /\ r.data # <<>> => /\ g = <<>> /\ r.data = <<r.pos>> /\ r.pos >= 1 /\ IsMine(r, in, r.pos)
                      /\ r.at = "open" /\ r.since = r.pos
Talking(r, g, in) ==
  /\ r \in Socket /\ r.mac \in Peers /\ r.ip = r.mac /\ r.pos <= Len(in) /\ Given(r, g, in)

Right(p, r, g, in) ==
  /\ r \in Towers /\ g \in Seq(Nat)
  /\ p = "arp" => r = Closed \/ Waiting(r, "listen", "806", in)
                  \/ (r \in EthLink /\ r.at = "run" /\ r.type = "806" /\ Serving(r, in))
  /\ p = "icmp" => r = Closed \/ Waiting(r, "listen", "800", in) \/ Accepted(r, "icmp", in)
                   \/ (r \in IpLink /\ r.at = "run" /\ r.proto = "icmp" /\ r.ip = r.mac /\ Serving(r, in))
  /\ p = "server" => r = Closed \/ (Waiting(r, "listen", "800", in) /\ g = <<>>)
                     \/ (Accepted(r, "udp", in) /\ g = <<>>) \/ Talking(r, g, in)
  /\ p \in Clients => r = Closed \/ (Waiting(r, "resolve", "806", in) /\ g = <<>>)
                      \/ (Talking(r, g, in) /\ r.mac = PeerOf[p])

(* The answers of process p among what was sent, out, and what they answer.  *)
AnswersIn(out, p) == {i \in 1..Len(out) : IsAnswer(out[i], p)}
DueOf(p, r, in) == IF r.at # "run" THEN {} ELSE {i \in r.since..r.pos : IsRequest(in[i], r.mac, p)}
Served(p, r, in, out) == Answered(out, AnswersIn(out, p), in, DueOf(p, r, in))

Addressed(out) == \A i \in 1..Len(out) : out[i].type = "800" => out[i].data \in Ips /\ out[i].dst = out[i].data.dst
Table(a) == a \in Seq([ip : Peers, mac : Peers]) /\ \A i \in 1..Len(a) : a[i].mac = a[i].ip

NetInv ==
  /\ arrived \in Seq(Heard) /\ sent \in Seq(Wired) /\ Table(arp) /\ Addressed(sent)
  /\ tower \in [Procs -> Towers] /\ got \in [Procs -> Seq(Nat)]
  /\ \A p \in Procs : Right(p, tower[p], got[p], arrived)
  /\ \A p \in {"arp", "icmp"} : Served(p, tower[p], arrived, sent)

Extends(in, new) == Len(in) <= Len(new) /\ \A i \in 1..Len(in) : new[i] = in[i]

LEMMA Apart ==
  /\ Me \in Hosts /\ Bcast \in Hosts /\ Peers \subseteq Hosts /\ Me # Bcast
  /\ Me \notin Peers /\ Bcast \notin Peers
  /\ "arp" \notin Clients /\ "icmp" \notin Clients /\ "server" \notin Clients
  /\ "arp" \in Procs /\ "icmp" \in Procs /\ "server" \in Procs /\ Clients \subseteq Procs
  /\ ServerPort \in Ports
BY InetAssumption DEF Hosts, Me, Bcast, Procs, ServerPort

LEMMA Appended ==
  ASSUME NEW T, NEW s \in Seq(T), NEW x \in T
  PROVE  /\ Append(s, x) \in Seq(T) /\ Len(Append(s, x)) = Len(s) + 1 /\ Extends(s, Append(s, x))
         /\ Append(s, x)[Len(s) + 1] = x /\ Len(s) \in Nat
         /\ s \o <<x>> = Append(s, x) /\ s \o <<>> = s
BY DEF Extends

(* Nothing of what a process has found changes when more frames arrive.      *)
LEMMA RightGrows ==
  ASSUME NEW p, NEW r, NEW g, NEW in \in Seq(Heard), NEW new \in Seq(Heard), Extends(in, new),
         Right(p, r, g, in)
  PROVE  Right(p, r, g, new)
<1>0. Len(in) \in Nat /\ Len(new) \in Nat /\ Len(in) <= Len(new) /\ g \in Seq(Nat)
  BY DEF Extends, Right
<1>1. \A type, at : Waiting(r, at, type, in) => Waiting(r, at, type, new)
  BY <1>0 DEF Waiting, EthLink
<1>2. r.pos \in Nat /\ Serving(r, in) => Serving(r, new)
  BY <1>0 DEF Serving
<1>3. ASSUME NEW i \in 1..Len(in) PROVE new[i] = in[i]
  BY <1>3 DEF Extends
<1>4. \A proto : Accepted(r, proto, in) => Accepted(r, proto, new)
  <2> SUFFICES ASSUME NEW proto, Accepted(r, proto, in) PROVE Accepted(r, proto, new)
    OBVIOUS
  <2>1. r \in IpLink /\ r.pos \in Nat /\ r.since \in Nat /\ Serving(r, in)
    BY DEF Accepted, IpLink
  <2>2. r.pos \in 1..Len(in)
    BY <1>0, <2>1 DEF Serving
  <2> QED BY <1>2, <1>3, <2>1, <2>2 DEF Accepted
<1>5. Talking(r, g, in) => Talking(r, g, new)
  <2> SUFFICES ASSUME Talking(r, g, in) PROVE Talking(r, g, new)
    OBVIOUS
  <2>1. r \in Socket /\ r.pos \in Nat /\ r.since \in Nat /\ r.pos <= Len(in) /\ Given(r, g, in)
    BY DEF Talking, Socket
  <2>2. ASSUME NEW i \in 1..r.pos PROVE IsMine(r, new, i) <=> IsMine(r, in, i)
    <3>1. i \in 1..Len(in)
      BY <1>0, <2>1
    <3>2. new[i] = in[i]
      BY <1>3, <3>1
    <3> QED BY <3>2 DEF IsMine
  <2>3. \A i \in 1..Len(g) : g[i] \in 1..r.pos
    BY <2>1 DEF Given
  <2>4. r.since >= 1 /\ \A k \in r.since..r.pos : k \in 1..r.pos
    BY <1>0, <2>1 DEF Given
  <2>5. Given(r, g, new)
    BY <1>0, <2>1, <2>2, <2>3, <2>4 DEF Given
  <2> QED BY <1>0, <2>1, <2>5 DEF Talking
<1>6. r \in EthLink \/ r \in IpLink => r.pos \in Nat
  BY DEF EthLink, IpLink
<1> QED BY <1>1, <1>2, <1>4, <1>5, <1>6 DEF Right

(* m matches the answers at Q with the requests at D.                        *)
Matching(m, out, Q, in, D) ==
  /\ m \in [Q -> D]
  /\ \A i, j \in Q : i < j => m[i] < m[j]
  /\ \A k \in D : \E i \in Q : m[i] = k
  /\ \A i \in Q : out[i] = Answer(in[m[i]])

LEMMA AnsweredBy ==
  ASSUME NEW out, NEW Q, NEW in, NEW D
  PROVE  Answered(out, Q, in, D) <=> \E m : Matching(m, out, Q, in, D)
BY DEF Answered, Matching

LEMMA NoneDue ==
  ASSUME NEW out, NEW in
  PROVE  Answered(out, {}, in, {})
<1> DEFINE m == [i \in {} |-> 0]
<1>1. m \in [{} -> {}]
  OBVIOUS
<1> HIDE DEF m
<1> QED BY <1>1 DEF Answered

LEMMA StillAnswered ==
  ASSUME NEW out, NEW Q, NEW in, NEW D, NEW out2, NEW in2, Answered(out, Q, in, D),
         \A i \in Q : out2[i] = out[i], \A k \in D : in2[k] = in[k]
  PROVE  Answered(out2, Q, in2, D)
<1>1. PICK m : Matching(m, out, Q, in, D)
  BY AnsweredBy
<1>2. \A i \in Q : m[i] \in D
  BY <1>1 DEF Matching
<1>3. Matching(m, out2, Q, in2, D)
  BY <1>1, <1>2 DEF Matching
<1> QED BY <1>3, AnsweredBy

(* One request more, later than the others, and its answer.                  *)
LEMMA OneMore ==
  ASSUME NEW Q \in SUBSET Nat, NEW D \in SUBSET Nat, NEW out, NEW in, Answered(out, Q, in, D),
         NEW a \in Nat, \A i \in Q : i < a, NEW d \in Nat, \A k \in D : k < d, NEW out2,
         \A i \in Q : out2[i] = out[i], out2[a] = Answer(in[d])
  PROVE  Answered(out2, Q \cup {a}, in, D \cup {d})
<1>1. PICK m : Matching(m, out, Q, in, D)
  BY AnsweredBy
<1> DEFINE n == [i \in Q \cup {a} |-> IF i = a THEN d ELSE m[i]]
<1>2. \A i \in Q : i # a /\ m[i] \in D /\ m[i] < d /\ i \in Nat
  <2> TAKE i \in Q
  <2>1. m[i] \in D
    BY <1>1 DEF Matching
  <2>2. i \in Nat /\ i < a
    OBVIOUS
  <2>3. m[i] < d
    BY <2>1
  <2> QED BY <2>1, <2>2, <2>3
<1>3. n[a] = d /\ \A i \in Q : n[i] = m[i]
  BY <1>2
<1>4. n \in [Q \cup {a} -> D \cup {d}]
  BY <1>2
<1> HIDE DEF n
<1>5. ASSUME NEW i \in Q \cup {a}, NEW j \in Q \cup {a}, i < j PROVE n[i] < n[j]
  <2>1. i \in Q
    BY <1>2, <1>5
  <2>2. CASE j \in Q
    BY <1>1, <1>3, <1>5, <2>1, <2>2 DEF Matching
  <2>3. CASE j = a
    BY <1>2, <1>3, <2>1, <2>3
  <2> QED BY <2>2, <2>3
<1>6. \A k \in D \cup {d} : \E i \in Q \cup {a} : n[i] = k
  <2>1. \A k \in D : \E i \in Q : m[i] = k
    BY <1>1 DEF Matching
  <2> QED BY <1>3, <2>1
<1>7. \A i \in Q \cup {a} : out2[i] = Answer(in[n[i]])
  BY <1>1, <1>3 DEF Matching
<1>8. Matching(n, out2, Q \cup {a}, in, D \cup {d})
  BY <1>4, <1>5, <1>6, <1>7 DEF Matching
<1> QED BY <1>8, AnsweredBy

LEMMA AnswersAppended ==
  ASSUME NEW out \in Seq(Wired), NEW f \in Wired, NEW p
  PROVE  /\ IsAnswer(f, p) => AnswersIn(Append(out, f), p) = AnswersIn(out, p) \cup {Len(out) + 1}
         /\ ~ IsAnswer(f, p) => AnswersIn(Append(out, f), p) = AnswersIn(out, p)
         /\ \A i \in AnswersIn(out, p) : i \in Nat /\ i < Len(out) + 1 /\ Append(out, f)[i] = out[i]
<1> DEFINE s == Append(out, f)
           n == Len(out)
<1>1. n \in Nat /\ Len(s) = n + 1 /\ s[n + 1] = f /\ \A i \in 1..n : s[i] = out[i]
  BY Appended DEF Extends
<1> HIDE DEF s, n
<1>2. 1..(n + 1) = (1..n) \cup {n + 1} /\ n + 1 \notin 1..n
  BY <1>1
<1>3. AnswersIn(s, p) = {i \in 1..(n + 1) : IsAnswer(s[i], p)} /\ AnswersIn(out, p) = {i \in 1..n : IsAnswer(out[i], p)}
  BY <1>1 DEF AnswersIn, n
<1>4. \A i \in 1..n : i \in AnswersIn(s, p) <=> i \in AnswersIn(out, p)
  BY <1>1, <1>2, <1>3
<1>5. n + 1 \in AnswersIn(s, p) <=> IsAnswer(f, p)
  BY <1>1, <1>2, <1>3
<1>6. AnswersIn(s, p) \subseteq (1..n) \cup {n + 1} /\ AnswersIn(out, p) \subseteq 1..n
  BY <1>2, <1>3
<1>7. /\ IsAnswer(f, p) => AnswersIn(s, p) = AnswersIn(out, p) \cup {n + 1}
      /\ ~ IsAnswer(f, p) => AnswersIn(s, p) = AnswersIn(out, p)
  BY <1>4, <1>5, <1>6
<1>8. \A i \in AnswersIn(out, p) : i \in Nat /\ i < n + 1 /\ s[i] = out[i]
  BY <1>1, <1>6
<1> QED BY <1>7, <1>8 DEF s, n

(* A frame that is not an answer of p changes nothing for p.                 *)
LEMMA ServedOther ==
  ASSUME NEW out \in Seq(Wired), NEW f \in Wired, NEW p, NEW r, NEW in, ~ IsAnswer(f, p),
         Served(p, r, in, out)
  PROVE  Served(p, r, in, Append(out, f))
<1> DEFINE s == Append(out, f)
           D == DueOf(p, r, in)
           Q == AnswersIn(out, p)
<1>1. AnswersIn(s, p) = Q /\ \A i \in Q : s[i] = out[i]
  BY AnswersAppended
<1>2. Answered(out, Q, in, D)
  BY DEF Served
<1> HIDE DEF s, D, Q
<1>3. Answered(s, Q, in, D)
  BY <1>1, <1>2, StillAnswered
<1> QED BY <1>1, <1>3 DEF Served, s, D

LEMMA ServedGrows ==
  ASSUME NEW p, NEW r, NEW in \in Seq(Heard), NEW new, NEW out, Extends(in, new),
         Served(p, r, in, out), r.at = "run" => Serving(r, in) /\ r.pos \in Nat
  PROVE  Served(p, r, new, out)
<1> DEFINE D == DueOf(p, r, in)
           Q == AnswersIn(out, p)
<1>1. Len(in) \in Nat /\ \A i \in 1..Len(in) : new[i] = in[i]
  BY DEF Extends
<1>2. r.at = "run" => \A i \in r.since..r.pos : new[i] = in[i]
  BY <1>1 DEF Serving
<1>3. DueOf(p, r, new) = D /\ \A k \in D : new[k] = in[k]
  BY <1>2 DEF DueOf
<1>4. Answered(out, Q, in, D)
  BY DEF Served
<1> HIDE DEF D, Q
<1>5. Answered(out, Q, new, D)
  BY <1>3, <1>4, StillAnswered
<1> QED BY <1>3, <1>5 DEF Served, Q

(* The next frame of the host that is served: answered if it is a request.   *)
LEMMA ServedStep ==
  ASSUME NEW p, NEW r, NEW new, NEW in \in Seq(Heard), NEW out \in Seq(Wired), NEW x \in Wired,
         r.at = "run", Serving(r, in), r.pos \in Nat, r.pos + 1 <= Len(in), Served(p, r, in, out),
         new.at = "run", new.pos = r.pos + 1, new.since = r.since, new.mac = r.mac
  PROVE  /\ ~ IsRequest(in[r.pos + 1], r.mac, p) => Served(p, new, in, out)
         /\ IsRequest(in[r.pos + 1], r.mac, p) /\ IsAnswer(x, p) /\ x = Answer(in[r.pos + 1])
              => Served(p, new, in, Append(out, x))
<1> DEFINE D == DueOf(p, r, in)
           Q == AnswersIn(out, p)
           d == r.pos + 1
           s == Append(out, x)
<1>1. r.since \in Nat /\ r.since..new.pos = (r.since..r.pos) \cup {d} /\ d \in Nat /\ d \notin r.since..r.pos
  BY DEF Serving
<1>2. /\ D = {i \in r.since..r.pos : IsRequest(in[i], r.mac, p)}
      /\ DueOf(p, new, in) = {i \in r.since..new.pos : IsRequest(in[i], r.mac, p)}
  BY DEF DueOf
<1>3. D \in SUBSET Nat /\ \A k \in D : k < d
  BY <1>1, <1>2
<1>4. /\ IsRequest(in[d], r.mac, p) => DueOf(p, new, in) = D \cup {d}
      /\ ~ IsRequest(in[d], r.mac, p) => DueOf(p, new, in) = D
  BY <1>1, <1>2
<1>5. Answered(out, Q, in, D)
  BY DEF Served
<1>6. ASSUME ~ IsRequest(in[d], r.mac, p) PROVE Served(p, new, in, out)
  BY <1>4, <1>5, <1>6 DEF Served
<1>7. ASSUME IsRequest(in[d], r.mac, p), IsAnswer(x, p), x = Answer(in[d])
      PROVE  Served(p, new, in, s)
  <2>1. /\ AnswersIn(s, p) = Q \cup {Len(out) + 1} /\ Q \in SUBSET Nat
        /\ \A i \in Q : i < Len(out) + 1 /\ s[i] = out[i]
    <3>1. AnswersIn(s, p) = Q \cup {Len(out) + 1}
      BY <1>7, AnswersAppended
    <3>2. \A i \in Q : i \in Nat /\ i < Len(out) + 1 /\ s[i] = out[i]
      BY AnswersAppended
    <3> HIDE DEF Q
    <3> QED BY <3>1, <3>2
  <2>2. Len(out) + 1 \in Nat /\ s[Len(out) + 1] = Answer(in[d])
    BY <1>7, Appended
  <2> HIDE DEF D, Q, d, s
  <2>3. D \in SUBSET Nat /\ d \in Nat /\ \A k \in D : k < d
    BY <1>1, <1>3
  <2>4. Answered(s, Q \cup {Len(out) + 1}, in, D \cup {d})
    BY <1>5, <2>1, <2>2, <2>3, OneMore
  <2> QED BY <1>4, <1>7, <2>1, <2>4 DEF Served
<1> QED BY <1>6, <1>7

(* The first host that is served, from the frame it was taken up with.       *)
LEMMA ServedFirst ==
  ASSUME NEW p, NEW r, NEW new, NEW in \in Seq(Heard), NEW out \in Seq(Wired), NEW x \in Wired,
         r.at # "run", Served(p, r, in, out),
         new.at = "run", new.since = new.pos, new.pos \in Nat
  PROVE  /\ ~ IsRequest(in[new.pos], new.mac, p) => Served(p, new, in, out)
         /\ IsRequest(in[new.pos], new.mac, p) /\ IsAnswer(x, p) /\ x = Answer(in[new.pos])
              => Served(p, new, in, Append(out, x))
<1> DEFINE Q == AnswersIn(out, p)
           d == new.pos
           s == Append(out, x)
<1>1. new.since..new.pos = {d}
  OBVIOUS
<1>2. /\ IsRequest(in[d], new.mac, p) => DueOf(p, new, in) = {} \cup {d}
      /\ ~ IsRequest(in[d], new.mac, p) => DueOf(p, new, in) = {}
  BY <1>1 DEF DueOf
<1>3. Answered(out, Q, in, {})
  BY DEF Served, DueOf
<1>4. ASSUME ~ IsRequest(in[d], new.mac, p) PROVE Served(p, new, in, out)
  BY <1>2, <1>3, <1>4 DEF Served
<1>5. ASSUME IsRequest(in[d], new.mac, p), IsAnswer(x, p), x = Answer(in[d])
      PROVE  Served(p, new, in, s)
  <2>1. /\ AnswersIn(s, p) = Q \cup {Len(out) + 1} /\ Q \in SUBSET Nat
        /\ \A i \in Q : i < Len(out) + 1 /\ s[i] = out[i]
    <3>1. AnswersIn(s, p) = Q \cup {Len(out) + 1}
      BY <1>5, AnswersAppended
    <3>2. \A i \in Q : i \in Nat /\ i < Len(out) + 1 /\ s[i] = out[i]
      BY AnswersAppended
    <3> HIDE DEF Q
    <3> QED BY <3>1, <3>2
  <2>2. Len(out) + 1 \in Nat /\ s[Len(out) + 1] = Answer(in[d])
    BY <1>5, Appended
  <2>3. {} \in SUBSET Nat /\ d \in Nat /\ \A k \in {} : k < d
    OBVIOUS
  <2> HIDE DEF Q, d, s
  <2>4. Answered(s, Q \cup {Len(out) + 1}, in, {} \cup {d})
    BY <1>3, <2>1, <2>2, <2>3, OneMore
  <2> QED BY <1>2, <1>5, <2>1, <2>4 DEF Served
<1> QED BY <1>4, <1>5

LEMMA StepKeeps ==
  ASSUME NetInv, NEW p \in Procs, NEW r, NEW g, NEW out, NEW a,
         tower' = [tower EXCEPT ![p] = r], got' = [got EXCEPT ![p] = g], arrived' = arrived,
         sent' = out, out \in Seq(Wired), Addressed(out), arp' = a, Table(a),
         Right(p, r, g, arrived),
         \A q \in {"arp", "icmp"} : q # p => Served(q, tower[q], arrived, out),
         p \in {"arp", "icmp"} => Served(p, r, arrived, out)
  PROVE  NetInv'
<1>0. /\ arrived \in Seq(Heard) /\ tower \in [Procs -> Towers] /\ got \in [Procs -> Seq(Nat)]
      /\ \A q \in Procs : Right(q, tower[q], got[q], arrived)
      /\ "arp" \in Procs /\ "icmp" \in Procs
  BY Apart DEF NetInv
<1>1. r \in Towers /\ g \in Seq(Nat)
  BY DEF Right
<1>2. /\ tower' \in [Procs -> Towers] /\ got' \in [Procs -> Seq(Nat)]
      /\ tower'[p] = r /\ got'[p] = g
      /\ \A q \in Procs : q # p => tower'[q] = tower[q] /\ got'[q] = got[q]
  BY <1>0, <1>1
<1>3. \A q \in Procs : Right(q, tower'[q], got'[q], arrived)
  BY <1>0, <1>2
<1>4. \A q \in {"arp", "icmp"} : Served(q, tower'[q], arrived, out)
  BY <1>0, <1>2
<1> QED BY <1>0, <1>2, <1>3, <1>4 DEF NetInv

LEMMA NotRunning ==
  ASSUME NEW p, NEW r, NEW new, NEW in, NEW out, r.at # "run", new.at # "run", Served(p, r, in, out)
  PROVE  Served(p, new, in, out)
BY DEF Served, DueOf

LEMMA FramesHeard ==
  ASSUME NetInv, NEW p \in Peers, NEW f \in Frames(p)
  PROVE  f \in Heard
<1>0. Len(arrived) \in Nat /\ ServerPort \in Ports /\ p \in Hosts /\ Peers \subseteq Hosts
      /\ Me \in Hosts /\ Bcast \in Hosts
  BY Apart DEF NetInv
<1>1. ASSUME NEW o \in {1, 2}, NEW d \in Hosts, NEW t \in {Me, Bcast}, f = EthernetII(p, t, "806", Arp(o, p, p, d))
      PROVE  f \in Heard
  BY <1>0, <1>1 DEF Heard, Fair, Wired, Arps, EthernetII, Arp
<1>2. ASSUME f = EthernetII(p, Me, "800", Ipv4("icmp", p, Me, Icmp(8, Len(arrived))))
      PROVE  f \in Heard
  <2>1. f.data \in Ips /\ f.data.data \in Icmps
    BY <1>0, <1>2 DEF Ips, Icmps, EthernetII, Ipv4, Icmp
  <2> QED BY <1>0, <1>2, <2>1 DEF Heard, Fair, Wired, EthernetII, Ipv4, Icmp
<1>3. ASSUME NEW s \in Ports, NEW t \in Ports, NEW l \in {0, 1}, NEW d \in Hosts,
             f = EthernetII(p, Me, "800", Ipv4("udp", p, d, Udp(s, t, l)))
      PROVE  f \in Heard
  <2>1. f.data \in Ips /\ f.data.data \in Udps
    BY <1>0, <1>3 DEF Ips, Udps, EthernetII, Ipv4, Udp
  <2> QED BY <1>0, <1>3, <2>1 DEF Heard, Fair, Wired, EthernetII, Ipv4, Udp
<1>4. CASE \E d \in {Me} \cup (Peers \ {p}) : f = EthernetII(p, Bcast, "806", Arp(1, p, p, d))
  BY <1>0, <1>1, <1>4
<1>5. CASE f = EthernetII(p, Me, "806", Arp(2, p, p, Me))
  BY <1>0, <1>1, <1>5
<1>6. CASE \E s \in Ports, t \in Ports, l \in {0, 1} : f = EthernetII(p, Me, "800", Ipv4("udp", p, Me, Udp(s, t, l)))
  BY <1>0, <1>3, <1>6
<1>7. CASE \E d \in Peers \ {p} : f = EthernetII(p, Me, "800", Ipv4("udp", p, d, Udp(ServerPort, ServerPort, 0)))
  BY <1>0, <1>3, <1>7
<1> QED BY <1>2, <1>4, <1>5, <1>6, <1>7 DEF Frames

LEMMA ArriveKeeps ==
  ASSUME NetInv, NEW p \in Peers, Arrive(p)
  PROVE  NetInv'
<1>0. /\ arrived \in Seq(Heard) /\ \A q \in Procs : Right(q, tower[q], got[q], arrived)
      /\ \A q \in {"arp", "icmp"} : Served(q, tower[q], arrived, sent)
      /\ "arp" \in Procs /\ "icmp" \in Procs
  BY Apart DEF NetInv
<1>1. PICK f \in Frames(p) : arrived' = Append(arrived, f)
  BY DEF Arrive
<1>2. arrived' \in Seq(Heard) /\ Extends(arrived, arrived')
  BY <1>0, <1>1, FramesHeard, Appended
<1>3. \A q \in Procs : Right(q, tower[q], got[q], arrived')
  BY <1>0, <1>2, RightGrows
<1>4. ASSUME NEW q \in {"arp", "icmp"}, tower[q].at = "run" PROVE Serving(tower[q], arrived) /\ tower[q].pos \in Nat
  BY <1>0, <1>4 DEF Right, Closed, Waiting, Accepted, EthLink, IpLink
<1>5. \A q \in {"arp", "icmp"} : Served(q, tower[q], arrived', sent)
  BY <1>0, <1>2, <1>4, ServedGrows
<1>6. sent' = sent /\ arp' = arp /\ tower' = tower /\ got' = got
  BY DEF Arrive
<1> QED BY <1>2, <1>3, <1>5, <1>6 DEF NetInv

LEMMA TakenIs ==
  ASSUME NEW r
  PROVE  /\ r \in EthLink => /\ Taken(r) \in EthLink /\ Taken(r).pos = r.pos + 1 /\ Taken(r).at = r.at
                          /\ Taken(r).mac = r.mac /\ Taken(r).type = r.type /\ Taken(r).since = r.since
         /\ r \in IpLink => /\ Taken(r) \in IpLink /\ Taken(r).pos = r.pos + 1 /\ Taken(r).at = r.at
                            /\ Taken(r).mac = r.mac /\ Taken(r).type = r.type /\ Taken(r).since = r.since
                            /\ Taken(r).ip = r.ip /\ Taken(r).proto = r.proto /\ Taken(r).data = r.data
         /\ r \in Socket => /\ Taken(r) \in Socket /\ Taken(r).pos = r.pos + 1 /\ Taken(r).at = r.at
                            /\ Taken(r).mac = r.mac /\ Taken(r).type = r.type /\ Taken(r).ip = r.ip
                            /\ Taken(r).data = r.data /\ Taken(r).host_port = r.host_port
                            /\ Taken(r).peer_port = r.peer_port /\ Taken(r).since = r.since
<1>1. r \in EthLink => /\ Taken(r) \in EthLink /\ Taken(r).pos = r.pos + 1 /\ Taken(r).at = r.at
                    /\ Taken(r).mac = r.mac /\ Taken(r).type = r.type /\ Taken(r).since = r.since
  BY DEF Taken, EthLink
<1>2. r \in IpLink => /\ Taken(r) \in IpLink /\ Taken(r).pos = r.pos + 1 /\ Taken(r).at = r.at
                      /\ Taken(r).mac = r.mac /\ Taken(r).type = r.type /\ Taken(r).since = r.since
                      /\ Taken(r).ip = r.ip /\ Taken(r).proto = r.proto /\ Taken(r).data = r.data
  BY DEF Taken, IpLink
<1>3. r \in Socket => /\ Taken(r) \in Socket /\ Taken(r).pos = r.pos + 1 /\ Taken(r).at = r.at
                      /\ Taken(r).mac = r.mac /\ Taken(r).type = r.type /\ Taken(r).ip = r.ip
                      /\ Taken(r).data = r.data /\ Taken(r).host_port = r.host_port
                      /\ Taken(r).peer_port = r.peer_port /\ Taken(r).since = r.since
  BY DEF Taken, Socket
<1> QED BY <1>1, <1>2, <1>3

(* What a process is, by the place it is in.                                 *)
LEMMA ByPlace ==
  ASSUME NEW r, NEW g, NEW in
  PROVE  /\ Right("arp", r, g, in) =>
              /\ r.at \in {"closed", "listen", "run"}
              /\ r.at = "closed" => r = Closed
              /\ r.at = "listen" => Waiting(r, "listen", "806", in)
              /\ r.at = "run" => r \in EthLink /\ r.type = "806" /\ Serving(r, in)
         /\ Right("icmp", r, g, in) =>
              /\ r.at \in {"closed", "listen", "accept", "run"}
              /\ r.at = "listen" => Waiting(r, "listen", "800", in)
              /\ r.at = "accept" => Accepted(r, "icmp", in)
              /\ r.at = "run" => r \in IpLink /\ r.proto = "icmp" /\ r.ip = r.mac /\ Serving(r, in)
         /\ Right("server", r, g, in) =>
              /\ r.at \in {"closed", "listen", "accept", "open", "read", "spin"}
              /\ r.at = "listen" => Waiting(r, "listen", "800", in) /\ g = <<>>
              /\ r.at = "accept" => Accepted(r, "udp", in) /\ g = <<>>
              /\ r.at \in {"open", "read", "spin"} => Talking(r, g, in)
         /\ \A p \in Clients : Right(p, r, g, in) =>
              /\ r.at \in {"closed", "resolve", "open", "read", "spin"}
              /\ r.at = "resolve" => Waiting(r, "resolve", "806", in) /\ g = <<>>
              /\ r.at \in {"open", "read", "spin"} => Talking(r, g, in) /\ r.mac = PeerOf[p]
<1>1. Closed.at = "closed" /\ (r \in Socket => r.at \in {"open", "read", "spin"})
  BY DEF Closed, Socket
<1> QED BY <1>1 DEF Right, Waiting, Accepted, Talking

(* The parts of the invariant that a step by one process keeps.              *)
LEMMA Known ==
  ASSUME NetInv, NEW p \in Procs
  PROVE  /\ arrived \in Seq(Heard) /\ sent \in Seq(Wired) /\ Table(arp) /\ Addressed(sent)
         /\ tower \in [Procs -> Towers] /\ got \in [Procs -> Seq(Nat)] /\ Len(arrived) \in Nat
         /\ Right(p, tower[p], got[p], arrived) /\ got[p] \in Seq(Nat)
         /\ \A q \in {"arp", "icmp"} : Served(q, tower[q], arrived, sent)
         /\ Closed.at = "closed"
BY DEF NetInv, Closed

(* The next frame of a process, and that there is one.                       *)
LEMMA NextFrame ==
  ASSUME NetInv, NEW p \in Procs, Pending(p), tower[p].pos \in Nat
  PROVE  /\ Next1(p) \in Heard /\ Fair(Next1(p)) /\ Next1(p) = arrived[tower[p].pos + 1]
         /\ tower[p].pos + 1 \in 1..Len(arrived) /\ tower[p].pos + 1 <= Len(arrived)
<1>1. arrived \in Seq(Heard) /\ Len(arrived) \in Nat
  BY Known
<1>2. tower[p].pos + 1 \in 1..Len(arrived) /\ tower[p].pos + 1 <= Len(arrived)
  BY <1>1 DEF Pending
<1>3. arrived[tower[p].pos + 1] \in Heard
  BY <1>1, <1>2
<1> QED BY <1>2, <1>3 DEF Next1, Heard

LEMMA ListenKeeps ==
  ASSUME NetInv, NEW p \in Procs, Listen(p)
  PROVE  NetInv'
<1> DEFINE type == IF p = "arp" THEN "806" ELSE "800"
           r == Ethernet("listen", Bcast, type)
<1>0. /\ arrived' = arrived /\ sent' = sent /\ arp' = arp /\ tower[p].at = "closed"
      /\ tower' = [tower EXCEPT ![p] = r] /\ got' = [got EXCEPT ![p] = <<>>]
      /\ p \in {"arp", "icmp", "server"} /\ p \notin Clients
  BY DEF Listen, Become, Procs
<1>1. Waiting(r, "listen", type, arrived) /\ r.at = "listen" /\ r \in EthLink
  BY Known, Apart DEF Waiting, Ethernet, EthLink
<1> HIDE DEF r
<1>2. Right(p, r, <<>>, arrived)
  BY <1>0, <1>1 DEF Right, Towers
<1>3. p \in {"arp", "icmp"} => Served(p, r, arrived, sent)
  BY <1>0, <1>1, Known, NotRunning
<1> QED BY <1>0, <1>2, <1>3, Known, StepKeeps

(* Nothing is sent that is an answer, by a process that does not answer.     *)
LEMMA OthersServed ==
  ASSUME NetInv, NEW x \in Wired, x.type = "800" => x.data \in Ips /\ x.dst = x.data.dst, NEW p \in Procs
  PROVE  /\ Append(sent, x) \in Seq(Wired) /\ Addressed(Append(sent, x))
         /\ (\A q \in {"arp", "icmp"} : q # p => ~ IsAnswer(x, q)) =>
               \A q \in {"arp", "icmp"} : q # p => Served(q, tower[q], arrived, Append(sent, x))
<1>0. sent \in Seq(Wired) /\ Addressed(sent) /\ \A q \in {"arp", "icmp"} : Served(q, tower[q], arrived, sent)
  BY Known
<1> DEFINE s == Append(sent, x)
           n == Len(sent)
<1>1. s \in Seq(Wired) /\ n \in Nat /\ Len(s) = n + 1 /\ s[n + 1] = x /\ \A i \in 1..n : s[i] = sent[i]
  BY <1>0, Appended DEF Extends
<1>2. \A q \in {"arp", "icmp"} : ~ IsAnswer(x, q) => Served(q, tower[q], arrived, s)
  BY <1>0, ServedOther
<1>3. \A i \in 1..n : sent[i].type = "800" => sent[i].data \in Ips /\ sent[i].dst = sent[i].data.dst
  BY <1>0 DEF Addressed
<1> HIDE DEF s, n
<1>4. \A i \in 1..(n + 1) : i = n + 1 \/ i \in 1..n
  BY <1>1
<1>5. Addressed(s)
  BY <1>1, <1>3, <1>4 DEF Addressed
<1> QED BY <1>1, <1>2, <1>5 DEF s

(* An ARP request for us, and the answer to it.                              *)
LEMMA ArpAnswers ==
  ASSUME NEW r, NEW f, Fair(f), f.type = "806", r.mac = f.src, r.type = "806"
  PROVE  /\ IsRequest(f, r.mac, "arp") => /\ arp_reply(r, f.data) = <<Answer(f)>> /\ Answer(f) \in Wired
                                          /\ IsAnswer(Answer(f), "arp") /\ ~ IsAnswer(Answer(f), "icmp")
                                          /\ Answer(f).type = "806"
         /\ ~ IsRequest(f, r.mac, "arp") => arp_reply(r, f.data) = <<>>
<1>1. f.data \in Arps /\ f.data.src_ip = f.src /\ f.src \in Hosts /\ Me \in Hosts
  BY Apart DEF Fair
<1>2. IsRequest(f, r.mac, "arp") <=> f.data.oper = 1 /\ f.data.dst_ip = Me
  BY DEF IsRequest
<1>3. Answer(f) = EthernetII(Me, f.src, "806", Arp(2, Me, Me, f.src))
  BY DEF Answer
<1>4. Arp(2, Me, Me, f.src) \in Arps
  BY <1>1 DEF Arp, Arps
<1>5. Answer(f) \in Wired /\ Answer(f).type = "806" /\ Answer(f).data = Arp(2, Me, Me, f.src)
  BY <1>1, <1>3, <1>4 DEF Wired, EthernetII
<1>6. IsAnswer(Answer(f), "arp") /\ ~ IsAnswer(Answer(f), "icmp")
  BY <1>5 DEF IsAnswer, Arp
<1> QED BY <1>1, <1>2, <1>3, <1>5, <1>6 DEF arp_reply, eth_write

LEMMA ArpLoopKeeps ==
  ASSUME NetInv, ArpLoop
  PROVE  NetInv'
<1> DEFINE o == tower["arp"]
           f == Next1("arp")
           r == Taken(o)
           bound == [r EXCEPT !.at = "run", !.mac = f.src, !.since = r.pos]
<1>0. /\ arrived' = arrived /\ arp' = arp /\ got' = got /\ Pending("arp")
      /\ \/ /\ r.at = "listen" /\ open_matches(f, "806")
            /\ tower' = [tower EXCEPT !["arp"] = bound] /\ sent' = sent \o arp_reply(bound, f.data)
         \/ /\ r.at = "run" /\ read_matches(r, f)
            /\ tower' = [tower EXCEPT !["arp"] = r] /\ sent' = sent \o arp_reply(r, f.data)
         \/ /\ ~IF r.at = "listen" THEN open_matches(f, "806") ELSE read_matches(r, f)
            /\ tower' = [tower EXCEPT !["arp"] = r] /\ sent' = sent
  BY DEF ArpLoop, Become
<1>1. "arp" \in Procs /\ Right("arp", o, got["arp"], arrived) /\ got \in [Procs -> Seq(Nat)] /\ Bcast \notin Peers
      /\ "arp" \notin Clients
  BY Known, Apart
<1>2. o \in EthLink /\ o.at \in {"listen", "run"} /\ o.pos \in Nat /\ o.type = "806" /\ o.pos <= Len(arrived)
      /\ (o.at = "listen" => o.mac = Bcast) /\ (o.at = "run" => Serving(o, arrived))
  <2>1. o.at \in {"listen", "run"}
    BY <1>0, <1>1, ByPlace DEF Pending
  <2>2. o \in EthLink /\ o.type = "806" /\ o.pos <= Len(arrived)
        /\ (o.at = "listen" => o.mac = Bcast) /\ (o.at = "run" => Serving(o, arrived))
    BY <1>1, <2>1, ByPlace DEF Waiting, Serving
  <2> QED BY <2>1, <2>2 DEF EthLink
<1>3. /\ f \in Heard /\ Fair(f) /\ f = arrived[o.pos + 1] /\ o.pos + 1 \in 1..Len(arrived) /\ f.src \in Peers
      /\ o.pos + 1 <= Len(arrived)
  BY <1>0, <1>1, <1>2, NextFrame DEF Fair
<1>4. /\ r \in EthLink /\ r.pos = o.pos + 1 /\ r.at = o.at /\ r.mac = o.mac /\ r.type = o.type /\ r.since = o.since
      /\ r.pos \in Nat
  BY <1>2, TakenIs
<1> HIDE DEF r, f
<1>5. /\ bound \in EthLink /\ bound.at = "run" /\ bound.mac = f.src /\ bound.since = r.pos
      /\ bound.pos = r.pos /\ bound.type = r.type
  BY <1>3, <1>4, Apart DEF EthLink
<1> HIDE DEF bound
<1>6. sent \in Seq(Wired) /\ Addressed(sent) /\ Table(arp) /\ arrived \in Seq(Heard)
      /\ Served("arp", o, arrived, sent) /\ got' = [got EXCEPT !["arp"] = got["arp"]]
      /\ \A q \in {"arp", "icmp"} : q # "arp" => Served(q, tower[q], arrived, sent)
  BY <1>0, <1>1, Known
<1>7. Right("arp", r, got["arp"], arrived)
  BY <1>1, <1>2, <1>3, <1>4 DEF Right, Waiting, Serving, Towers
<1>8. Right("arp", bound, got["arp"], arrived)
  BY <1>1, <1>2, <1>3, <1>4, <1>5 DEF Right, Serving, Towers
(* With the new resources n, what is sent is what is due.                    *)
<1>9. ASSUME NEW n, Right("arp", n, got["arp"], arrived), tower' = [tower EXCEPT !["arp"] = n],
             sent' = sent, Served("arp", n, arrived, sent)
      PROVE  NetInv'
  BY <1>0, <1>1, <1>6, <1>9, StepKeeps
<1>10. ASSUME NEW n, Right("arp", n, got["arp"], arrived), tower' = [tower EXCEPT !["arp"] = n],
              NEW x \in Wired, x.type = "806", ~ IsAnswer(x, "icmp"),
              sent' = Append(sent, x), Served("arp", n, arrived, Append(sent, x))
       PROVE  NetInv'
  <2>1. /\ Append(sent, x) \in Seq(Wired) /\ Addressed(Append(sent, x))
        /\ \A q \in {"arp", "icmp"} : q # "arp" => Served(q, tower[q], arrived, Append(sent, x))
    BY <1>1, <1>10, OthersServed
  <2> QED BY <1>0, <1>1, <1>6, <1>10, <2>1, StepKeeps
<1>11. ASSUME NEW n, n.at = "run", n.mac = f.src, n.type = "806", n.pos = r.pos, f.type = "806",
              Right("arp", n, got["arp"], arrived), tower' = [tower EXCEPT !["arp"] = n],
              sent' = sent \o arp_reply(n, f.data),
              \/ o.at = "listen" /\ n.since = n.pos
              \/ o.at = "run" /\ n.since = o.since /\ n.mac = o.mac
       PROVE  NetInv'
  <2>1. CASE IsRequest(f, n.mac, "arp")
    <3> DEFINE x == Answer(f)
    <3>1. x \in Wired /\ x.type = "806" /\ ~ IsAnswer(x, "icmp") /\ IsAnswer(x, "arp") /\ arp_reply(n, f.data) = <<x>>
      BY <1>3, <1>11, <2>1, ArpAnswers
    <3> HIDE DEF x
    <3>2. sent' = Append(sent, x)
      <4>1. sent \o <<x>> = Append(sent, x)
        BY <1>6, <3>1, Appended
      <4> QED BY <1>11, <3>1, <4>1
    <3>3. x = Answer(arrived[o.pos + 1]) /\ IsRequest(arrived[o.pos + 1], n.mac, "arp")
      BY <1>3, <2>1 DEF x
    <3>4. Served("arp", n, arrived, Append(sent, x))
      <4>1. CASE o.at = "listen"
        BY <1>4, <1>6, <1>11, <3>1, <3>3, <4>1, ServedFirst
      <4>2. CASE o.at = "run"
        BY <1>2, <1>3, <1>4, <1>6, <1>11, <3>1, <3>3, <4>2, ServedStep
      <4> QED BY <1>11, <4>1, <4>2
    <3> QED BY <1>10, <1>11, <3>1, <3>2, <3>4
  <2>2. CASE ~ IsRequest(f, n.mac, "arp")
    <3>1. sent' = sent
      <4>1. arp_reply(n, f.data) = <<>>
        BY <1>3, <1>11, <2>2, ArpAnswers
      <4>2. sent \o <<>> = sent
        BY <1>6
      <4> QED BY <1>11, <4>1, <4>2
    <3>2. ~ IsRequest(arrived[o.pos + 1], n.mac, "arp")
      BY <1>3, <2>2
    <3>3. Answer(f) \in Wired
      BY <1>3, <1>11, Apart DEF Answer, Fair, Wired, EthernetII, Arp, Arps
    <3>4. Served("arp", n, arrived, sent)
      <4>1. CASE o.at = "listen"
        BY <1>4, <1>6, <1>11, <3>2, <3>3, <4>1, ServedFirst
      <4>2. CASE o.at = "run"
        BY <1>2, <1>3, <1>4, <1>6, <1>11, <3>2, <3>3, <4>2, ServedStep
      <4> QED BY <1>11, <4>1, <4>2
    <3> QED BY <1>9, <1>11, <3>1, <3>4
  <2> QED BY <2>1, <2>2
<1>12. CASE r.at = "listen" /\ open_matches(f, "806") /\ tower' = [tower EXCEPT !["arp"] = bound]
            /\ sent' = sent \o arp_reply(bound, f.data)
  BY <1>2, <1>4, <1>5, <1>8, <1>11, <1>12 DEF open_matches
<1>13. CASE r.at = "run" /\ read_matches(r, f) /\ tower' = [tower EXCEPT !["arp"] = r]
            /\ sent' = sent \o arp_reply(r, f.data)
  <2>1. f.type = "806" /\ f.src = r.mac
    BY <1>1, <1>2, <1>4, <1>13 DEF read_matches, open_matches, Serving
  <2> QED BY <1>2, <1>4, <1>7, <1>11, <1>13, <2>1
<1>14. CASE (~IF r.at = "listen" THEN open_matches(f, "806") ELSE read_matches(r, f))
            /\ tower' = [tower EXCEPT !["arp"] = r] /\ sent' = sent
  <2>1. Served("arp", r, arrived, sent)
    <3>1. CASE o.at = "listen"
      BY <1>4, <1>6, <3>1, NotRunning
    <3>2. CASE o.at = "run"
      <4>1. ~ IsRequest(f, r.mac, "arp")
        BY <1>2, <1>3, <1>4, <1>14, <3>2 DEF read_matches, open_matches, IsRequest, Fair
      <4>2. \E x : x \in Wired
        BY <1>3 DEF Heard
      <4> QED BY <1>2, <1>3, <1>4, <1>6, <3>2, <4>1, <4>2, ServedStep
    <3> QED BY <1>2, <3>1, <3>2
  <2> QED BY <1>7, <1>9, <1>14, <2>1
<1> QED BY <1>0, <1>12, <1>13, <1>14

LEMMA IpListenKeeps ==
  ASSUME NetInv, NEW p \in Procs, IpListen(p)
  PROVE  NetInv'
<1> DEFINE o == tower[p]
           f == Next1(p)
           k == o.pos + 1
           new == [at |-> "accept", pos |-> k, mac |-> f.src, type |-> "800", since |-> k,
                   ip |-> f.data.src, proto |-> Proto(p), data |-> <<k>>]
<1>0. /\ arrived' = arrived /\ sent' = sent /\ arp' = arp /\ got' = got /\ Pending(p) /\ o.at = "listen"
      /\ p \in {"icmp", "server"}
      /\ \/ tower' = [tower EXCEPT ![p] = Taken(o)]
         \/ tower' = [tower EXCEPT ![p] = Ethernet("listen", Bcast, "800")]
         \/ /\ open_matches(f, "800") /\ ip_accepts(f.data, Proto(p)) /\ tower' = [tower EXCEPT ![p] = new]
  BY DEF IpListen, Become
<1>1. /\ Right(p, o, got[p], arrived) /\ got \in [Procs -> Seq(Nat)] /\ got[p] \in Seq(Nat) /\ p \notin Clients
      /\ Len(arrived) \in Nat /\ Bcast \in Hosts /\ Peers \subseteq Hosts
  BY <1>0, Known, Apart
<1>2. Waiting(o, "listen", "800", arrived) /\ o \in EthLink /\ o.pos \in Nat /\ (p = "server" => got[p] = <<>>)
  <2>1. Waiting(o, "listen", "800", arrived) /\ (p = "server" => got[p] = <<>>)
    BY <1>0, <1>1, ByPlace
  <2> QED BY <2>1 DEF Waiting, EthLink
<1>3. f \in Heard /\ Fair(f) /\ f = arrived[k] /\ k \in 1..Len(arrived) /\ k <= Len(arrived)
  BY <1>0, <1>2, NextFrame
<1>4. ASSUME NEW r, r.at # "run", Right(p, r, got[p], arrived), tower' = [tower EXCEPT ![p] = r]
      PROVE  NetInv'
  <2>1. p = "icmp" => Served(p, r, arrived, sent)
    BY <1>0, <1>4, Known, NotRunning
  <2>2. got' = [got EXCEPT ![p] = got[p]]
    BY <1>0, <1>1
  <2> QED BY <1>0, <1>4, <2>1, <2>2, Known, StepKeeps
<1>5. CASE tower' = [tower EXCEPT ![p] = Taken(o)]
  <2> DEFINE r == Taken(o)
  <2>1. r \in EthLink /\ r.pos = k /\ r.at = o.at /\ r.mac = o.mac /\ r.type = o.type
    BY <1>2, TakenIs
  <2> HIDE DEF r
  <2>2. Waiting(r, "listen", "800", arrived)
    BY <1>2, <1>3, <2>1 DEF Waiting
  <2>3. Right(p, r, got[p], arrived)
    BY <1>0, <1>1, <1>2, <2>1, <2>2 DEF Right, Towers
  <2> QED BY <1>0, <1>4, <1>5, <2>1, <2>3 DEF r
<1>6. CASE tower' = [tower EXCEPT ![p] = Ethernet("listen", Bcast, "800")]
  <2> DEFINE r == Ethernet("listen", Bcast, "800")
  <2>1. r \in EthLink /\ r.at = "listen" /\ Waiting(r, "listen", "800", arrived)
    BY <1>1 DEF Waiting, Ethernet, EthLink
  <2> HIDE DEF r
  <2>2. Right(p, r, got[p], arrived)
    BY <1>0, <1>1, <1>2, <2>1 DEF Right, Towers
  <2> QED BY <1>0, <1>4, <1>6, <2>1, <2>2 DEF r
<1>7. CASE open_matches(f, "800") /\ ip_accepts(f.data, Proto(p)) /\ tower' = [tower EXCEPT ![p] = new]
  <2>1. /\ f.type = "800" /\ f.data.proto = Proto(p) /\ f.data.dst = Me /\ f.src \in Peers /\ f.data.src = f.src
        /\ Proto(p) \in {"icmp", "udp"} /\ (p = "icmp" => Proto(p) = "icmp") /\ (p = "server" => Proto(p) = "udp")
    BY <1>0, <1>3, <1>7 DEF open_matches, ip_accepts, Fair, Proto
  <2>2. /\ new \in IpLink /\ new.at = "accept" /\ new.pos = k /\ new.mac = f.src /\ new.since = k /\ new.ip = new.mac
        /\ new.proto = Proto(p) /\ new.data = <<k>>
    BY <1>1, <1>2, <2>1 DEF IpLink
  <2> HIDE DEF new
  <2>3. Accepted(new, Proto(p), arrived)
    BY <1>2, <1>3, <2>1, <2>2 DEF Accepted, Serving
  <2>4. Right(p, new, got[p], arrived)
    BY <1>0, <1>1, <1>2, <2>1, <2>2, <2>3 DEF Right, Towers
  <2> QED BY <1>4, <1>7, <2>2, <2>4
<1> QED BY <1>0, <1>5, <1>6, <1>7

(* A ping, and the answer to it.                                             *)
LEMMA IcmpAnswers ==
  ASSUME NEW r, NEW f, Fair(f), f.type = "800", f.data.proto = "icmp", r.mac = f.src, r.ip = r.mac, r.type = "800"
  PROVE  /\ icmp_reply(r, f.data.data) = <<Answer(f)>> /\ Answer(f) \in Wired
         /\ IsAnswer(Answer(f), "icmp") /\ ~ IsAnswer(Answer(f), "arp")
         /\ Answer(f).data \in Ips /\ Answer(f).dst = Answer(f).data.dst
         /\ IsRequest(f, r.mac, "icmp")
<1>1. f.data.data \in Icmps /\ f.data.data.type = 8 /\ f.src \in Hosts /\ Me \in Hosts /\ f.data.data.data \in Nat
  BY Apart DEF Fair, Icmps
<1> DEFINE y == Ipv4("icmp", Me, f.src, Icmp(0, f.data.data.data))
<1>2. Answer(f) = EthernetII(Me, f.src, "800", y)
  BY DEF Answer
<1>3. Icmp(0, f.data.data.data) \in Icmps
  BY <1>1 DEF Icmp, Icmps
<1>4. y \in Ips /\ y.dst = f.src /\ y.proto = "icmp"
  BY <1>1, <1>3 DEF Ipv4, Ips
<1>5. icmp_reply(r, f.data.data) = <<Answer(f)>>
  BY <1>1, <1>2 DEF icmp_reply, eth_write
<1> HIDE DEF y
<1>6. /\ Answer(f) \in Wired /\ Answer(f).type = "800" /\ Answer(f).data = y /\ Answer(f).dst = f.src
  BY <1>1, <1>2, <1>4 DEF Wired, EthernetII
<1> QED BY <1>4, <1>5, <1>6 DEF IsAnswer, IsRequest

LEMMA FirstIs ==
  ASSUME NEW r \in IpLink
  PROVE  LET n == [r EXCEPT !.at = "run", !.data = <<>>]
         IN  /\ n \in IpLink /\ n.at = "run" /\ n.pos = r.pos /\ n.mac = r.mac /\ n.since = r.since
             /\ n.ip = r.ip /\ n.proto = r.proto
<1> DEFINE m == [r EXCEPT !.at = "run"]
<1>0. <<>> \in Seq(Nat)
  OBVIOUS
<1>1. /\ m \in IpLink /\ m.at = "run" /\ m.pos = r.pos /\ m.mac = r.mac /\ m.since = r.since
      /\ m.ip = r.ip /\ m.proto = r.proto
  BY DEF IpLink
<1> DEFINE n == [m EXCEPT !.data = <<>>]
<1>2. n = [r EXCEPT !.at = "run", !.data = <<>>]
  OBVIOUS
<1> HIDE DEF m
<1>3. /\ n \in IpLink /\ n.at = m.at /\ n.pos = m.pos /\ n.mac = m.mac /\ n.since = m.since
      /\ n.ip = m.ip /\ n.proto = m.proto
  BY <1>0, <1>1 DEF IpLink
<1> HIDE DEF n
<1> QED BY <1>1, <1>2, <1>3

LEMMA IcmpLoopKeeps ==
  ASSUME NetInv, IcmpLoop
  PROVE  NetInv'
<1> DEFINE o == tower["icmp"]
           g == got["icmp"]
           first == [o EXCEPT !.at = "run", !.data = <<>>]
<1>0. /\ arrived' = arrived /\ arp' = arp /\ got' = got
      /\ \/ /\ o.at = "accept" /\ tower' = [tower EXCEPT !["icmp"] = first]
            /\ sent' = sent \o icmp_reply(o, arrived[o.data[1]].data.data)
         \/ /\ o.at = "run" /\ Pending("icmp") /\ tower' = [tower EXCEPT !["icmp"] = Taken(o)]
            /\ sent' = IF read_matches(o, Next1("icmp")) /\ ip_matches(o, Next1("icmp").data)
                       THEN sent \o icmp_reply(o, Next1("icmp").data.data) ELSE sent
  BY DEF IcmpLoop, Become
<1>1. /\ "icmp" \in Procs /\ Right("icmp", o, g, arrived) /\ got \in [Procs -> Seq(Nat)] /\ Bcast \notin Peers
      /\ "icmp" \notin Clients /\ arrived \in Seq(Heard) /\ g \in Seq(Nat) /\ Len(arrived) \in Nat
      /\ sent \in Seq(Wired) /\ Addressed(sent) /\ Table(arp) /\ got' = [got EXCEPT !["icmp"] = g]
      /\ Served("icmp", o, arrived, sent)
      /\ \A q \in {"arp", "icmp"} : q # "icmp" => Served(q, tower[q], arrived, sent)
  BY <1>0, Known, Apart
<1>2. ASSUME NEW n, Right("icmp", n, g, arrived), tower' = [tower EXCEPT !["icmp"] = n],
             sent' = sent, Served("icmp", n, arrived, sent)
      PROVE  NetInv'
  BY <1>0, <1>1, <1>2, StepKeeps
<1>3. ASSUME NEW n, Right("icmp", n, g, arrived), tower' = [tower EXCEPT !["icmp"] = n],
             NEW x \in Wired, x.data \in Ips, x.dst = x.data.dst, ~ IsAnswer(x, "arp"),
             sent' = Append(sent, x), Served("icmp", n, arrived, Append(sent, x))
      PROVE  NetInv'
  <2>1. /\ Append(sent, x) \in Seq(Wired) /\ Addressed(Append(sent, x))
        /\ \A q \in {"arp", "icmp"} : q # "icmp" => Served(q, tower[q], arrived, Append(sent, x))
    BY <1>1, <1>3, OthersServed
  <2> QED BY <1>0, <1>1, <1>3, <2>1, StepKeeps
<1>4. CASE /\ o.at = "accept" /\ tower' = [tower EXCEPT !["icmp"] = first]
           /\ sent' = sent \o icmp_reply(o, arrived[o.data[1]].data.data)
  <2>1. Accepted(o, "icmp", arrived)
    BY <1>1, <1>4, ByPlace
  <2>2. /\ o \in IpLink /\ o.pos \in Nat /\ Serving(o, arrived) /\ o.ip = o.mac /\ o.type = "800" /\ o.proto = "icmp"
        /\ o.since = o.pos /\ o.data[1] = o.pos
    BY <2>1 DEF Accepted, IpLink
  <2>3. /\ first \in IpLink /\ first.at = "run" /\ first.pos = o.pos /\ first.mac = o.mac /\ first.since = o.since
        /\ first.ip = o.ip /\ first.proto = o.proto
    BY <2>2, FirstIs
  <2> DEFINE f == arrived[o.pos]
             x == Answer(f)
  <2>4. o.pos \in 1..Len(arrived)
    BY <1>1, <2>2 DEF Serving
  <2>5. f \in Heard /\ Fair(f) /\ f.type = "800" /\ f.src = o.mac /\ f.data.proto = "icmp"
    BY <1>1, <2>1, <2>4 DEF Heard, Accepted
  <2> HIDE DEF first, f
  <2>6. /\ icmp_reply(o, f.data.data) = <<x>> /\ x \in Wired /\ IsAnswer(x, "icmp") /\ ~ IsAnswer(x, "arp")
        /\ x.data \in Ips /\ x.dst = x.data.dst /\ IsRequest(f, o.mac, "icmp")
    BY <2>2, <2>5, IcmpAnswers
  <2>7. x = Answer(arrived[first.pos]) /\ IsRequest(arrived[first.pos], first.mac, "icmp")
    BY <2>3, <2>6 DEF f
  <2> HIDE DEF x
  <2>8. sent' = Append(sent, x)
    <3>1. sent \o <<x>> = Append(sent, x)
      BY <1>1, <2>6, Appended
    <3>2. sent' = sent \o icmp_reply(o, f.data.data)
      BY <1>4, <2>2 DEF f
    <3> QED BY <2>6, <3>1, <3>2
  <2>9. Served("icmp", first, arrived, Append(sent, x))
    <3>1. first.since = first.pos /\ first.pos \in Nat /\ first.at = "run" /\ o.at # "run"
      BY <1>4, <2>2, <2>3
    <3>2. arrived \in Seq(Heard) /\ sent \in Seq(Wired) /\ x \in Wired /\ IsAnswer(x, "icmp")
      BY <1>1, <2>6
    <3>3. Served("icmp", o, arrived, sent)
      BY <1>1
    <3> HIDE DEF o
    <3> QED BY <2>7, <3>1, <3>2, <3>3, ServedFirst
  <2>10. Right("icmp", first, g, arrived)
    BY <1>1, <2>2, <2>3 DEF Right, Serving, Towers
  <2> QED BY <1>3, <1>4, <2>6, <2>8, <2>9, <2>10
<1>5. CASE /\ o.at = "run" /\ Pending("icmp") /\ tower' = [tower EXCEPT !["icmp"] = Taken(o)]
           /\ sent' = IF read_matches(o, Next1("icmp")) /\ ip_matches(o, Next1("icmp").data)
                      THEN sent \o icmp_reply(o, Next1("icmp").data.data) ELSE sent
  <2> DEFINE f == Next1("icmp")
             x == Answer(f)
             n == Taken(o)
  <2>1. /\ o \in IpLink /\ o.pos \in Nat /\ Serving(o, arrived) /\ o.ip = o.mac /\ o.type = "800" /\ o.proto = "icmp"
        /\ o.mac \in Peers
    BY <1>1, <1>5, ByPlace DEF IpLink, Serving
  <2>2. f \in Heard /\ Fair(f) /\ f = arrived[o.pos + 1] /\ o.pos + 1 \in 1..Len(arrived) /\ o.pos + 1 <= Len(arrived)
    BY <1>1, <1>5, <2>1, NextFrame
  <2>3. /\ n \in IpLink /\ n.pos = o.pos + 1 /\ n.at = "run" /\ n.mac = o.mac /\ n.since = o.since
        /\ n.ip = o.ip /\ n.proto = o.proto
    BY <1>5, <2>1, TakenIs
  <2>4. read_matches(o, f) /\ ip_matches(o, f.data) <=> IsRequest(f, o.mac, "icmp")
    BY <1>1, <2>1, <2>2 DEF read_matches, open_matches, ip_matches, ip_accepts, IsRequest, Fair
  <2> HIDE DEF f, n
  <2>5. Right("icmp", n, g, arrived)
    BY <1>1, <2>1, <2>2, <2>3 DEF Right, Serving, Towers
  <2>6. CASE IsRequest(f, o.mac, "icmp")
    <3>1. f.type = "800" /\ f.data.proto = "icmp" /\ f.src = o.mac
      BY <2>6 DEF IsRequest
    <3>2. /\ icmp_reply(o, f.data.data) = <<x>> /\ x \in Wired /\ IsAnswer(x, "icmp") /\ ~ IsAnswer(x, "arp")
          /\ x.data \in Ips /\ x.dst = x.data.dst
      BY <2>1, <2>2, <3>1, IcmpAnswers
    <3>3. x = Answer(arrived[o.pos + 1]) /\ IsRequest(arrived[o.pos + 1], o.mac, "icmp")
      BY <2>2, <2>6
    <3> HIDE DEF x
    <3>4. sent' = Append(sent, x)
      <4>1. sent \o <<x>> = Append(sent, x)
        BY <1>1, <3>2, Appended
      <4>2. sent' = sent \o icmp_reply(o, f.data.data)
        BY <1>5, <2>4, <2>6 DEF f
      <4> QED BY <3>2, <4>1, <4>2
    <3>5. Served("icmp", n, arrived, Append(sent, x))
      BY <1>1, <1>5, <2>1, <2>2, <2>3, <3>2, <3>3, ServedStep
    <3> QED BY <1>3, <1>5, <2>5, <3>2, <3>4, <3>5 DEF n
  <2>7. CASE ~ IsRequest(f, o.mac, "icmp")
    <3>1. sent' = sent
      BY <1>5, <2>4, <2>7 DEF f
    <3>2. f \in Wired /\ ~ IsRequest(arrived[o.pos + 1], o.mac, "icmp")
      BY <2>2, <2>7 DEF Heard
    <3>3. Served("icmp", n, arrived, sent)
      BY <1>1, <1>5, <2>1, <2>2, <2>3, <3>2, ServedStep
    <3> QED BY <1>2, <1>5, <2>5, <3>1, <3>3 DEF n
  <2> QED BY <2>6, <2>7
<1> QED BY <1>0, <1>4, <1>5

Talkers == Clients \cup {"server"}

LEMMA TalkStep ==
  ASSUME NetInv, NEW p \in Talkers, NEW r, NEW g, Right(p, r, g, arrived),
         tower' = [tower EXCEPT ![p] = r], got' = [got EXCEPT ![p] = g],
         arrived' = arrived, sent' = sent, NEW a, arp' = a, Table(a)
  PROVE  NetInv'
<1>1. p \in Procs /\ p \notin {"arp", "icmp"}
  BY Apart DEF Talkers
<1> QED BY <1>1, Known, StepKeeps

LEMMA TalkRight ==
  ASSUME NEW p \in Talkers, NEW r, NEW g \in Seq(Nat), NEW in, Talking(r, g, in),
         p \in Clients => r.mac = PeerOf[p]
  PROVE  Right(p, r, g, in)
<1>1. p # "arp" /\ p # "icmp" /\ (p = "server" => p \notin Clients)
  BY Apart DEF Talkers
<1>2. r \in Towers
  BY DEF Talking, Towers
<1> QED BY <1>1, <1>2 DEF Right

LEMMA TalksAt ==
  ASSUME NetInv, NEW p \in Procs, tower[p].at \in {"open", "read", "spin"}
  PROVE  /\ p \in Talkers /\ Talking(tower[p], got[p], arrived) /\ got[p] \in Seq(Nat)
         /\ p \in Clients => tower[p].mac = PeerOf[p]
<1>1. Right(p, tower[p], got[p], arrived) /\ got[p] \in Seq(Nat)
  BY Known
<1>2. p \in Talkers
  BY <1>1, ByPlace DEF Procs, Talkers
<1> QED BY <1>1, <1>2, ByPlace DEF Talkers

LEMMA SocketAt ==
  ASSUME NEW r \in Socket, NEW a \in {"open", "read", "spin"}, NEW n, n = [r EXCEPT !.at = a]
  PROVE  /\ n \in Socket /\ n.at = a /\ n.pos = r.pos /\ n.mac = r.mac /\ n.ip = r.ip /\ n.data = r.data
         /\ n.host_port = r.host_port /\ n.peer_port = r.peer_port /\ n.since = r.since
BY DEF Socket

LEMMA SocketEmpty ==
  ASSUME NEW r \in Socket, NEW n, n = [r EXCEPT !.data = <<>>]
  PROVE  /\ n \in Socket /\ n.at = r.at /\ n.pos = r.pos /\ n.mac = r.mac /\ n.ip = r.ip /\ n.data = <<>>
         /\ n.host_port = r.host_port /\ n.peer_port = r.peer_port /\ n.since = r.since
<1>1. <<>> \in Seq(Nat)
  OBVIOUS
<1> QED BY <1>1 DEF Socket

(* Another datagram of the socket is given: it is later than all before.     *)
LEMMA GivenMore ==
  ASSUME NEW r, NEW n, NEW g \in Seq(Nat), NEW in, NEW k \in Nat, Given(r, g, in),
         r.pos \in Nat, n.pos = k, k >= 1, n.ip = r.ip, n.host_port = r.host_port, n.peer_port = r.peer_port,
         n.data = <<>>, n.since = r.since, r.since \in Nat,
         \/ k = r.pos + 1 /\ r.data = <<>>
         \/ k = r.pos /\ g = <<>> /\ r.since = k
  PROVE  /\ IsMine(n, in, k) => Given(n, Append(g, k), in)
         /\ ~ IsMine(n, in, k) => Given(n, g, in)
<1> DEFINE l == Len(g)
           h == Append(g, k)
<1>0. l \in Nat /\ Len(h) = l + 1 /\ h[l + 1] = k /\ \A i \in 1..l : h[i] = g[i]
  BY Appended DEF Extends
<1>1. \A i : IsMine(n, in, i) <=> IsMine(r, in, i)
  BY DEF IsMine
<1>2. \A i \in 1..l : g[i] \in 1..r.pos /\ g[i] \in Nat /\ g[i] < k /\ IsMine(n, in, g[i])
  <2>1. \A i \in 1..l : g[i] \in 1..r.pos /\ IsMine(r, in, g[i])
    BY DEF Given
  <2>2. CASE k = r.pos + 1
    <3> TAKE i \in 1..l
    <3>1. g[i] \in 1..r.pos /\ IsMine(n, in, g[i])
      BY <1>1, <2>1
    <3> QED BY <2>2, <3>1
  <2>3. CASE g = <<>>
    BY <2>3
  <2> QED BY <2>2, <2>3
<1>3. \A i, j \in 1..l : i < j => g[i] < g[j]
  BY DEF Given
<1>4. \A m \in n.since..(k - 1) : IsMine(n, in, m) => \E j \in 1..l : g[j] = m
  <2>1. CASE k = r.pos + 1 /\ r.data = <<>>
    BY <1>1, <2>1 DEF Given
  <2>2. CASE r.since = k
    BY <2>2
  <2> QED BY <2>1, <2>2
<1>4a. n.since >= 1 /\ n.since \in Nat
  BY DEF Given
<1> HIDE DEF h, l
<1>5. ASSUME NEW m \in n.since..k PROVE m = k \/ m \in n.since..(k - 1)
  BY <1>4a
<1>6. ASSUME ~ IsMine(n, in, k) PROVE Given(n, g, in)
  <2>1. \A i \in 1..l : g[i] \in 1..n.pos
    BY <1>2
  <2>2. \A m \in n.since..n.pos : IsMine(n, in, m) => \E j \in 1..l : g[j] = m
    BY <1>4, <1>5, <1>6
  <2> QED BY <1>2, <1>3, <1>4a, <2>1, <2>2 DEF Given, l
<1>7. ASSUME IsMine(n, in, k) PROVE Given(n, h, in)
  <2>0. \A i \in 1..Len(h) : i = l + 1 \/ i \in 1..l
    BY <1>0
  <2>1. \A i \in 1..Len(h) : h[i] \in 1..n.pos /\ IsMine(n, in, h[i])
    <3>1. ASSUME NEW i \in 1..l PROVE h[i] \in 1..n.pos /\ IsMine(n, in, h[i])
      <4>1. h[i] = g[i] /\ g[i] \in Nat /\ g[i] \in 1..r.pos /\ g[i] < k /\ IsMine(n, in, g[i])
        BY <1>0, <1>2, <3>1
      <4> QED BY <4>1
    <3>2. h[l + 1] \in 1..n.pos /\ IsMine(n, in, h[l + 1])
      BY <1>0, <1>7
    <3> QED BY <2>0, <3>1, <3>2
  <2>2. ASSUME NEW i \in 1..Len(h), NEW j \in 1..Len(h), i < j PROVE h[i] < h[j]
    <3>1. i \in 1..l
      BY <1>0, <2>0, <2>2
    <3>2. CASE j = l + 1
      BY <1>0, <1>2, <3>1, <3>2
    <3>3. CASE j \in 1..l
      BY <1>0, <1>3, <2>2, <3>1, <3>3
    <3> QED BY <2>0, <3>2, <3>3
  <2>3. ASSUME NEW m \in n.since..n.pos, IsMine(n, in, m) PROVE \E j \in 1..Len(h) : h[j] = m
    <3>1. l + 1 \in 1..Len(h) /\ \A j \in 1..l : j \in 1..Len(h)
      BY <1>0
    <3>2. CASE m = k
      BY <1>0, <3>1, <3>2
    <3>3. CASE m # k
      <4>1. m \in n.since..(k - 1)
        BY <1>5, <2>3, <3>3
      <4>2. PICK j \in 1..l : g[j] = m
        BY <1>4, <2>3, <4>1
      <4> QED BY <1>0, <3>1, <4>2
    <3> QED BY <3>2, <3>3
  <2> QED BY <1>4a, <2>1, <2>2, <2>3 DEF Given
<1> QED BY <1>6, <1>7 DEF h

(* A socket that was given nothing.                                          *)
LEMMA GivenNone ==
  ASSUME NEW r, NEW in, r.pos \in Nat, r.since >= 1,
         r.data = <<>> => r.since = r.pos + 1,
         r.data # <<>> => r.data = <<r.pos>> /\ r.pos >= 1 /\ IsMine(r, in, r.pos) /\ r.at = "open" /\ r.since = r.pos
  PROVE  Given(r, <<>>, in) /\ <<>> \in Seq(Nat)
<1>1. Len(<<>>) = 0 /\ 1..0 = {} /\ <<>> \in Seq(Nat)
  OBVIOUS
<1>2. r.data = <<>> => r.since..r.pos = {}
  OBVIOUS
<1> QED BY <1>1, <1>2 DEF Given

LEMMA UdpOpenKeeps ==
  ASSUME NetInv, udp_open
  PROVE  NetInv'
<1> DEFINE p == "server"
           o == tower[p]
           d == arrived[o.data[1]].data.data
           new == [at |-> "open", pos |-> o.pos, mac |-> o.mac, type |-> o.type,
                   since |-> IF d.len = 0 THEN o.pos + 1 ELSE o.pos, ip |-> o.ip, proto |-> "udp",
                   data |-> IF d.len = 0 THEN <<>> ELSE o.data,
                   host_port |-> ServerPort, peer_port |-> d.src]
<1>0. /\ arrived' = arrived /\ sent' = sent /\ arp' = arp /\ got' = got /\ o.at = "accept"
      /\ \/ tower' = [tower EXCEPT ![p] = Closed]
         \/ d.dst = ServerPort /\ tower' = [tower EXCEPT ![p] = new]
  BY DEF udp_open, Become
<1>1. /\ p \in Procs /\ p \in Talkers /\ Right(p, o, got[p], arrived) /\ got \in [Procs -> Seq(Nat)] /\ got[p] \in Seq(Nat)
      /\ p \notin Clients /\ Len(arrived) \in Nat /\ arrived \in Seq(Heard) /\ Table(arp) /\ ServerPort \in Ports
      /\ Peers \subseteq Hosts
  BY Known, Apart DEF Talkers
<1>2. Accepted(o, "udp", arrived) /\ got[p] = <<>>
  BY <1>0, <1>1, ByPlace
<1>3. /\ o \in IpLink /\ o.pos \in Nat /\ o.pos >= 1 /\ o.pos <= Len(arrived) /\ o.mac \in Peers /\ o.ip = o.mac
      /\ o.type = "800" /\ o.data = <<o.pos>> /\ o.data[1] = o.pos /\ o.data \in Seq(Nat)
  BY <1>2 DEF Accepted, IpLink, Serving
<1> DEFINE f == arrived[o.pos]
<1>4. f.type = "800" /\ f.data.proto = "udp" /\ f.data.dst = Me /\ f.src = o.mac /\ d = f.data.data
  BY <1>2, <1>3 DEF Accepted
<1>5. f \in Heard /\ Fair(f)
  BY <1>1, <1>3 DEF Heard
<1>6. f.data.src = o.ip /\ d \in Udps /\ d.src \in Ports
  BY <1>3, <1>4, <1>5 DEF Fair, Udps
<1>7. got' = [got EXCEPT ![p] = <<>>]
  BY <1>0, <1>1, <1>2
<1>8. CASE tower' = [tower EXCEPT ![p] = Closed]
  <2>1. Right(p, Closed, <<>>, arrived)
    BY <1>1 DEF Right, Towers
  <2> QED BY <1>0, <1>1, <1>7, <1>8, <2>1, TalkStep
<1>9. CASE d.dst = ServerPort /\ tower' = [tower EXCEPT ![p] = new]
  <2>1. (IF d.len = 0 THEN <<>> ELSE o.data) \in Seq(Nat)
    BY <1>3
  <2> HIDE DEF d, f
  <2>2. /\ new \in Socket /\ new.at = "open" /\ new.pos = o.pos /\ new.mac = o.mac /\ new.ip = o.ip
        /\ (\/ new.data = <<>> /\ new.since = o.pos + 1
            \/ new.data = o.data /\ new.since = o.pos) /\ new.host_port = ServerPort /\ new.peer_port = d.src
    BY <1>1, <1>3, <1>6, <2>1 DEF Socket
  <2> HIDE DEF new
  <2>3. IsMine(new, arrived, o.pos)
    BY <1>4, <1>6, <1>9, <2>2 DEF IsMine, f
  <2>4. Given(new, <<>>, arrived) /\ <<>> \in Seq(Nat)
    <3>1. new.pos \in Nat /\ new.since >= 1 /\ o.data # <<>>
      BY <1>3, <2>2
    <3> HIDE DEF o
    <3>2. CASE new.data = <<>> /\ new.since = o.pos + 1
      BY <2>2, <3>1, <3>2, GivenNone
    <3>3. CASE new.data = o.data /\ new.since = o.pos
      <4>1. new.data = <<new.pos>> /\ new.data # <<>> /\ new.since = new.pos /\ new.pos >= 1 /\ IsMine(new, arrived, new.pos)
        BY <1>3, <2>2, <2>3, <3>1, <3>3
      <4> QED BY <2>2, <3>1, <4>1, GivenNone
    <3> QED BY <2>2, <3>2, <3>3
  <2>5. Talking(new, <<>>, arrived)
    BY <1>3, <2>2, <2>4 DEF Talking
  <2>6. Right(p, new, <<>>, arrived)
    BY <1>1, <2>4, <2>5, TalkRight
  <2> QED BY <1>0, <1>1, <1>7, <1>9, <2>6, TalkStep
<1> QED BY <1>0, <1>8, <1>9

(* udp: with a host gives a socket that was given nothing.                   *)
LEMMA ConnectedIs ==
  ASSUME NetInv, NEW p \in Clients, NEW mac, mac = PeerOf[p], Connected(p, mac),
         NEW a, arp' = a, Table(a), got' = [got EXCEPT ![p] = <<>>], arrived' = arrived, sent' = sent
  PROVE  NetInv'
<1>0. p \in Procs /\ p \in Talkers /\ PeerOf[p] \in Peers /\ Peers \subseteq Hosts /\ Len(arrived) \in Nat
      /\ ServerPort \in Ports /\ <<>> \in Seq(Nat)
  BY Known, Apart, InetAssumption DEF Talkers
<1>1. PICK n \in Ports :
        tower' = [tower EXCEPT ![p] =
                    [at |-> "open", pos |-> Len(arrived), mac |-> mac, type |-> "800", since |-> Len(arrived) + 1,
                     ip |-> PeerOf[p], proto |-> "udp", data |-> <<>>, host_port |-> n, peer_port |-> ServerPort]]
  BY DEF Connected, Become
<1> DEFINE r == [at |-> "open", pos |-> Len(arrived), mac |-> mac, type |-> "800", since |-> Len(arrived) + 1,
                 ip |-> PeerOf[p], proto |-> "udp", data |-> <<>>, host_port |-> n, peer_port |-> ServerPort]
<1>2. r \in Socket /\ r.at = "open" /\ r.pos = Len(arrived) /\ r.mac = PeerOf[p] /\ r.ip = PeerOf[p] /\ r.data = <<>>
      /\ r.since = Len(arrived) + 1
  BY <1>0 DEF Socket
<1>3. tower' = [tower EXCEPT ![p] = r]
  BY <1>1
<1> HIDE DEF r
<1>4. Given(r, <<>>, arrived)
  BY <1>0, <1>2, GivenNone
<1>5. Talking(r, <<>>, arrived)
  BY <1>0, <1>2, <1>4 DEF Talking
<1>6. Right(p, r, <<>>, arrived)
  BY <1>0, <1>2, <1>5, TalkRight
<1> QED BY <1>0, <1>3, <1>6, TalkStep

LEMMA ClientOpenKeeps ==
  ASSUME NetInv, NEW p \in Procs, ClientOpen(p)
  PROVE  NetInv'
<1> DEFINE r == Ethernet("resolve", Bcast, "806")
           x == eth_write(r, Arp(1, Me, Me, PeerOf[p]))
<1>0. /\ p \in Clients /\ arrived' = arrived /\ arp' = arp /\ got' = [got EXCEPT ![p] = <<>>]
      /\ \/ (\E i \in Entry(PeerOf[p]) : Connected(p, arp[i].mac)) /\ sent' = sent
         \/ tower' = [tower EXCEPT ![p] = r] /\ sent' = Append(sent, x)
  BY DEF ClientOpen, Become
<1>1. /\ p \in Talkers /\ PeerOf[p] \in Peers /\ Peers \subseteq Hosts /\ Len(arrived) \in Nat /\ Me \in Hosts /\ Bcast \in Hosts
      /\ <<>> \in Seq(Nat) /\ got \in [Procs -> Seq(Nat)] /\ Table(arp) /\ p \notin {"arp", "icmp", "server"}
  BY <1>0, Known, Apart, InetAssumption DEF Talkers
<1>2. CASE (\E i \in Entry(PeerOf[p]) : Connected(p, arp[i].mac)) /\ sent' = sent
  <2>1. PICK i \in Entry(PeerOf[p]) : Connected(p, arp[i].mac)
    BY <1>2
  <2>2. arp[i].mac = PeerOf[p]
    BY <1>1 DEF Table, Entry
  <2> QED BY <1>0, <1>1, <1>2, <2>1, <2>2, ConnectedIs
<1>3. CASE tower' = [tower EXCEPT ![p] = r] /\ sent' = Append(sent, x)
  <2>1. r \in EthLink /\ r.at = "resolve" /\ r.mac = Bcast /\ r.type = "806" /\ Waiting(r, "resolve", "806", arrived)
    BY <1>1 DEF Waiting, Ethernet, EthLink
  <2> HIDE DEF r
  <2>2. Right(p, r, <<>>, arrived)
    BY <1>0, <1>1, <2>1 DEF Right, Towers
  <2>3. Arp(1, Me, Me, PeerOf[p]) \in Arps
    BY <1>1 DEF Arp, Arps
  <2>4. x \in Wired /\ x.type = "806" /\ x.data = Arp(1, Me, Me, PeerOf[p])
    BY <1>1, <2>1, <2>3 DEF eth_write, EthernetII, Wired
  <2> HIDE DEF x
  <2>5. ~ IsAnswer(x, "arp") /\ ~ IsAnswer(x, "icmp")
    BY <2>4 DEF IsAnswer, Arp
  <2>6. /\ Append(sent, x) \in Seq(Wired) /\ Addressed(Append(sent, x))
        /\ \A q \in {"arp", "icmp"} : q # p => Served(q, tower[q], arrived, Append(sent, x))
    BY <2>4, <2>5, OthersServed
  <2> QED BY <1>0, <1>1, <1>3, <2>2, <2>6, StepKeeps
<1> QED BY <1>0, <1>2, <1>3

LEMMA ResolveKeeps ==
  ASSUME NetInv, NEW p \in Procs, Resolve(p)
  PROVE  NetInv'
<1> DEFINE o == tower[p]
           f == Next1(p)
           e == [ip |-> PeerOf[p], mac |-> f.data.src_mac]
<1>0. /\ arrived' = arrived /\ sent' = sent /\ got' = got /\ o.at = "resolve" /\ Pending(p)
      /\ \/ /\ resolves(p, f) /\ arp' = Append(arp, e) /\ Connected(p, f.data.src_mac)
         \/ tower' = [tower EXCEPT ![p] = Taken(o)] /\ arp' = arp
  BY DEF Resolve, Become
<1>1. /\ Right(p, o, got[p], arrived) /\ got \in [Procs -> Seq(Nat)] /\ Table(arp)
  BY Known
<1>2. p \in Clients /\ p \in Talkers
  BY <1>0, <1>1, ByPlace DEF Procs, Talkers
<1>3. Waiting(o, "resolve", "806", arrived) /\ got[p] = <<>> /\ PeerOf[p] \in Peers /\ p \notin {"arp", "icmp", "server"}
  BY <1>0, <1>1, <1>2, ByPlace, InetAssumption
<1>4. o \in EthLink /\ o.pos \in Nat /\ o.mac = Bcast /\ o.type = "806"
  BY <1>3 DEF Waiting, EthLink
<1>5. f \in Heard /\ Fair(f) /\ f = arrived[o.pos + 1] /\ o.pos + 1 <= Len(arrived)
  BY <1>0, <1>4, NextFrame
<1>6. got' = [got EXCEPT ![p] = <<>>]
  BY <1>0, <1>1, <1>3
<1> HIDE DEF f
<1>7. CASE resolves(p, f) /\ arp' = Append(arp, e) /\ Connected(p, f.data.src_mac)
  <2>1. f.type = "806" /\ f.data.src_ip = PeerOf[p]
    BY <1>4, <1>7 DEF resolves, read_matches, open_matches
  <2>2. f.data.src_mac = PeerOf[p]
    BY <1>5, <2>1 DEF Fair
  <2>3. Table(Append(arp, e))
    <3> DEFINE T == [ip : Peers, mac : Peers]
               n == Len(arp)
               s == Append(arp, e)
    <3>1. e \in T /\ e.mac = e.ip
      BY <1>3, <2>2
    <3>2. arp \in Seq(T) /\ \A i \in 1..n : arp[i].mac = arp[i].ip
      BY <1>1 DEF Table
    <3> HIDE DEF T, e
    <3>3. s \in Seq(T) /\ n \in Nat /\ Len(s) = n + 1 /\ s[n + 1] = e /\ \A i \in 1..n : s[i] = arp[i]
      BY <3>1, <3>2, Appended DEF Extends
    <3> HIDE DEF s, n
    <3>4. \A i \in 1..Len(s) : i = n + 1 \/ i \in 1..n
      BY <3>3
    <3>5. \A i \in 1..Len(s) : s[i].mac = s[i].ip
      BY <3>1, <3>2, <3>3, <3>4
    <3> QED BY <3>3, <3>5 DEF Table, s, T
  <2> HIDE DEF e
  <2> QED BY <1>0, <1>2, <1>6, <1>7, <2>2, <2>3, ConnectedIs
<1>8. CASE tower' = [tower EXCEPT ![p] = Taken(o)] /\ arp' = arp
  <2> DEFINE r == Taken(o)
  <2>1. r \in EthLink /\ r.pos = o.pos + 1 /\ r.at = o.at /\ r.mac = o.mac /\ r.type = o.type
    BY <1>4, TakenIs
  <2> HIDE DEF r
  <2>2. Waiting(r, "resolve", "806", arrived)
    BY <1>0, <1>4, <1>5, <2>1 DEF Waiting
  <2>3. Right(p, r, <<>>, arrived)
    BY <1>2, <1>3, <2>1, <2>2 DEF Right, Towers
  <2> QED BY <1>0, <1>1, <1>2, <1>6, <1>8, <2>3, TalkStep DEF r
<1> QED BY <1>0, <1>7, <1>8

(* read gives datagram k, and spins if there was something to copy.          *)
LEMMA CopyKeeps ==
  ASSUME NetInv, NEW p \in Talkers, NEW r \in Socket, NEW k \in Nat, NEW buf, Copy(p, r, k, buf),
         Talking(tower[p], got[p], arrived), p \in Clients => r.mac = PeerOf[p],
         r.pos = k, k >= 1, k <= Len(arrived), r.data = <<>>, IsMine(r, arrived, k),
         r.mac = tower[p].mac, r.ip = tower[p].ip, r.host_port = tower[p].host_port,
         r.peer_port = tower[p].peer_port, r.since = tower[p].since,
         \/ k = tower[p].pos + 1 /\ tower[p].data = <<>>
         \/ k = tower[p].pos /\ got[p] = <<>> /\ tower[p].since = k,
         arrived' = arrived, sent' = sent, arp' = arp
  PROVE  NetInv'
<1>0. p \in Procs /\ got \in [Procs -> Seq(Nat)] /\ got[p] \in Seq(Nat) /\ Table(arp)
  BY Known, Apart DEF Talkers
<1>1. PICK a \in {"open", "spin"} : tower' = [tower EXCEPT ![p] = [r EXCEPT !.at = a]]
  BY DEF Copy, Become
<1> DEFINE n == [r EXCEPT !.at = a]
           g == Append(got[p], k)
<1>2. /\ n \in Socket /\ n.pos = r.pos /\ n.mac = r.mac /\ n.ip = r.ip /\ n.data = <<>>
      /\ n.host_port = r.host_port /\ n.peer_port = r.peer_port /\ n.since = r.since
  <2>1. a \in {"open", "read", "spin"}
    OBVIOUS
  <2>2. /\ n \in Socket /\ n.pos = r.pos /\ n.mac = r.mac /\ n.ip = r.ip /\ n.data = r.data
        /\ n.host_port = r.host_port /\ n.peer_port = r.peer_port /\ n.since = r.since
    <3> HIDE DEF g
    <3> QED BY <2>1, SocketAt
  <2> QED BY <2>2
<1>3. tower' = [tower EXCEPT ![p] = n] /\ got' = [got EXCEPT ![p] = g] /\ g \in Seq(Nat)
  BY <1>0, <1>1, Appended DEF Copy
<1> HIDE DEF n
<1>4. /\ tower[p].pos \in Nat /\ tower[p].since \in Nat /\ Given(tower[p], got[p], arrived) /\ tower[p].mac \in Peers /\ tower[p].ip = tower[p].mac
  BY DEF Talking, Socket
<1>5. IsMine(n, arrived, k)
  BY <1>2 DEF IsMine
<1>6. Given(n, g, arrived)
  BY <1>0, <1>2, <1>4, <1>5, GivenMore
<1> HIDE DEF g
<1>7. Talking(n, g, arrived)
  BY <1>2, <1>4, <1>6 DEF Talking
<1>8. Right(p, n, g, arrived)
  BY <1>2, <1>3, <1>7, TalkRight
<1> QED BY <1>0, <1>3, <1>8, TalkStep

LEMMA StartReadKeeps ==
  ASSUME NetInv, NEW p \in Procs, StartRead(p)
  PROVE  NetInv'
<1> DEFINE o == tower[p]
<1>0. /\ arrived' = arrived /\ sent' = sent /\ arp' = arp /\ o.at = "open"
      /\ \/ o.data # <<>> /\ \E buf \in {0, 1} : Copy(p, [o EXCEPT !.data = <<>>], o.data[1], buf)
         \/ o.data = <<>> /\ tower' = [tower EXCEPT ![p] = [o EXCEPT !.at = "read"]] /\ got' = got
  BY DEF StartRead, Become
<1>1. /\ p \in Talkers /\ Talking(o, got[p], arrived) /\ got[p] \in Seq(Nat)
      /\ (p \in Clients => o.mac = PeerOf[p]) /\ Table(arp) /\ got \in [Procs -> Seq(Nat)]
  BY <1>0, TalksAt, Known
<1>2. o \in Socket /\ o.pos \in Nat /\ o.since \in Nat /\ o.pos <= Len(arrived) /\ Given(o, got[p], arrived) /\ o.mac \in Peers /\ o.ip = o.mac
  BY <1>1 DEF Talking, Socket
<1>3. CASE o.data # <<>> /\ \E buf \in {0, 1} : Copy(p, [o EXCEPT !.data = <<>>], o.data[1], buf)
  <2> DEFINE r == [o EXCEPT !.data = <<>>]
  <2>1. /\ r \in Socket /\ r.pos = o.pos /\ r.mac = o.mac /\ r.ip = o.ip /\ r.data = <<>>
        /\ r.host_port = o.host_port /\ r.peer_port = o.peer_port /\ r.since = o.since
    BY <1>2, SocketEmpty
  <2>2. got[p] = <<>> /\ o.data[1] = o.pos /\ o.pos >= 1 /\ IsMine(o, arrived, o.pos) /\ o.since = o.pos
    BY <1>2, <1>3 DEF Given
  <2>3. PICK buf \in {0, 1} : Copy(p, r, o.pos, buf)
    BY <1>3, <2>2
  <2> HIDE DEF r
  <2>4. IsMine(r, arrived, o.pos)
    BY <2>1, <2>2 DEF IsMine
  <2> QED BY <1>0, <1>1, <1>2, <2>1, <2>2, <2>3, <2>4, CopyKeeps
<1>4. CASE o.data = <<>> /\ tower' = [tower EXCEPT ![p] = [o EXCEPT !.at = "read"]] /\ got' = got
  <2> DEFINE r == [o EXCEPT !.at = "read"]
  <2>1. /\ r \in Socket /\ r.pos = o.pos /\ r.mac = o.mac /\ r.ip = o.ip /\ r.data = <<>>
        /\ r.host_port = o.host_port /\ r.peer_port = o.peer_port /\ r.since = o.since
    BY <1>2, <1>4, SocketAt
  <2> HIDE DEF r
  <2>2. \A i : IsMine(r, arrived, i) <=> IsMine(o, arrived, i)
    BY <2>1 DEF IsMine
  <2>3. Given(r, got[p], arrived)
    <3>1. /\ \A i \in 1..Len(got[p]) : got[p][i] \in 1..o.pos /\ IsMine(o, arrived, got[p][i])
          /\ \A i, j \in 1..Len(got[p]) : i < j => got[p][i] < got[p][j]
          /\ o.since >= 1
          /\ \A k \in o.since..o.pos : IsMine(o, arrived, k) => \E j \in 1..Len(got[p]) : got[p][j] = k
      BY <1>2, <1>4 DEF Given
    <3> HIDE DEF o
    <3> QED BY <2>1, <2>2, <3>1 DEF Given
  <2>4. Right(p, r, got[p], arrived)
    <3>1. Talking(r, got[p], arrived)
      BY <1>2, <2>1, <2>3 DEF Talking
    <3> QED BY <1>1, <2>1, <3>1, TalkRight
  <2>5. got' = [got EXCEPT ![p] = got[p]]
    BY <1>1, <1>4
  <2> QED BY <1>0, <1>1, <1>4, <2>4, <2>5, TalkStep DEF r
<1> QED BY <1>0, <1>3, <1>4

LEMMA UdpReadKeeps ==
  ASSUME NetInv, NEW p \in Procs, udp_read(p)
  PROVE  NetInv'
<1> DEFINE o == tower[p]
           f == Next1(p)
           r == Taken(o)
           ours == read_matches(r, f) /\ ip_matches(r, f.data) /\ udp_matches(r, f.data.data)
<1>0. /\ arrived' = arrived /\ sent' = sent /\ arp' = arp /\ o.at = "read" /\ Pending(p)
      /\ \/ ours /\ \E buf \in {0, 1} : Copy(p, r, r.pos, buf)
         \/ ~ ours /\ tower' = [tower EXCEPT ![p] = r] /\ got' = got
  BY DEF udp_read, Become
<1>1. /\ p \in Talkers /\ Talking(o, got[p], arrived) /\ got[p] \in Seq(Nat)
      /\ (p \in Clients => o.mac = PeerOf[p]) /\ Table(arp) /\ got \in [Procs -> Seq(Nat)]
  BY <1>0, TalksAt, Known
<1>2. /\ o \in Socket /\ o.pos \in Nat /\ o.since \in Nat /\ Given(o, got[p], arrived) /\ o.mac \in Peers /\ o.ip = o.mac
      /\ o.type = "800" /\ o.proto = "udp" /\ o.data = <<>>
  BY <1>0, <1>1 DEF Talking, Socket, Given
<1>3. f \in Heard /\ Fair(f) /\ f = arrived[o.pos + 1] /\ o.pos + 1 <= Len(arrived)
  BY <1>0, <1>2, NextFrame
<1>4. /\ r \in Socket /\ r.pos = o.pos + 1 /\ r.mac = o.mac /\ r.type = "800" /\ r.ip = o.ip /\ r.data = <<>>
      /\ r.host_port = o.host_port /\ r.peer_port = o.peer_port /\ r.since = o.since /\ r.proto = "udp" /\ r.pos \in Nat /\ r.pos >= 1
  <2>1. /\ r \in Socket /\ r.pos = o.pos + 1 /\ r.mac = o.mac /\ r.type = "800" /\ r.ip = o.ip /\ r.data = <<>>
        /\ r.host_port = o.host_port /\ r.peer_port = o.peer_port /\ r.since = o.since
    BY <1>2, TakenIs
  <2> HIDE DEF r
  <2> QED BY <1>2, <2>1 DEF Socket
<1> HIDE DEF r, f
<1>5. ours <=> IsMine(r, arrived, r.pos)
  BY <1>2, <1>3, <1>4, Apart
  DEF read_matches, open_matches, ip_matches, ip_accepts, udp_matches, IsMine, Fair
<1>6. CASE ours /\ \E buf \in {0, 1} : Copy(p, r, r.pos, buf)
  <2>1. PICK buf \in {0, 1} : Copy(p, r, r.pos, buf)
    BY <1>6
  <2>2. IsMine(r, arrived, r.pos)
    BY <1>5, <1>6
  <2> HIDE DEF ours
  <2> QED BY <1>0, <1>1, <1>2, <1>3, <1>4, <2>1, <2>2, CopyKeeps
<1>7. CASE ~ ours /\ tower' = [tower EXCEPT ![p] = r] /\ got' = got
  <2>1. ~ IsMine(r, arrived, r.pos)
    BY <1>5, <1>7
  <2>2. Given(r, got[p], arrived)
    BY <1>1, <1>2, <1>4, <2>1, GivenMore
  <2>3. Talking(r, got[p], arrived)
    BY <1>2, <1>3, <1>4, <2>2 DEF Talking
  <2>4. Right(p, r, got[p], arrived)
    BY <1>1, <1>4, <2>3, TalkRight
  <2>5. got' = [got EXCEPT ![p] = got[p]]
    BY <1>1, <1>7
  <2> QED BY <1>0, <1>1, <1>7, <2>4, <2>5, TalkStep
<1> QED BY <1>0, <1>6, <1>7

LEMMA UdpWriteKeeps ==
  ASSUME NetInv, NEW p \in Procs, udp_write(p)
  PROVE  NetInv'
<1> DEFINE r == tower[p]
           y == Ipv4("udp", Me, r.ip, Udp(r.host_port, r.peer_port, 1))
           x == eth_write(r, y)
<1>0. arrived' = arrived /\ arp' = arp /\ tower' = tower /\ got' = got /\ r.at = "open" /\ sent' = Append(sent, x)
  BY DEF udp_write
<1>1. /\ p \in Talkers /\ Talking(r, got[p], arrived) /\ Table(arp) /\ got \in [Procs -> Seq(Nat)]
      /\ tower \in [Procs -> Towers] /\ Right(p, r, got[p], arrived) /\ p \notin {"arp", "icmp"}
      /\ Me \in Hosts /\ Peers \subseteq Hosts
  BY <1>0, TalksAt, Known, Apart DEF Talkers
<1>2. r \in Socket /\ r.mac \in Peers /\ r.ip = r.mac /\ r.type = "800" /\ r.host_port \in Ports /\ r.peer_port \in Ports
  BY <1>1 DEF Talking, Socket
<1> HIDE DEF r
<1>3. Udp(r.host_port, r.peer_port, 1) \in Udps
  BY <1>2 DEF Udp, Udps
<1>4. y \in Ips /\ y.dst = r.ip /\ y.proto = "udp"
  BY <1>1, <1>2, <1>3 DEF Ipv4, Ips
<1> HIDE DEF y
<1>5. x \in Wired /\ x.type = "800" /\ x.data = y /\ x.dst = r.mac
  BY <1>1, <1>2, <1>4 DEF eth_write, EthernetII, Wired
<1> HIDE DEF x
<1>6. ~ IsAnswer(x, "arp") /\ ~ IsAnswer(x, "icmp")
  BY <1>4, <1>5 DEF IsAnswer
<1>7. /\ Append(sent, x) \in Seq(Wired) /\ Addressed(Append(sent, x))
      /\ \A q \in {"arp", "icmp"} : q # p => Served(q, tower[q], arrived, Append(sent, x))
  BY <1>2, <1>4, <1>5, <1>6, OthersServed
<1>8. tower' = [tower EXCEPT ![p] = r] /\ got' = [got EXCEPT ![p] = got[p]]
  BY <1>0, <1>1 DEF r
<1> QED BY <1>0, <1>1, <1>7, <1>8, StepKeeps

LEMMA CloseKeeps ==
  ASSUME NetInv, NEW p \in Procs, Close(p)
  PROVE  NetInv'
<1>0. /\ arrived' = arrived /\ sent' = sent /\ arp' = arp /\ got' = got /\ tower[p].at = "open"
      /\ tower' = [tower EXCEPT ![p] = Closed]
  BY DEF Close, Become
<1>1. /\ p \in Talkers /\ got[p] \in Seq(Nat) /\ Table(arp) /\ got \in [Procs -> Seq(Nat)]
      /\ p \notin {"arp", "icmp"}
  BY <1>0, TalksAt, Known, Apart DEF Talkers
<1>2. Right(p, Closed, got[p], arrived)
  BY <1>1 DEF Right, Towers
<1>3. got' = [got EXCEPT ![p] = got[p]]
  BY <1>0, <1>1
<1> QED BY <1>0, <1>1, <1>2, <1>3, TalkStep

LEMMA NetStarts == InetInit => NetInv
<1> SUFFICES ASSUME InetInit PROVE NetInv
  OBVIOUS
<1>0. /\ arrived = <<>> /\ sent = <<>> /\ arp = <<>> /\ Closed.at = "closed"
      /\ tower = [p \in Procs |-> Closed] /\ got = [p \in Procs |-> <<>>]
  BY DEF InetInit, Closed
<1>1. /\ <<>> \in Seq(Heard) /\ <<>> \in Seq(Wired) /\ <<>> \in Seq(Nat) /\ <<>> \in Seq([ip : Peers, mac : Peers])
      /\ Len(<<>>) = 0 /\ 1..0 = {}
  OBVIOUS
<1>2. Table(<<>>) /\ Addressed(<<>>)
  BY <1>1 DEF Table, Addressed
<1>3. tower \in [Procs -> Towers] /\ got \in [Procs -> Seq(Nat)]
  BY <1>0, <1>1 DEF Towers
<1>4. \A p \in Procs : Right(p, Closed, <<>>, <<>>)
  BY <1>1 DEF Right, Towers
<1>5. \A p \in {"arp", "icmp"} : Served(p, Closed, <<>>, <<>>)
  <2> TAKE p \in {"arp", "icmp"}
  <2>1. AnswersIn(<<>>, p) = {}
    BY <1>1 DEF AnswersIn
  <2>2. DueOf(p, Closed, <<>>) = {}
    BY <1>0 DEF DueOf
  <2> QED BY <2>1, <2>2, NoneDue DEF Served
<1>6. "arp" \in Procs /\ "icmp" \in Procs
  BY Apart
<1> QED BY <1>0, <1>1, <1>2, <1>3, <1>4, <1>5, <1>6 DEF NetInv

LEMMA NetKeeps == NetInv /\ [InetNext]_inetVars => NetInv'
<1> SUFFICES ASSUME NetInv, [InetNext]_inetVars PROVE NetInv'
  OBVIOUS
<1>1. CASE UNCHANGED inetVars
  <2>1. arrived' = arrived /\ sent' = sent /\ arp' = arp /\ tower' = tower /\ got' = got
    BY <1>1 DEF inetVars
  <2> QED BY <2>1 DEF NetInv
<1>2. CASE \E p \in Peers : Arrive(p)
  BY <1>2, ArriveKeeps
<1>3. CASE ArpLoop \/ IcmpLoop \/ udp_open
  BY <1>3, ArpLoopKeeps, IcmpLoopKeeps, UdpOpenKeeps
<1>4. CASE \E p \in Procs : Listen(p) \/ IpListen(p) \/ ClientOpen(p) \/ Resolve(p)
                            \/ StartRead(p) \/ udp_read(p) \/ udp_write(p) \/ Close(p)
  BY <1>4, ListenKeeps, IpListenKeeps, ClientOpenKeeps, ResolveKeeps, StartReadKeeps, UdpReadKeeps, UdpWriteKeeps, CloseKeeps
<1> QED BY <1>1, <1>2, <1>3, <1>4 DEF InetNext

(* Through any number of frames, hosts, clients and calls, every process has *)
(* the resources its place in the code says, with the answers, the links and *)
(* the datagrams that go with them: NetInv (kernel/network/schemes).         *)
THEOREM InetInvariance == InetSpec => []NetInv
BY NetStarts, NetKeeps, PTL DEF InetSpec

(* The replies of the ARP and ICMP loops answer the requests they came to,   *)
(* once and in order; links lead to the host they are for though processes   *)
(* see each other's replies; a socket is given its own datagrams, once and   *)
(* in order, and none that it met since its opening is passed over, but an   *)
(* empty one that made a server: InetSound.                                  *)
THEOREM InetStaysSound == InetSpec => []InetSound
<1>1. ASSUME NetInv PROVE AnswersDue
  BY <1>1 DEF NetInv, AnswersDue, Served, AnswersIn, DueOf
<1>2. ASSUME NetInv PROVE LinksRight
  <2>1. \A i \in 1..Len(arp) : arp[i].mac = arp[i].ip
    BY <1>2 DEF NetInv, Table
  <2>2. \A p \in Clients : tower[p].at \in {"open", "read", "spin"} => tower[p].mac = PeerOf[p]
    BY <1>2, TalksAt, Apart
  <2>3. ASSUME NEW f \in Range(sent), f.type = "800" PROVE f.dst = f.data.dst
    <3>1. sent \in Seq(Wired) /\ Addressed(sent)
      BY <1>2 DEF NetInv
    <3>2. PICK i \in DOMAIN sent : f = sent[i]
      BY <2>3 DEF Range
    <3>3. i \in 1..Len(sent)
      BY <3>1
    <3> QED BY <2>3, <3>1, <3>2, <3>3 DEF Addressed
  <2> QED BY <2>1, <2>2, <2>3 DEF LinksRight
<1>3. ASSUME NetInv PROVE OwnDatagrams
  <2>1. ASSUME NEW p \in Talkers, tower[p].at \in {"open", "read", "spin"}
        PROVE  /\ got[p] \in Seq(Nat) /\ Given(tower[p], got[p], arrived)
    BY <1>3, <2>1, TalksAt, Apart DEF Talkers, Talking
  <2>2. ASSUME NEW p \in Talkers, got[p] \in Seq(Nat), NEW k
        PROVE  (\E j \in 1..Len(got[p]) : got[p][j] = k) => k \in Range(got[p])
    BY <2>2 DEF Range
  <2>3. ASSUME NEW p \in Talkers, tower[p].at \in {"open", "read", "spin"}
        PROVE  /\ \A i \in 1..Len(got[p]) : IsMine(tower[p], arrived, got[p][i])
               /\ \A i, j \in 1..Len(got[p]) : i < j => got[p][i] < got[p][j]
               /\ \A k \in tower[p].since..tower[p].pos :
                    IsMine(tower[p], arrived, k) => k \in Range(got[p]) \cup Range(tower[p].data)
    <3>1. got[p] \in Seq(Nat) /\ Given(tower[p], got[p], arrived)
      BY <2>1, <2>3
    <3>2. \A k : (\E j \in 1..Len(got[p]) : got[p][j] = k) => k \in Range(got[p])
      BY <2>2, <3>1
    <3>3. CASE tower[p].data = <<>>
      BY <3>1, <3>2, <3>3 DEF Given
    <3>4. CASE tower[p].data # <<>>
      <4>1. tower[p].data = <<tower[p].pos>> /\ tower[p].since = tower[p].pos /\ tower[p].pos >= 1
        BY <3>1, <3>4 DEF Given
      <4>2. tower[p].pos \in Range(tower[p].data)
        BY <4>1 DEF Range
      <4>3. tower[p].pos \in Nat
        BY <1>3, <2>3, TalksAt, Apart DEF Talkers, Talking, Socket
      <4>4. \A k \in tower[p].since..tower[p].pos : k = tower[p].pos
        BY <4>1, <4>3
      <4> QED BY <3>1, <4>2, <4>4 DEF Given
    <3> QED BY <3>3, <3>4
  <2> QED BY <2>3 DEF OwnDatagrams, IsMine, Talkers
<1> QED BY <1>1, <1>2, <1>3, InetInvariance, PTL DEF InetSound
=============================================================================
