--------------------------- MODULE SchemesProofs ---------------------------
(***************************************************************************)
(* Proofs about Schemes for any number of clients, servers, schemes and    *)
(* calls.  A packet is in one of three places, the queue, the server's     *)
(* hands or the answers, and the client that it came from waits with its   *)
(* number until the answer is taken; so an answer cannot reach anybody     *)
(* else, and a number is not in use twice.  The Arc counts what the list   *)
(* shows, and an entry in a server's table belongs to one call.            *)
(* Then proofs about Disk, the drivers below the scheme disk.              *)
(***************************************************************************)
EXTENDS Schemes, Disk, FiniteSetTheorems, SequenceTheorems, TLAPS

Packet == [id : Nat, from : Client]
Answer == [id : Nat, to : Client, ok : BOOLEAN]
Entry == [virt : Nat, size : Nat, client : Client, inst : Inst]
Op == {"none", "open", "path", "buffer", "plain", "close"}
Call == [inst : Inst \cup {Absent}, id : Nat, virt : Nat, op : Op]

(* Types.                                                                    *)
STypes ==
  /\ list \subseteq Inst
  /\ name \in [Inst -> Name \cup {Absent}] /\ server \in [Inst -> Server \cup {Absent}]
  /\ fds \in [Inst -> Nat] /\ next_id \in [Inst -> Nat \ {0}]
  /\ todo \in [Inst -> Seq(Packet)] /\ taken \in [Inst -> SUBSET Packet]
  /\ done \in [Inst -> SUBSET Answer] /\ lent \in [Server -> SUBSET Entry]
  /\ stage \in [Client -> {"idle", "wait"}] /\ call \in [Client -> Call]
  /\ files \in [Client -> SUBSET Inst]

(* A scheme that was not made yet has no owners; one that was has a server.  *)
Made ==
  /\ \A i \in Inst : IF name[i] = Absent THEN fds[i] = 0 ELSE server[i] \in Server
  /\ \A c \in Client : stage[c] = "wait" => /\ call[c].inst \in Inst
                                            /\ name[call[c].inst] # Absent

(* The packets of the calls of scheme i that are under way.                  *)
Asked(i) == {p \in Packet : stage[p.from] = "wait" /\ call[p.from].inst = i
                            /\ call[p.from].id = p.id}

(* A number is in one place: the queue t, the server's k or the answers d.   *)
OnePlace(t, k, d) ==
  /\ \A j, l \in 1..Len(t) : t[j].id = t[l].id => j = l
  /\ \A p, q \in k : p.id = q.id => p = q
  /\ \A a, b \in d : a.id = b.id => a = b
  /\ \A j \in 1..Len(t) : (\A p \in k : t[j].id # p.id) /\ \A a \in d : t[j].id # a.id
  /\ \A p \in k, a \in d : p.id # a.id

(* What is in those places are packets, or answers to packets, of calls      *)
(* under way, o; these have numbers below the next one, n, each its own.     *)
Orderly(t, k, d, o, n) ==
  /\ OnePlace(t, k, d)
  /\ \A j \in 1..Len(t) : t[j] \in o
  /\ \A p \in k : p \in o
  /\ \A a \in d : [id |-> a.id, from |-> a.to] \in o
  /\ \A p \in o : p.id < n
  /\ \A p, q \in o : p.id = q.id => p = q

Packets == \A i \in Inst : Orderly(todo[i], taken[i], done[i], Asked(i), next_id[i])

SInv == STypes /\ Made /\ Packets /\ ListedWhileAlive

(* An entry of a server's table is where no other one is, and belongs to a   *)
(* call under way, or its scheme is gone, as long as no buffer was empty.    *)
InUse(s, e) ==
  /\ InCall(e.client) /\ call[e.client].virt = e.virt /\ call[e.client].inst = e.inst
  /\ server[e.inst] = s
LInv ==
  /\ \A s \in Clean : \A e \in lent[s] :
       /\ e.size > 0 /\ name[e.inst] # Absent
       /\ InUse(s, e) \/ Strong(e.inst) = 0
  /\ \A s \in Clean : \A e, f \in lent[s] : e.virt = f.virt => e = f
  /\ \A c \in Client : InCall(c) /\ server[call[c].inst] \in Clean =>
       \E e \in lent[server[call[c].inst]] : e.client = c /\ e.virt = call[c].virt

-----------------------------------------------------------------------------
(* The Arc of a scheme: a count of descriptors and of calls under way.       *)
LEMMA StrongType ==
  ASSUME STypes, NEW i \in Inst
  PROVE  /\ IsFiniteSet(Calling(i)) /\ Cardinality(Calling(i)) \in Nat
         /\ Strong(i) \in Nat /\ fds[i] \in Nat
         /\ \A c \in Calling(i) : Cardinality(Calling(i)) > 0
<1>1. Calling(i) \subseteq Client
  BY DEF Calling
<1>2. IsFiniteSet(Calling(i))
  BY <1>1, SchemesAssumption, FS_Subset
<1>3. Cardinality(Calling(i)) \in Nat
  BY <1>2, FS_CardinalityType
<1>4. \A c \in Calling(i) : Cardinality(Calling(i)) > 0
  BY <1>2, <1>3, FS_EmptySet
<1> QED BY <1>2, <1>3, <1>4 DEF STypes, Strong

(* A client that calls takes an Arc ...                                      *)
LEMMA StrongUp ==
  ASSUME STypes, NEW c \in Client, NEW i \in Inst, stage[c] # "wait",
         NEW r \in Call, r.inst = i, fds' = fds,
         stage' = [stage EXCEPT ![c] = "wait"], call' = [call EXCEPT ![c] = r]
  PROVE  Strong(i)' = Strong(i) + 1 /\ \A j \in Inst : j # i => Strong(j)' = Strong(j)
<1>1. /\ stage'[c] = "wait" /\ call'[c] = r
      /\ \A d \in Client : d # c => stage'[d] = stage[d] /\ call'[d] = call[d]
  BY DEF STypes
<1>2. Calling(i)' = Calling(i) \cup {c} /\ c \notin Calling(i)
  BY <1>1 DEF Calling
<1>3. Cardinality(Calling(i)') = Cardinality(Calling(i)) + 1
  BY <1>2, StrongType, FS_AddElement
<1>4. ASSUME NEW j \in Inst, j # i PROVE Calling(j)' = Calling(j)
  BY <1>1, <1>4 DEF Calling
<1>5. Strong(i)' = Strong(i) + 1
  BY <1>3, StrongType DEF Strong
<1>6. \A j \in Inst : j # i => Strong(j)' = Strong(j)
  BY <1>4 DEF Strong
<1> QED BY <1>5, <1>6

(* ... and gives it back.                                                    *)
LEMMA StrongDown ==
  ASSUME STypes, NEW c \in Client, NEW i \in Inst, stage[c] = "wait", call[c].inst = i,
         fds' = fds, stage' = [stage EXCEPT ![c] = "idle"], call' = [call EXCEPT ![c] = NoCall]
  PROVE  Strong(i)' = Strong(i) - 1 /\ \A j \in Inst : j # i => Strong(j)' = Strong(j)
<1>1. /\ stage'[c] = "idle"
      /\ \A d \in Client : d # c => stage'[d] = stage[d] /\ call'[d] = call[d]
  BY DEF STypes
<1>2. Calling(i)' = Calling(i) \ {c} /\ c \in Calling(i)
  BY <1>1 DEF Calling
<1>3. Cardinality(Calling(i)') = Cardinality(Calling(i)) - 1
  BY ZenonT(40), <1>2, StrongType, FS_RemoveElement
<1>4. ASSUME NEW j \in Inst, j # i PROVE Calling(j)' = Calling(j)
  BY <1>1, <1>4 DEF Calling
<1>5. Strong(i)' = Strong(i) - 1
  BY <1>3, StrongType DEF Strong
<1>6. \A j \in Inst : j # i => Strong(j)' = Strong(j)
  BY <1>4 DEF Strong
<1> QED BY <1>5, <1>6

(* A scheme with owners was made: it has a name and a server.                *)
LEMMA OwnersMade ==
  ASSUME STypes, Made, NEW i \in Inst, Strong(i) > 0
  PROVE  name[i] # Absent /\ server[i] \in Server
<1>1. CASE fds[i] > 0
  BY <1>1 DEF Made
<1>2. CASE fds[i] = 0
  <2>1. Cardinality(Calling(i)) > 0
    BY <1>2, StrongType DEF Strong
  <2>2. Calling(i) # {}
    BY <2>1, FS_EmptySet
  <2> QED BY <2>2 DEF Calling, Made
<1> QED BY <1>1, <1>2, StrongType

(* Drop for SchemeInner takes its own scheme off the list.                   *)
LEMMA ReleaseList ==
  ASSUME STypes, ListedWhileAlive, NEW i \in Inst, Strong(i) > 0, Release(i), name' = name,
         Strong(i)' = Strong(i) - 1, \A j \in Inst : j # i => Strong(j)' = Strong(j)
  PROVE  ListedWhileAlive' /\ list' \subseteq Inst
<1>1. Strong(i) \in Nat /\ i \in list
  BY StrongType DEF ListedWhileAlive
<1>2. CASE Strong(i) = 1
  <2>1. list' = list \ {i}
    BY <1>1, <1>2 DEF Release, Dropped, ListedWhileAlive
  <2> QED BY <1>2, <2>1 DEF ListedWhileAlive, STypes
<1>3. CASE Strong(i) # 1
  <2>1. list' = list /\ Strong(i)' > 0
    BY <1>1, <1>3 DEF Release
  <2> QED BY <1>1, <2>1 DEF ListedWhileAlive, STypes
<1> QED BY <1>2, <1>3

-----------------------------------------------------------------------------
(* The places of packets.                                                    *)

(* SchemeInner::call puts a packet with a new number into the queue.         *)
LEMMA SendPlaces ==
  ASSUME NEW t \in Seq(Packet), NEW k \in SUBSET Packet, NEW d \in SUBSET Answer,
         NEW o \in SUBSET Packet, NEW n \in Nat, Orderly(t, k, d, o, n),
         NEW p \in Packet, p.id = n
  PROVE  Orderly(Append(t, p), k, d, o \cup {p}, n + 1)
<1>1. /\ Len(Append(t, p)) = Len(t) + 1 /\ Append(t, p)[Len(t) + 1] = p /\ Len(t) \in Nat
      /\ \A j \in 1..Len(t) : Append(t, p)[j] = t[j]
  OBVIOUS
<1>2. \A j \in 1..Len(Append(t, p)) : j \in 1..Len(t) \/ j = Len(t) + 1
  BY <1>1
<1>3. \A q \in o : q.id # n /\ q.id < n + 1
  BY DEF Orderly, Packet
<1>4. /\ \A j \in 1..Len(t) : t[j].id # p.id
      /\ \A q \in k : q.id # p.id
      /\ \A a \in d : a.id # p.id
  BY <1>3 DEF Orderly
<1>5. OnePlace(Append(t, p), k, d)
  BY <1>1, <1>2, <1>4 DEF Orderly, OnePlace
<1> QED BY <1>1, <1>2, <1>3, <1>5 DEF Orderly

(* The server's read takes packets from the front of the queue.              *)
LEMMA ReadPlaces ==
  ASSUME NEW t \in Seq(Packet), NEW k \in SUBSET Packet, NEW d \in SUBSET Answer,
         NEW o, NEW h, Orderly(t, k, d, o, h), NEW n \in 1..Len(t)
  PROVE  /\ Orderly(SubSeq(t, n + 1, Len(t)), k \cup {t[j] : j \in 1..n}, d, o, h)
         /\ SubSeq(t, n + 1, Len(t)) \in Seq(Packet)
         /\ {t[j] : j \in 1..n} \subseteq Packet
<1> DEFINE u == SubSeq(t, n + 1, Len(t))
           m == k \cup {t[j] : j \in 1..n}
<1>0. OnePlace(t, k, d)
  BY DEF Orderly
<1>1. Len(t) \in Nat /\ n \in Nat /\ n <= Len(t)
  OBVIOUS
<1>2. \A j \in 1..n : j \in 1..Len(t) /\ t[j] \in Packet
  BY <1>1
<1>3. u \in Seq(Packet) /\ Len(u) = Len(t) - n
  BY <1>1
<1>4. ASSUME NEW j \in 1..Len(u) PROVE n + j \in 1..Len(t) /\ u[j] = t[n + j] /\ ~ (n + j <= n)
  BY <1>1, <1>3
<1>5. \A j, l \in 1..Len(u) : u[j].id = u[l].id => j = l
  <2> SUFFICES ASSUME NEW j \in 1..Len(u), NEW l \in 1..Len(u), u[j].id = u[l].id PROVE j = l
    OBVIOUS
  <2>1. n + j = n + l
    BY <1>0, <1>4 DEF OnePlace
  <2> QED BY <2>1, <1>1, <1>3
<1>6. \A p, q \in m : p.id = q.id => p = q
  BY <1>0, <1>2 DEF OnePlace
<1>7. ASSUME NEW j \in 1..Len(u), NEW p \in m PROVE u[j].id # p.id
  <2>1. CASE p \in k
    BY <2>1, <1>0, <1>4 DEF OnePlace
  <2>2. CASE p \notin k
    <3>1. PICK l \in 1..n : p = t[l]
      BY <2>2
    <3>2. n + j # l
      BY <1>1, <1>4
    <3> QED BY <3>1, <3>2, <1>0, <1>2, <1>4 DEF OnePlace
  <2> QED BY <2>1, <2>2
<1>8. \A j \in 1..Len(u), a \in d : u[j].id # a.id
  BY <1>0, <1>4 DEF OnePlace
<1>9. \A p \in m, a \in d : p.id # a.id
  BY <1>0, <1>2 DEF OnePlace
<1>10. \A a, b \in d : a.id = b.id => a = b
  BY <1>0 DEF OnePlace
<1>11. OnePlace(u, m, d)
  BY <1>5, <1>6, <1>7, <1>8, <1>9, <1>10 DEF OnePlace
<1>12. (\A j \in 1..Len(u) : u[j] \in o) /\ \A p \in m : p \in o
  BY <1>2, <1>4 DEF Orderly
<1> QED BY <1>2, <1>3, <1>11, <1>12 DEF Orderly

(* An answer takes the place of its packet.                                  *)
LEMMA AnswerPlaces ==
  ASSUME NEW t \in Seq(Packet), NEW k \in SUBSET Packet, NEW d \in SUBSET Answer,
         NEW o \in SUBSET Packet, NEW n, Orderly(t, k, d, o, n),
         NEW p \in k, NEW b \in Answer, b.id = p.id, b.to = p.from
  PROVE  Orderly(t, k \ {p}, {a \in d : a.id # p.id} \cup {b}, o, n)
<1>1. OnePlace(t, k \ {p}, {a \in d : a.id # p.id} \cup {b})
  BY DEF Orderly, OnePlace
<1>2. [id |-> b.id, from |-> b.to] = p
  BY DEF Packet
<1> QED BY <1>1, <1>2 DEF Orderly

(* An answer is taken, and the call is over.                                 *)
LEMMA ReturnPlaces ==
  ASSUME NEW t \in Seq(Packet), NEW k \in SUBSET Packet, NEW d \in SUBSET Answer,
         NEW o \in SUBSET Packet, NEW n, Orderly(t, k, d, o, n),
         NEW a \in d, NEW p \in o, p.id = a.id
  PROVE  Orderly(t, k, d \ {a}, o \ {p}, n)
<1>1. OnePlace(t, k, d \ {a})
  BY DEF Orderly, OnePlace
<1>2. /\ \A j \in 1..Len(t) : t[j] # p
      /\ \A q \in k : q # p
      /\ \A b \in d \ {a} : [id |-> b.id, from |-> b.to] # p
  BY DEF Orderly, OnePlace
<1> QED BY <1>1, <1>2 DEF Orderly

-----------------------------------------------------------------------------
(* Init establishes the invariants.                                          *)
LEMMA SInit == SchemesInit => SInv /\ LInv
<1> SUFFICES ASSUME SchemesInit PROVE SInv /\ LInv
  OBVIOUS
<1> USE SchemesAssumption DEF SchemesInit
<1>1. STypes
  <2>1. NoCall \in Call
    BY DEF NoCall, Call, Op
  <2> QED BY <2>1 DEF STypes
<1>2. Made
  BY DEF Made
<1>3. Packets
  <2>1. \A i \in Inst : Asked(i) = {}
    BY DEF Asked, Packet
  <2> QED BY <2>1 DEF Packets, Orderly, OnePlace
<1>4. \A i \in Inst : Strong(i) = 0
  <2> SUFFICES ASSUME NEW i \in Inst PROVE Strong(i) = 0
    OBVIOUS
  <2>1. Calling(i) = {}
    BY DEF Calling
  <2>2. Cardinality(Calling(i)) = 0
    BY <2>1, FS_EmptySet
  <2> QED BY <2>2 DEF Strong
<1>5. ListedWhileAlive
  BY <1>4 DEF ListedWhileAlive
<1>6. LInv
  <2>1. \A s \in Server : lent[s] = {}
    OBVIOUS
  <2>2. \A c \in Client : ~ InCall(c)
    BY DEF InCall
  <2> QED BY <2>1, <2>2 DEF LInv, Clean
<1> QED BY <1>1, <1>2, <1>3, <1>5, <1>6 DEF SInv

(* A call begins ...                                                         *)
LEMMA AskedUp ==
  ASSUME STypes, NEW c \in Client, NEW i \in Inst, stage[c] # "wait",
         NEW r \in Call, r.inst = i,
         stage' = [stage EXCEPT ![c] = "wait"], call' = [call EXCEPT ![c] = r]
  PROVE  /\ Asked(i)' = Asked(i) \cup {[id |-> r.id, from |-> c]}
         /\ \A j \in Inst : j # i => Asked(j)' = Asked(j)
<1>1. /\ stage'[c] = "wait" /\ call'[c] = r
      /\ \A d \in Client : d # c => stage'[d] = stage[d] /\ call'[d] = call[d]
  BY DEF STypes
<1>2. r.id \in Nat
  BY DEF Call
<1> QED BY <1>1, <1>2 DEF Asked, Packet

(* ... and ends.                                                             *)
LEMMA AskedDown ==
  ASSUME STypes, NEW c \in Client, NEW i \in Inst, stage[c] = "wait", call[c].inst = i,
         stage' = [stage EXCEPT ![c] = "idle"], call' = [call EXCEPT ![c] = NoCall]
  PROVE  /\ [id |-> call[c].id, from |-> c] \in Asked(i)
         /\ Asked(i)' = Asked(i) \ {[id |-> call[c].id, from |-> c]}
         /\ \A j \in Inst : j # i => Asked(j)' = Asked(j)
<1>1. /\ stage'[c] = "idle" /\ call[c].id \in Nat
      /\ \A d \in Client : d # c => stage'[d] = stage[d] /\ call'[d] = call[d]
  BY DEF STypes, Call
<1> QED BY <1>1 DEF Asked, Packet

(* A call is sent: path, read, write, seek, close.                           *)
LEMMA SendStep ==
  ASSUME SInv, NEW c \in Client, NEW i \in Inst, NEW op \in Op, NEW v \in Nat,
         CanCall(c, i), Send(c, i, op, v), UNCHANGED <<list, name, server, fds>>,
         lent' \in [Server -> SUBSET Entry], files' \in [Client -> SUBSET Inst]
  PROVE  SInv'
<1> DEFINE r == [inst |-> i, id |-> next_id[i], virt |-> v, op |-> op]
           p == [id |-> next_id[i], from |-> c]
<1>0. /\ next_id' = [next_id EXCEPT ![i] = @ + 1]
      /\ todo' = [todo EXCEPT ![i] = Append(@, p)]
      /\ stage' = [stage EXCEPT ![c] = "wait"] /\ call' = [call EXCEPT ![c] = r]
      /\ UNCHANGED <<done, taken>> /\ stage[c] = "idle" /\ Strong(i) > 0
  BY DEF Send, CanCall
<1>t. STypes /\ Made /\ Packets /\ ListedWhileAlive
  BY DEF SInv
<1>1. r \in Call /\ p \in Packet /\ next_id[i] \in Nat \ {0}
  BY <1>t DEF STypes, Call, Packet
<1>2. /\ stage'[c] = "wait" /\ call'[c] = r
      /\ \A d \in Client : d # c => stage'[d] = stage[d] /\ call'[d] = call[d]
      /\ next_id'[i] = next_id[i] + 1 /\ \A j \in Inst : j # i => next_id'[j] = next_id[j]
      /\ todo'[i] = Append(todo[i], p) /\ \A j \in Inst : j # i => todo'[j] = todo[j]
  BY <1>0, <1>1, <1>t DEF STypes
<1>3. STypes'
  <2>1. next_id' \in [Inst -> Nat \ {0}] /\ call' \in [Client -> Call]
    BY <1>0, <1>1, <1>t DEF STypes
  <2>2. todo' \in [Inst -> Seq(Packet)] /\ stage' \in [Client -> {"idle", "wait"}]
    BY <1>0, <1>1, <1>t DEF STypes
  <2> QED BY <2>1, <2>2, <1>0, <1>t DEF STypes
<1>4. Made'
  <2>1. name[i] # Absent
    BY <1>0, <1>t, OwnersMade
  <2> QED BY <2>1, <1>0, <1>2, <1>t DEF Made
<1>5. Asked(i)' = Asked(i) \cup {p} /\ \A j \in Inst : j # i => Asked(j)' = Asked(j)
  BY ZenonT(40), <1>0, <1>1, <1>t, AskedUp
<1>6. ASSUME NEW j \in Inst
      PROVE  Orderly(todo'[j], taken'[j], done'[j], Asked(j)', next_id'[j])
  <2>1. /\ Orderly(todo[j], taken[j], done[j], Asked(j), next_id[j])
        /\ todo[j] \in Seq(Packet) /\ taken[j] \in SUBSET Packet
        /\ done[j] \in SUBSET Answer /\ Asked(j) \in SUBSET Packet
    BY <1>t DEF Packets, STypes, Asked
  <2>2. CASE j # i
    BY <2>1, <2>2, <1>0, <1>2, <1>5
  <2>3. CASE j = i
    <3>1. Orderly(Append(todo[i], p), taken[i], done[i], Asked(i) \cup {p}, next_id[i] + 1)
      BY <2>1, <2>3, <1>1, SendPlaces
    <3> QED BY <3>1, <2>3, <1>0, <1>2, <1>5
  <2> QED BY <2>2, <2>3
<1>7. ListedWhileAlive'
  <2>1. Strong(i)' = Strong(i) + 1 /\ \A j \in Inst : j # i => Strong(j)' = Strong(j)
    BY <1>0, <1>1, <1>t, StrongUp
  <2>2. Strong(i) \in Nat
    BY <1>t, StrongType
  <2> QED BY <2>1, <2>2, <1>0, <1>t DEF ListedWhileAlive
<1> QED BY <1>3, <1>4, <1>6, <1>7 DEF SInv, Packets

(* The number of descriptors of a scheme changes.                            *)
LEMMA StrongFds ==
  ASSUME STypes, NEW i \in Inst, NEW n \in Nat, fds' = [fds EXCEPT ![i] = n],
         UNCHANGED <<stage, call>>
  PROVE  /\ Strong(i)' = n + Cardinality(Calling(i))
         /\ \A j \in Inst : j # i => Strong(j)' = Strong(j)
         /\ fds' \in [Inst -> Nat]
<1>1. \A j \in Inst : Calling(j)' = Calling(j)
  BY DEF Calling
<1>2. /\ fds'[i] = n /\ fds' \in [Inst -> Nat]
      /\ \A j \in Inst : j # i => fds'[j] = fds[j]
  BY DEF STypes
<1> QED BY <1>1, <1>2 DEF Strong

(* Steps that leave packets and calls alone.                                 *)
LEMMA SamePackets ==
  ASSUME Packets, UNCHANGED <<queues, stage, call>>
  PROVE  Packets'
<1>1. \A i \in Inst : Asked(i)' = Asked(i)
  BY DEF Asked
<1> QED BY <1>1 DEF Packets, queues

(* A scheme is registered, at an object that nobody owned.                   *)
LEMMA RegisterStep ==
  ASSUME SInv, NEW s \in Server, NEW i \in Inst, NEW n \in Name, Register(s, i, n)
  PROVE  SInv' /\ \A j \in Inst : name[j] # Absent => Strong(j)' = Strong(j)
<1>0. /\ name[i] = Absent /\ \A j \in list : name[j] # n
      /\ list' = list \cup {i} /\ fds' = [fds EXCEPT ![i] = 1]
      /\ name' = [name EXCEPT ![i] = n] /\ server' = [server EXCEPT ![i] = s]
      /\ UNCHANGED <<queues, lent, stage, call, files>>
  BY DEF Register
<1>t. STypes /\ Made /\ Packets /\ ListedWhileAlive
  BY DEF SInv
<1>1. Strong(i)' = 1 + Cardinality(Calling(i)) /\ \A j \in Inst : j # i => Strong(j)' = Strong(j)
  BY <1>0, <1>t, StrongFds
<1>2. Strong(i)' > 0
  BY <1>1, <1>t, StrongType
<1>3. STypes'
  BY <1>0, <1>t DEF STypes, queues
<1>4. Made'
  BY <1>0, <1>t, SchemesAssumption DEF Made, STypes
<1>5. Packets'
  BY <1>0, <1>t, SamePackets
<1>6. ListedWhileAlive'
  <2>1. i \notin list
    BY <1>0, <1>t, OwnersMade DEF ListedWhileAlive
  <2>2. name'[i] = n /\ \A j \in Inst : j # i => name'[j] = name[j]
    BY <1>0, <1>t DEF STypes
  <2> QED BY <2>1, <2>2, <1>0, <1>1, <1>2, <1>t DEF ListedWhileAlive, STypes
<1> QED BY <1>0, <1>1, <1>3, <1>4, <1>5, <1>6 DEF SInv

(* A descriptor of the server is cloned, or closed, perhaps as the last one. *)
LEMMA DupStep ==
  ASSUME SInv, NEW i \in Inst, DupServer(i)
  PROVE  SInv' /\ \A j \in Inst : Strong(j) = 0 => Strong(j)' = 0
<1>0. /\ fds[i] > 0 /\ fds' = [fds EXCEPT ![i] = @ + 1]
      /\ UNCHANGED <<list, name, server, queues, lent, stage, call, files>>
  BY SchemesAssumption DEF DupServer
<1>t. STypes /\ Made /\ Packets /\ ListedWhileAlive
  BY DEF SInv
<1>1. /\ fds[i] \in Nat /\ fds[i] + 1 \in Nat /\ Cardinality(Calling(i)) \in Nat
      /\ Strong(i) = fds[i] + Cardinality(Calling(i))
  BY <1>t, StrongType DEF Strong
<1>2. /\ Strong(i)' = fds[i] + 1 + Cardinality(Calling(i)) /\ fds' \in [Inst -> Nat]
      /\ \A j \in Inst : j # i => Strong(j)' = Strong(j)
  BY <1>0, <1>1, <1>t, StrongFds
<1>3. Strong(i) > 0 /\ Strong(i)' > 0
  BY <1>0, <1>1, <1>2
<1>4. STypes' /\ Made'
  BY <1>0, <1>2, <1>t DEF STypes, Made, queues
<1>5. Packets'
  BY <1>0, <1>t, SamePackets
<1>6. ListedWhileAlive'
  BY <1>0, <1>2, <1>3, <1>t DEF ListedWhileAlive
<1> QED BY <1>2, <1>3, <1>4, <1>5, <1>6 DEF SInv

(* A descriptor of the server is closed.                                     *)
LEMMA CloseStep ==
  ASSUME SInv, NEW i \in Inst, CloseServer(i)
  PROVE  SInv' /\ \A j \in Inst : Strong(j) = 0 => Strong(j)' = 0
<1>0. /\ fds[i] > 0 /\ fds' = [fds EXCEPT ![i] = @ - 1] /\ Release(i)
      /\ UNCHANGED <<name, server, queues, lent, stage, call, files>>
  BY DEF CloseServer
<1>t. STypes /\ Made /\ Packets /\ ListedWhileAlive
  BY DEF SInv
<1>1. /\ fds[i] \in Nat /\ fds[i] - 1 \in Nat /\ Cardinality(Calling(i)) \in Nat
      /\ Strong(i) = fds[i] + Cardinality(Calling(i))
  BY <1>0, <1>t, StrongType DEF Strong
<1>2. /\ Strong(i)' = fds[i] - 1 + Cardinality(Calling(i)) /\ fds' \in [Inst -> Nat]
      /\ \A j \in Inst : j # i => Strong(j)' = Strong(j)
  BY <1>0, <1>1, <1>t, StrongFds
<1>3. Strong(i) > 0 /\ Strong(i)' = Strong(i) - 1
  BY <1>0, <1>1, <1>2
<1>4. ListedWhileAlive' /\ list' \subseteq Inst
  BY <1>0, <1>2, <1>3, <1>t, ReleaseList
<1>5. STypes' /\ Made'
  BY <1>0, <1>2, <1>4, <1>t DEF STypes, Made, queues
<1>6. Packets'
  BY <1>0, <1>t, SamePackets
<1> QED BY <1>2, <1>3, <1>4, <1>5, <1>6 DEF SInv

(* The server reads packets, and writes an answer.                           *)
LEMMA ServerStep ==
  ASSUME SInv, NEW i \in Inst,
         NEW t \in Seq(Packet), NEW k \in SUBSET Packet, NEW d \in SUBSET Answer,
         todo' = [todo EXCEPT ![i] = t], taken' = [taken EXCEPT ![i] = k],
         done' = [done EXCEPT ![i] = d],
         Orderly(t, k, d, Asked(i), next_id[i]),
         UNCHANGED <<list, name, server, fds, next_id, lent, stage, call, files>>
  PROVE  SInv' /\ \A j \in Inst : Strong(j)' = Strong(j)
<1>1. STypes' /\ Made'
  BY DEF SInv, STypes, Made
<1>2. /\ todo'[i] = t /\ taken'[i] = k /\ done'[i] = d
      /\ \A j \in Inst : j # i => todo'[j] = todo[j] /\ taken'[j] = taken[j] /\ done'[j] = done[j]
  BY DEF SInv, STypes
<1>3. \A j \in Inst : Asked(j)' = Asked(j) /\ Calling(j)' = Calling(j)
  BY DEF Asked, Calling
<1>4. ASSUME NEW j \in Inst
      PROVE  Orderly(todo'[j], taken'[j], done'[j], Asked(j)', next_id'[j])
  <2>1. CASE j = i
    BY <2>1, <1>2, <1>3
  <2>2. CASE j # i
    BY <2>2, <1>2, <1>3 DEF SInv, Packets
  <2> QED BY <2>1, <2>2
<1>5. \A j \in Inst : Strong(j)' = Strong(j)
  BY <1>3 DEF Strong
<1>6. ListedWhileAlive'
  BY <1>5 DEF SInv, ListedWhileAlive
<1> QED BY <1>1, <1>4, <1>5, <1>6 DEF SInv, Packets

(* The server reads packets.                                                 *)
LEMMA ReadStep ==
  ASSUME SInv, NEW i \in Inst, NEW n \in 1..MaxCalls, ServerRead(i, n)
  PROVE  SInv' /\ \A j \in Inst : Strong(j)' = Strong(j)
<1>0. /\ n \in 1..Len(todo[i])
      /\ taken' = [taken EXCEPT ![i] = @ \cup {todo[i][j] : j \in 1..n}]
      /\ todo' = [todo EXCEPT ![i] = SubSeq(@, n + 1, Len(@))]
      /\ UNCHANGED <<list, name, server, fds, next_id, done, lent, stage, call, files>>
  BY DEF ServerRead
<1>1. /\ todo[i] \in Seq(Packet) /\ taken[i] \in SUBSET Packet /\ done[i] \in SUBSET Answer
      /\ Orderly(todo[i], taken[i], done[i], Asked(i), next_id[i])
  BY DEF SInv, STypes, Packets
<1>2. /\ Orderly(SubSeq(todo[i], n + 1, Len(todo[i])),
                 taken[i] \cup {todo[i][j] : j \in 1..n}, done[i], Asked(i), next_id[i])
      /\ SubSeq(todo[i], n + 1, Len(todo[i])) \in Seq(Packet)
      /\ {todo[i][j] : j \in 1..n} \subseteq Packet
  BY <1>0, <1>1, ReadPlaces
<1>3. done' = [done EXCEPT ![i] = done[i]]
  BY <1>0 DEF SInv, STypes
<1>4. taken[i] \cup {todo[i][j] : j \in 1..n} \in SUBSET Packet
  BY <1>1, <1>2
<1> QED BY <1>0, <1>1, <1>2, <1>3, <1>4, ServerStep

(* The server answers a packet that it read.                                 *)
LEMMA AnswerStep ==
  ASSUME SInv, NEW i \in Inst, NEW p \in taken[i], NEW ok \in BOOLEAN, ServerAnswer(i, p, ok)
  PROVE  SInv' /\ \A j \in Inst : Strong(j)' = Strong(j)
<1> DEFINE b == [id |-> p.id, to |-> p.from, ok |-> ok]
           d == {a \in done[i] : a.id # p.id} \cup {b}
<1>0. /\ taken' = [taken EXCEPT ![i] = @ \ {p}] /\ done' = [done EXCEPT ![i] = d]
      /\ UNCHANGED <<list, name, server, fds, next_id, todo, lent, stage, call, files>>
  BY DEF ServerAnswer
<1>1. /\ todo[i] \in Seq(Packet) /\ taken[i] \in SUBSET Packet /\ done[i] \in SUBSET Answer
      /\ Orderly(todo[i], taken[i], done[i], Asked(i), next_id[i]) /\ Asked(i) \in SUBSET Packet
  BY DEF SInv, STypes, Packets, Asked
<1>2. b \in Answer /\ b.id = p.id /\ b.to = p.from
  BY <1>1 DEF Packet, Answer
<1>3. Orderly(todo[i], taken[i] \ {p}, d, Asked(i), next_id[i])
  BY <1>1, <1>2, AnswerPlaces
<1>4. todo' = [todo EXCEPT ![i] = todo[i]]
  BY <1>0 DEF SInv, STypes
<1>5. d \in SUBSET Answer /\ taken[i] \ {p} \in SUBSET Packet
  BY <1>1, <1>2
<1> QED BY <1>0, <1>1, <1>3, <1>4, <1>5, ServerStep

(* The client takes the answer to its call: it is its own.                   *)
LEMMA ReturnStep ==
  ASSUME SInv, NEW c \in Client, NEW i, i = call[c].inst, Return(c)
  PROVE  /\ SInv' /\ i \in Inst /\ Strong(i) > 0 /\ Strong(i)' = Strong(i) - 1
         /\ \A j \in Inst : j # i => Strong(j)' = Strong(j)
<1> DEFINE p == [id |-> call[c].id, from |-> c]
<1>0. /\ stage[c] = "wait" /\ Release(i)
      /\ stage' = [stage EXCEPT ![c] = "idle"] /\ call' = [call EXCEPT ![c] = NoCall]
      /\ UNCHANGED <<name, server, fds, next_id, todo, taken>>
  BY DEF Return
<1>a. PICK a \in done[i] :
         /\ a.id = call[c].id /\ done' = [done EXCEPT ![i] = @ \ {a}]
         /\ files' = IF call[c].op = "open" /\ a.ok
                     THEN [files EXCEPT ![c] = @ \cup {i}] ELSE files
         /\ lent' = IF call[c].op \in Lending /\ Strong(i) > 1
                    THEN [lent EXCEPT ![server[i]] = TakeBack(@, call[c].virt)] ELSE lent
  BY DEF Return
<1>t. STypes /\ Made /\ Packets /\ ListedWhileAlive
  BY DEF SInv
<1>1. i \in Inst /\ name[i] # Absent /\ server[i] \in Server
  BY <1>0, <1>t DEF Made
<1>2. /\ p \in Asked(i) /\ Asked(i)' = Asked(i) \ {p}
      /\ \A j \in Inst : j # i => Asked(j)' = Asked(j)
  BY <1>0, <1>1, <1>t, AskedDown
<1>3. Strong(i)' = Strong(i) - 1 /\ \A j \in Inst : j # i => Strong(j)' = Strong(j)
  BY <1>0, <1>1, <1>t, StrongDown
<1>4. Strong(i) > 0
  <2>1. c \in Calling(i)
    BY <1>0 DEF Calling
  <2> QED BY <2>1, <1>1, <1>t, StrongType DEF Strong
<1>5. ListedWhileAlive' /\ list' \subseteq Inst
  BY <1>0, <1>1, <1>3, <1>4, <1>t, ReleaseList
<1>6. STypes'
  <2>1. call' \in [Client -> Call] /\ stage' \in [Client -> {"idle", "wait"}]
    <3>1. NoCall \in Call
      BY DEF NoCall, Call, Op
    <3> QED BY <3>1, <1>0, <1>t DEF STypes
  <2>2. files' \in [Client -> SUBSET Inst] /\ done' \in [Inst -> SUBSET Answer]
    BY <1>a, <1>1, <1>t DEF STypes
  <2>3. lent' \in [Server -> SUBSET Entry]
    <3>1. TakeBack(lent[server[i]], call[c].virt) \in SUBSET Entry
      BY <1>1, <1>t DEF STypes, TakeBack
    <3> QED BY <3>1, <1>a, <1>t DEF STypes
  <2> QED BY <2>1, <2>2, <2>3, <1>0, <1>5, <1>t DEF STypes
<1>7. Made'
  BY <1>0, <1>t DEF Made, STypes
<1>8. ASSUME NEW j \in Inst
      PROVE  Orderly(todo'[j], taken'[j], done'[j], Asked(j)', next_id'[j])
  <2>1. /\ Orderly(todo[j], taken[j], done[j], Asked(j), next_id[j])
        /\ todo[j] \in Seq(Packet) /\ taken[j] \in SUBSET Packet
        /\ done[j] \in SUBSET Answer /\ Asked(j) \in SUBSET Packet
    BY <1>t DEF Packets, STypes, Asked
  <2>2. CASE j # i
    <3>1. done'[j] = done[j]
      BY <2>2, <1>a, <1>1, <1>t DEF STypes
    <3> QED BY <3>1, <2>1, <2>2, <1>0, <1>2
  <2>3. CASE j = i
    <3>1. Orderly(todo[i], taken[i], done[i] \ {a}, Asked(i) \ {p}, next_id[i])
      BY <2>1, <2>3, <1>a, <1>2, ReturnPlaces
    <3>2. done'[i] = done[i] \ {a}
      BY <1>a, <1>1, <1>t DEF STypes
    <3> QED BY <3>1, <3>2, <2>3, <1>0, <1>2
  <2> QED BY <2>2, <2>3
<1> QED BY <1>1, <1>3, <1>4, <1>5, <1>6, <1>7, <1>8 DEF SInv, Packets

(* The entry that a call makes has its place in the table's type.            *)
LEMMA LendType ==
  ASSUME STypes, Made, NEW c \in Client, NEW i \in Inst, Strong(i) > 0,
         NEW size \in Nat, NEW v, Lend(i, c, size, v)
  PROVE  /\ v \in Nat /\ lent' \in [Server -> SUBSET Entry] /\ server[i] \in Server
         /\ \A e \in lent[server[i]] : e.virt + e.size <= v
         /\ lent'[server[i]] = lent[server[i]]
              \cup {[virt |-> v, size |-> size, client |-> c, inst |-> i]}
         /\ \A s \in Server : s # server[i] => lent'[s] = lent[s]
<1>1. server[i] \in Server
  BY OwnersMade
<1>2. lent[server[i]] \in SUBSET Entry
  BY <1>1 DEF STypes
<1>3. v \in Ends(lent[server[i]]) /\ \A x \in Ends(lent[server[i]]) : x <= v
  BY DEF Lend, next_mem
<1>4. v \in Nat /\ \A e \in lent[server[i]] : e.virt + e.size <= v
  BY <1>2, <1>3, SchemesAssumption DEF Ends, Entry
<1>5. [virt |-> v, size |-> size, client |-> c, inst |-> i] \in Entry
  BY <1>4 DEF Entry
<1> QED BY <1>1, <1>2, <1>4, <1>5 DEF Lend, STypes

(* Every step of the schemes keeps the invariant.                            *)
LEMMA SNext == SInv /\ [SchemesNext]_schemeVars => SInv'
<1> SUFFICES ASSUME SInv, [SchemesNext]_schemeVars PROVE SInv'
  OBVIOUS
<1>t. STypes /\ Made /\ Packets /\ ListedWhileAlive
  BY DEF SInv
<1>1. ASSUME NEW i \in Inst, NEW s \in Server, NEW n \in Name, Register(s, i, n) PROVE SInv'
  BY <1>1, RegisterStep
<1>2. ASSUME NEW i \in Inst, DupServer(i) PROVE SInv'
  BY <1>2, DupStep
<1>3. ASSUME NEW i \in Inst, CloseServer(i) PROVE SInv'
  BY <1>3, CloseStep
<1>4. ASSUME NEW i \in Inst, Serving(i) PROVE SInv'
  BY <1>4, ReadStep, AnswerStep DEF Serving
<1>5. ASSUME NEW c \in Client, NEW i \in Inst, NEW n, NEW op \in {"open", "path"}, NEW v,
             CallPath(c, i, n, op, v)
      PROVE  SInv'
  <2>1. /\ CanCall(c, i) /\ Lend(i, c, 1, v) /\ Send(c, i, op, v) /\ op \in Op
        /\ UNCHANGED <<list, name, server, fds, files>>
    BY <1>5 DEF CallPath, Op
  <2>2. v \in Nat /\ lent' \in [Server -> SUBSET Entry] /\ files' \in [Client -> SUBSET Inst]
    BY <2>1, <1>t, LendType DEF CanCall, STypes
  <2> QED BY <2>1, <2>2, SendStep
<1>6. ASSUME NEW c \in Client, NEW i \in Inst, NEW k \in Sizes, NEW v, CallBuffer(c, i, k, v)
      PROVE  SInv'
  <2>1. /\ CanCall(c, i) /\ Lend(i, c, k, v) /\ Send(c, i, "buffer", v) /\ "buffer" \in Op
        /\ UNCHANGED <<list, name, server, fds, files>> /\ k \in Nat
    BY <1>6, SchemesAssumption DEF CallBuffer, Op
  <2>2. v \in Nat /\ lent' \in [Server -> SUBSET Entry] /\ files' \in [Client -> SUBSET Inst]
    BY <2>1, <1>t, LendType DEF CanCall, STypes
  <2> QED BY <2>1, <2>2, SendStep
<1>7. ASSUME NEW c \in Client, NEW i \in Inst, CallPlain(c, i) PROVE SInv'
  <2>1. /\ CanCall(c, i) /\ Send(c, i, "plain", 0) /\ "plain" \in Op /\ 0 \in Nat
        /\ UNCHANGED <<list, name, server, fds, lent, files>>
    BY <1>7 DEF CallPlain, Op
  <2>2. lent' \in [Server -> SUBSET Entry] /\ files' \in [Client -> SUBSET Inst]
    BY <2>1, <1>t DEF STypes
  <2> QED BY <2>1, <2>2, SendStep
<1>8. ASSUME NEW c \in Client, NEW i \in Inst, CloseFile(c, i) PROVE SInv'
  <2>1. /\ UNCHANGED <<list, name, server, fds, lent>> /\ "close" \in Op /\ 0 \in Nat
        /\ files' \in [Client -> SUBSET Inst] /\ lent' \in [Server -> SUBSET Entry]
    BY <1>8, <1>t DEF CloseFile, STypes, Op
  <2>2. CASE CanCall(c, i) /\ Send(c, i, "close", 0)
    BY <2>1, <2>2, SendStep
  <2>3. CASE UNCHANGED <<queues, stage, call>>
    <3>1. STypes' /\ Made'
      BY <2>1, <2>3, <1>t DEF STypes, Made, queues
    <3>2. Packets'
      BY <2>3, <1>t, SamePackets
    <3>3. ListedWhileAlive'
      BY <2>1, <2>3, <1>t DEF ListedWhileAlive, Strong, Calling
    <3> QED BY <3>1, <3>2, <3>3 DEF SInv
  <2> QED BY <1>8, <2>2, <2>3 DEF CloseFile
<1>9. ASSUME NEW c \in Client, Return(c) PROVE SInv'
  BY <1>9, ReturnStep
<1>10. CASE UNCHANGED schemeVars
  <2>1. STypes' /\ Made'
    BY <1>10, <1>t DEF STypes, Made, schemeVars
  <2>2. Packets'
    BY <1>10, <1>t, SamePackets DEF schemeVars, queues
  <2>3. ListedWhileAlive'
    BY <1>10, <1>t DEF ListedWhileAlive, Strong, Calling, schemeVars
  <2> QED BY <2>1, <2>2, <2>3 DEF SInv
<1> QED BY <1>1, <1>2, <1>3, <1>4, <1>5, <1>6, <1>7, <1>8, <1>9, <1>10 DEF SchemesNext

-----------------------------------------------------------------------------
(* The inductive invariant holds of the schemes that programs serve.         *)
THEOREM SchemesInvariance == SchemesSpec => []SInv
BY SInit, SNext, PTL DEF SchemesSpec

(* A client of a scheme gets the answer to its own packet, in whatever order *)
(* the server writes answers (SchemeInner::call, done.receive).              *)
THEOREM AnswersReachCallers == SchemesSpec => []OwnAnswer
<1>1. SInv => OwnAnswer
  <2> SUFFICES ASSUME SInv PROVE OwnAnswer
    OBVIOUS
  <2>t. STypes /\ Made /\ Packets
    BY DEF SInv
  <2>1. ASSUME NEW c \in Client, stage[c] = "wait"
        PROVE  /\ call[c].inst \in Inst
               /\ [id |-> call[c].id, from |-> c] \in Asked(call[c].inst)
    BY <2>1, <2>t DEF STypes, Made, Call, Asked, Packet
  <2>2. ASSUME NEW c \in Client, stage[c] = "wait", NEW a \in done[call[c].inst],
               a.id = call[c].id
        PROVE  a.to = c
    <3>1. [id |-> a.id, from |-> a.to] \in Asked(call[c].inst)
      BY <2>1, <2>2, <2>t DEF Packets, Orderly
    <3>2. [id |-> a.id, from |-> a.to] = [id |-> call[c].id, from |-> c]
      BY <3>1, <2>1, <2>2, <2>t DEF Packets, Orderly
    <3> QED BY <3>2
  <2>3. ASSUME NEW c \in Client, NEW d \in Client, stage[c] = "wait", stage[d] = "wait",
               call[c].inst = call[d].inst, call[c].id = call[d].id
        PROVE  c = d
    <3>1. [id |-> call[c].id, from |-> c] = [id |-> call[d].id, from |-> d]
      BY <2>1, <2>3, <2>t DEF Packets, Orderly
    <3> QED BY <3>1
  <2> QED BY <2>2, <2>3 DEF OwnAnswer
<1> QED BY <1>1, SchemesInvariance, PTL

(* The list of schemes holds those that somebody owns, under one name each:  *)
(* the drop of a SchemeInner, which goes by the name, takes no other away.   *)
THEOREM ListShowsOwned == SchemesSpec => []ListedWhileAlive
<1>1. SInv => ListedWhileAlive
  BY DEF SInv
<1> QED BY <1>1, SchemesInvariance, PTL

-----------------------------------------------------------------------------
(* The memory that clients lend.                                             *)

(* Steps that leave calls and tables alone and bring no dead scheme back.    *)
LEMMA LentQuiet ==
  ASSUME SInv, LInv, UNCHANGED <<lent, emptied, stage, call>>,
         \A j \in Inst : name[j] # Absent =>
           name'[j] = name[j] /\ server'[j] = server[j] /\ (Strong(j) = 0 => Strong(j)' = 0)
  PROVE  LInv'
<1>t. STypes /\ Made
  BY DEF SInv
<1>1. ASSUME NEW s \in Clean, NEW e \in lent[s]
      PROVE  e.size > 0 /\ name'[e.inst] # Absent /\ (InUse(s, e)' \/ Strong(e.inst)' = 0)
  <2>1. e.inst \in Inst
    BY <1>t DEF STypes, Entry, Clean
  <2>2. e.size > 0 /\ name[e.inst] # Absent /\ (InUse(s, e) \/ Strong(e.inst) = 0)
    BY DEF LInv
  <2> QED BY <2>1, <2>2 DEF InUse, InCall
<1>2. ASSUME NEW c \in Client, InCall(c)', server'[call'[c].inst] \in Clean
      PROVE  \E e \in lent'[server'[call'[c].inst]] : e.client = c /\ e.virt = call'[c].virt
  <2>1. InCall(c) /\ server'[call[c].inst] = server[call[c].inst]
    BY <1>2, <1>t DEF InCall, Made
  <2>2. server[call[c].inst] \in Clean
    BY <1>2, <2>1
  <2>3. \E e \in lent[server[call[c].inst]] : e.client = c /\ e.virt = call[c].virt
    BY <2>1, <2>2 DEF LInv
  <2> QED BY <2>1, <2>3
<1>3. Clean' = Clean /\ Clean \subseteq Server
  BY DEF Clean
<1>4. \A s \in Clean : \A e, f \in lent'[s] : e.virt = f.virt => e = f
  BY DEF LInv
<1> QED BY <1>1, <1>2, <1>3, <1>4 DEF LInv

(* A call that lends nothing.                                                *)
LEMMA PlainLent ==
  ASSUME SInv, LInv, NEW c \in Client, NEW i \in Inst, NEW op \in Op \ Lending, NEW v \in Nat,
         CanCall(c, i), Send(c, i, op, v), UNCHANGED <<name, server, fds, lent, emptied>>
  PROVE  LInv'
<1> DEFINE r == [inst |-> i, id |-> next_id[i], virt |-> v, op |-> op]
<1>0. /\ stage' = [stage EXCEPT ![c] = "wait"] /\ call' = [call EXCEPT ![c] = r]
      /\ stage[c] = "idle" /\ Strong(i) > 0
  BY DEF Send, CanCall
<1>t. STypes /\ Made
  BY DEF SInv
<1>1. r \in Call
  BY <1>t DEF STypes, Call
<1>2. Strong(i)' = Strong(i) + 1 /\ \A j \in Inst : j # i => Strong(j)' = Strong(j)
  BY <1>0, <1>1, <1>t, StrongUp
<1>3. /\ stage'[c] = "wait" /\ call'[c] = r
      /\ \A d \in Client : d # c => stage'[d] = stage[d] /\ call'[d] = call[d]
  BY <1>0, <1>t DEF STypes
<1>4. ~ InCall(c) /\ ~ InCall(c)' /\ \A d \in Client : d # c => (InCall(d)' <=> InCall(d))
  BY <1>0, <1>3 DEF InCall
<1>5. ASSUME NEW s \in Clean, NEW e \in lent[s]
      PROVE  e.size > 0 /\ name'[e.inst] # Absent /\ (InUse(s, e)' \/ Strong(e.inst)' = 0)
  <2>1. e.inst \in Inst /\ e.client \in Client
    BY <1>t DEF STypes, Entry, Clean
  <2>2. e.size > 0 /\ name[e.inst] # Absent /\ (InUse(s, e) \/ Strong(e.inst) = 0)
    BY DEF LInv
  <2>3. CASE InUse(s, e)
    <3>1. e.client # c
      BY <2>3, <1>4 DEF InUse
    <3> QED BY <3>1, <2>1, <2>2, <2>3, <1>3 DEF InUse, InCall
  <2>4. CASE Strong(e.inst) = 0
    <3>1. e.inst # i
      BY <2>4, <1>0
    <3> QED BY <3>1, <2>1, <2>2, <2>4, <1>2
  <2> QED BY <2>2, <2>3, <2>4
<1>6. ASSUME NEW d \in Client, InCall(d)', server[call'[d].inst] \in Clean
      PROVE  \E e \in lent[server[call'[d].inst]] : e.client = d /\ e.virt = call'[d].virt
  BY <1>6, <1>3, <1>4 DEF LInv
<1>7. Clean' = Clean
  BY DEF Clean
<1>8. \A s \in Clean : \A e, f \in lent'[s] : e.virt = f.virt => e = f
  BY DEF LInv
<1> QED BY <1>5, <1>6, <1>7, <1>8 DEF LInv

(* A call that lends a buffer: its entry is behind all others, unless one is *)
(* empty, and then nothing is said of this server any more.                  *)
LEMMA LendLent ==
  ASSUME SInv, LInv, NEW c \in Client, NEW i \in Inst, NEW op \in Op, op \in Lending,
         NEW size \in Nat, NEW v, CanCall(c, i), Lend(i, c, size, v), Send(c, i, op, v),
         UNCHANGED <<name, server, fds>>
  PROVE  LInv'
<1> DEFINE r == [inst |-> i, id |-> next_id[i], virt |-> v, op |-> op]
           n == [virt |-> v, size |-> size, client |-> c, inst |-> i]
<1>0. /\ stage' = [stage EXCEPT ![c] = "wait"] /\ call' = [call EXCEPT ![c] = r]
      /\ stage[c] = "idle" /\ Strong(i) > 0
  BY DEF Send, CanCall
<1>t. STypes /\ Made
  BY DEF SInv
<1>k. PICK k : k = server[i]
  OBVIOUS
<1>1. /\ v \in Nat /\ k \in Server
      /\ \A e \in lent[k] : e.virt + e.size <= v
      /\ lent'[k] = lent[k] \cup {n} /\ \A s \in Server : s # k => lent'[s] = lent[s]
  BY <1>k, <1>0, <1>t, LendType
<1>20. /\ Clean' \subseteq Clean /\ Clean \subseteq Server
       /\ k \in Clean' => size > 0
  BY <1>k DEF Lend, Clean
<1>2. r \in Call
  BY <1>1, <1>t DEF STypes, Call
<1>3. Strong(i)' = Strong(i) + 1 /\ \A j \in Inst : j # i => Strong(j)' = Strong(j)
  BY <1>0, <1>2, <1>t, StrongUp
<1>4. /\ stage'[c] = "wait" /\ call'[c] = r
      /\ \A d \in Client : d # c => stage'[d] = stage[d] /\ call'[d] = call[d]
  BY <1>0, <1>t DEF STypes
<1>5. ~ InCall(c) /\ InCall(c)' /\ \A d \in Client : d # c => (InCall(d)' <=> InCall(d))
  BY <1>0, <1>4 DEF InCall
<1>6. name[i] # Absent
  BY <1>0, <1>t, OwnersMade
<1>7. ASSUME NEW s \in Clean, NEW e \in lent[s]
      PROVE  e.size > 0 /\ name'[e.inst] # Absent /\ (InUse(s, e)' \/ Strong(e.inst)' = 0)
  <2>1. e.inst \in Inst /\ e.client \in Client
    BY <1>t DEF STypes, Entry, Clean
  <2>2. e.size > 0 /\ name[e.inst] # Absent /\ (InUse(s, e) \/ Strong(e.inst) = 0)
    BY DEF LInv
  <2>3. CASE InUse(s, e)
    <3>1. e.client # c
      BY <2>3, <1>5 DEF InUse
    <3> QED BY <3>1, <2>1, <2>2, <2>3, <1>4 DEF InUse, InCall
  <2>4. CASE Strong(e.inst) = 0
    <3>1. e.inst # i
      BY <2>4, <1>0
    <3> QED BY <3>1, <2>1, <2>2, <2>4, <1>3
  <2> QED BY <2>2, <2>3, <2>4
<1>8. name'[n.inst] # Absent /\ InUse(k, n)'
  <2>1. name'[n.inst] # Absent
    BY <1>6
  <2>2. n.client = c /\ n.virt = v /\ n.inst = i
    OBVIOUS
  <2>3. call'[c].virt = v /\ call'[c].inst = i /\ server'[i] = k
    BY <1>4, <1>k
  <2> QED BY <2>1, <2>2, <2>3, <1>5 DEF InUse
<1>9. k \in Clean => \A e \in lent[k] : e.virt # n.virt
  <2> SUFFICES ASSUME k \in Clean, NEW e \in lent[k] PROVE e.virt # v
    OBVIOUS
  <2>1. e.size > 0 /\ e.virt \in Nat /\ e.size \in Nat
    BY <1>1, <1>t DEF LInv, STypes, Entry
  <2> QED BY <2>1, <1>1
<1>10. ASSUME NEW d \in Client, InCall(d)', server[call'[d].inst] \in Clean
      PROVE  \E e \in lent'[server[call'[d].inst]] : e.client = d /\ e.virt = call'[d].virt
  <2>1. CASE d = c
    <3>1. server[call'[d].inst] = k /\ call'[d].virt = v /\ n \in lent'[k] /\ n.client = c
      BY <2>1, <1>1, <1>4, <1>k
    <3> QED BY <3>1, <2>1
  <2>2. CASE d # c
    <3>1. InCall(d) /\ call'[d] = call[d]
      BY <2>2, <1>4, <1>5, <1>10
    <3>2. server[call[d].inst] \in Server
      BY <3>1, <1>t DEF InCall, Made
    <3>3. \A s \in Server : lent[s] \subseteq lent'[s]
      BY <1>1
    <3> QED BY <1>10, <3>1, <3>2, <3>3 DEF LInv
  <2> QED BY <2>1, <2>2
<1>11. ASSUME NEW s \in Clean', NEW e \in lent'[s]
       PROVE  e.size > 0 /\ name'[e.inst] # Absent /\ (InUse(s, e)' \/ Strong(e.inst)' = 0)
  <2>0. s \in Clean /\ s \in Server
    BY <1>20
  <2>1. CASE e \in lent[s]
    BY <2>0, <2>1, <1>7
  <2>2. CASE e \notin lent[s]
    <3>1. s = k /\ e = n
      BY <2>0, <2>2, <1>1
    <3>2. n.size > 0
      BY <3>1, <1>20
    <3> QED BY <3>1, <3>2, <1>8
  <2> QED BY <2>1, <2>2
<1>12. ASSUME NEW s \in Clean', NEW e \in lent'[s], NEW f \in lent'[s], e.virt = f.virt
       PROVE  e = f
  <2>0. s \in Clean /\ s \in Server
    BY <1>20
  <2>1. CASE s # k
    BY <2>0, <2>1, <1>12, <1>1 DEF LInv
  <2>2. CASE s = k
    <3>1. \A g \in lent'[k] : g \in lent[k] \/ g = n
      BY <1>1
    <3> QED BY <2>0, <3>1, <2>2, <1>12, <1>1, <1>9 DEF LInv
  <2> QED BY <2>1, <2>2
<1> QED BY <1>10, <1>11, <1>12, <1>20 DEF LInv

(* The entry is taken back, if the scheme is still there, and no other.      *)
LEMMA ReturnLent ==
  ASSUME SInv, LInv, NEW c \in Client, Return(c)
  PROVE  LInv'
<1>i. PICK i : i = call[c].inst
  OBVIOUS
<1>0. /\ stage[c] = "wait"
      /\ stage' = [stage EXCEPT ![c] = "idle"] /\ call' = [call EXCEPT ![c] = NoCall]
      /\ UNCHANGED <<name, server, fds, emptied>>
      /\ lent' = IF call[c].op \in Lending /\ Strong(i) > 1
                 THEN [lent EXCEPT ![server[i]] = TakeBack(@, call[c].virt)] ELSE lent
  BY <1>i DEF Return
<1>t. STypes /\ Made /\ Clean' = Clean /\ Clean \subseteq Server
  BY <1>0 DEF SInv, Clean
<1>1. /\ i \in Inst /\ Strong(i) > 0 /\ Strong(i)' = Strong(i) - 1 /\ Strong(i) \in Nat
      /\ \A j \in Inst : j # i => Strong(j)' = Strong(j)
  BY <1>i, <1>t, ReturnStep, StrongType
<1>k. PICK k \in Server : k = server[i]
  BY <1>0, <1>i, <1>t DEF Made
<1>2. /\ stage'[c] = "idle"
      /\ \A d \in Client : d # c => stage'[d] = stage[d] /\ call'[d] = call[d]
  BY <1>0, <1>t DEF STypes
<1>3. ~ InCall(c)' /\ \A d \in Client : d # c => (InCall(d)' <=> InCall(d))
  BY <1>2 DEF InCall
<1>4. \A s \in Server : lent'[s] \subseteq lent[s]
  BY <1>0, <1>t DEF STypes, TakeBack
<1>5. ASSUME NEW s \in Clean, NEW e \in lent'[s]
      PROVE  e.size > 0 /\ name'[e.inst] # Absent /\ (InUse(s, e)' \/ Strong(e.inst)' = 0)
  <2>1. e \in lent[s] /\ e.inst \in Inst /\ e.client \in Client
    BY <1>4, <1>t DEF STypes, Entry
  <2>2. e.size > 0 /\ name[e.inst] # Absent /\ (InUse(s, e) \/ Strong(e.inst) = 0)
    BY <2>1 DEF LInv
  <2>3. CASE Strong(e.inst) = 0
    <3>1. e.inst # i
      BY <2>3, <1>1
    <3> QED BY <3>1, <2>1, <2>2, <2>3, <1>0, <1>1
  <2>4. CASE InUse(s, e) /\ e.client # c
    BY <2>1, <2>2, <2>4, <1>0, <1>2 DEF InUse, InCall
  <2>5. CASE InUse(s, e) /\ e.client = c
    <3>1. e.inst = i /\ s = k /\ call[c].op \in Lending /\ e.virt = call[c].virt
      BY <2>5, <1>i, <1>k DEF InUse, InCall
    <3>2. CASE Strong(i) > 1
      <4>1. e \in TakeBack(lent[k], call[c].virt)
        BY <3>1, <3>2, <1>0, <1>k, <1>t DEF STypes
      <4>2. PICK f \in lent[k] : f.size = 0
        BY <4>1, <3>1 DEF TakeBack
      <4>3. f.size > 0
        BY <3>1, <4>2 DEF LInv
      <4> QED BY <4>2, <4>3, <3>1, <1>t DEF STypes, Entry
    <3>3. CASE Strong(i) = 1
      BY <3>1, <3>3, <2>2, <1>0, <1>1
    <3> QED BY <3>2, <3>3, <1>1
  <2> QED BY <2>2, <2>3, <2>4, <2>5
<1>6. ASSUME NEW d \in Client, InCall(d)', server[call'[d].inst] \in Clean
      PROVE  \E e \in lent'[server[call'[d].inst]] : e.client = d /\ e.virt = call'[d].virt
  <2>1. d # c /\ InCall(d) /\ call'[d] = call[d]
    BY <1>6, <1>2, <1>3
  <2>s. PICK s \in Clean : s = server[call[d].inst]
    BY <2>1, <1>6
  <2>2. PICK e \in lent[s] : e.client = d /\ e.virt = call[d].virt
    BY <2>1, <2>s DEF LInv
  <2>3. e \in lent'[s]
    <3>1. CASE call[c].op \in Lending /\ Strong(i) > 1 /\ s = k
      <4>1. PICK f \in lent[k] : f.client = c /\ f.virt = call[c].virt
        BY <3>1, <1>0, <1>i, <1>k DEF LInv, InCall
      <4>2. e.virt # call[c].virt
        BY <4>1, <3>1, <2>1, <2>2 DEF LInv
      <4>3. e.size > 0
        BY <2>2 DEF LInv
      <4>4. lent'[k] = TakeBack(lent[k], call[c].virt)
        BY <3>1, <1>0, <1>k, <1>t DEF STypes
      <4> QED BY <4>2, <4>3, <4>4, <3>1, <2>2 DEF TakeBack
    <3>2. CASE ~ (call[c].op \in Lending /\ Strong(i) > 1 /\ s = k)
      BY <3>2, <2>2, <1>0, <1>k, <1>t DEF STypes
    <3> QED BY <3>1, <3>2
  <2> QED BY <2>1, <2>s, <2>2, <2>3
<1>7. \A s \in Clean : \A e, f \in lent'[s] : e.virt = f.virt => e = f
  BY <1>4, <1>t DEF LInv
<1> QED BY <1>0, <1>5, <1>6, <1>7, <1>t DEF LInv

(* Every step keeps the tables in order, of servers without an empty buffer. *)
LEMMA LNext == SInv /\ LInv /\ [SchemesNext]_schemeVars => LInv'
<1> SUFFICES ASSUME SInv, LInv, [SchemesNext]_schemeVars PROVE LInv'
  OBVIOUS
<1>1. ASSUME NEW i \in Inst, NEW s \in Server, NEW n \in Name, Register(s, i, n) PROVE LInv'
  <2>1. /\ UNCHANGED <<lent, emptied, stage, call>>
        /\ \A j \in Inst : name[j] # Absent => name'[j] = name[j] /\ server'[j] = server[j]
    BY <1>1 DEF Register, SInv, STypes
  <2>2. \A j \in Inst : name[j] # Absent => Strong(j)' = Strong(j)
    BY <1>1, RegisterStep
  <2> QED BY <2>1, <2>2, LentQuiet
<1>2. ASSUME NEW i \in Inst, DupServer(i) \/ CloseServer(i) PROVE LInv'
  <2>1. UNCHANGED <<lent, emptied, stage, call, name, server>>
    BY <1>2 DEF DupServer, CloseServer
  <2>2. \A j \in Inst : Strong(j) = 0 => Strong(j)' = 0
    BY <1>2, DupStep, CloseStep
  <2> QED BY <2>1, <2>2, LentQuiet
<1>3. ASSUME NEW i \in Inst, Serving(i) PROVE LInv'
  <2>1. UNCHANGED <<lent, emptied, stage, call, name, server>>
    BY <1>3 DEF Serving, ServerRead, ServerAnswer
  <2>2. \A j \in Inst : Strong(j)' = Strong(j)
    BY <1>3, ReadStep, AnswerStep DEF Serving
  <2> QED BY <2>1, <2>2, LentQuiet
<1>4. ASSUME NEW c \in Client, NEW i \in Inst, NEW n, NEW op \in {"open", "path"}, NEW v,
             CallPath(c, i, n, op, v)
      PROVE  LInv'
  <2>1. /\ CanCall(c, i) /\ Lend(i, c, 1, v) /\ Send(c, i, op, v) /\ op \in Op /\ op \in Lending
        /\ UNCHANGED <<name, server, fds>> /\ 1 \in Nat
    BY <1>4 DEF CallPath, Op, Lending
  <2> QED BY <2>1, LendLent
<1>5. ASSUME NEW c \in Client, NEW i \in Inst, NEW k \in Sizes, NEW v, CallBuffer(c, i, k, v)
      PROVE  LInv'
  <2>1. /\ CanCall(c, i) /\ Lend(i, c, k, v) /\ Send(c, i, "buffer", v)
        /\ "buffer" \in Op /\ "buffer" \in Lending
        /\ UNCHANGED <<name, server, fds>> /\ k \in Nat
    BY <1>5, SchemesAssumption DEF CallBuffer, Op, Lending
  <2> QED BY <2>1, LendLent
<1>6. ASSUME NEW c \in Client, NEW i \in Inst, CallPlain(c, i) PROVE LInv'
  <2>1. /\ CanCall(c, i) /\ Send(c, i, "plain", 0) /\ "plain" \in Op \ Lending /\ 0 \in Nat
        /\ UNCHANGED <<name, server, fds, lent, emptied>>
    BY <1>6 DEF CallPlain, Op, Lending
  <2> QED BY <2>1, PlainLent
<1>7. ASSUME NEW c \in Client, NEW i \in Inst, CloseFile(c, i) PROVE LInv'
  <2>1. UNCHANGED <<list, name, server, fds, lent, emptied>> /\ "close" \in Op \ Lending /\ 0 \in Nat
    BY <1>7 DEF CloseFile, Op, Lending
  <2>2. CASE CanCall(c, i) /\ Send(c, i, "close", 0)
    BY <2>1, <2>2, PlainLent
  <2>3. CASE UNCHANGED <<queues, stage, call>>
    <3>1. \A j \in Inst : Strong(j)' = Strong(j)
      BY <2>1, <2>3 DEF Strong, Calling
    <3> QED BY <3>1, <2>1, <2>3, LentQuiet
  <2> QED BY <1>7, <2>2, <2>3 DEF CloseFile
<1>8. ASSUME NEW c \in Client, Return(c) PROVE LInv'
  BY <1>8, ReturnLent
<1>9. CASE UNCHANGED schemeVars
  <2>1. \A j \in Inst : Strong(j)' = Strong(j)
    BY <1>9 DEF Strong, Calling, schemeVars
  <2> QED BY <2>1, <1>9, LentQuiet DEF schemeVars
<1> QED BY <1>1, <1>2, <1>3, <1>4, <1>5, <1>6, <1>7, <1>8, <1>9 DEF SchemesNext

(* What the two sides of a scheme rely on, whatever the sizes of the buffers *)
(* are: the caller's own answer, a list of living schemes, and memory that   *)
(* is lent while the call lasts and taken back after it by every server that *)
(* no empty buffer was lent to.                                              *)
THEOREM SchemesStaySound == SchemesSpec => []SchemesSound
<1>1. SInv /\ LInv => LentDuringCall
  BY DEF LInv, LentDuringCall, InUse
<1>2. SchemesSpec => []LInv
  BY SInit, LNext, SchemesInvariance, PTL DEF SchemesSpec
<1>3. OwnAnswer /\ ListedWhileAlive /\ LentDuringCall => SchemesSound
  BY DEF SchemesSound
<1> QED BY <1>1, <1>2, <1>3, SchemesInvariance, AnswersReachCallers, ListShowsOwned, PTL

-----------------------------------------------------------------------------
(***************************************************************************)
(* Disk, for every size of drive, request, command and table.  At any      *)
(* moment no sector but those of the request before a certain one has been *)
(* moved, and each of these has unless the drive failed unseen; the entry  *)
(* of the table at which the controller is leads it to the next sector of  *)
(* memory.                                                                 *)
(***************************************************************************)

Kept == [0..(Blocks - 1) -> Nat]
Memories == [0..(MaxSectors + 1) -> Nat]
Requested == [at : {"setup", "wait", "done"}, block : Nat, sectors : Nat, write : BOOLEAN, sector : Nat, ok : BOOLEAN,
              fault : BOOLEAN]
Quiet == {[at |-> x] : x \in {"probe", "absent", "init", "idle"}}
Areas == [addr : Nat, size : Nat, eot : BOOLEAN]

(* The table t leads through memory from sector b on, n of them.             *)
Covers(t, b, n) ==
  /\ t \in Seq(Areas) /\ Len(t) >= 1 /\ t[1].addr = b
  /\ \A i \in 1..Len(t) : /\ t[i].size > 0 /\ t[i].addr + t[i].size <= b + n
                          /\ t[i].eot <=> i = Len(t)
                          /\ i < Len(t) => t[i + 1].addr = t[i].addr + t[i].size
                          /\ i = Len(t) => t[i].addr + t[i].size = b + n

(* Of the sectors, only the first g of request q have been moved, and all of *)
(* those unless the drive failed unseen.                                     *)
Progress(q, g, d0, m0, d, m) ==
  /\ \A b \in 0..(Blocks - 1) :
       \/ d[b] = d0[b] /\ (q.write /\ b \in q.block..(q.block + g - 1) => q.fault)
       \/ q.write /\ b \in q.block..(q.block + g - 1) /\ d[b] = m0[b - q.block + 1]
  /\ \A i \in 0..(MaxSectors + 1) :
       \/ m[i] = m0[i] /\ (~ q.write /\ i \in 1..g => q.fault)
       \/ ~ q.write /\ i \in 1..g /\ m[i] = d0[q.block + i - 1]

(* Where the controller is in a table that covers n sectors from b on.       *)
Placed(e, b, n) ==
  /\ e.moved \in 0..n /\ e.off \in Nat
  /\ IF e.entry = 0 THEN e.moved = n
     ELSE /\ Covers(e.prdt, b, n) /\ e.entry \in 1..Len(e.prdt)
          /\ e.off < e.prdt[e.entry].size /\ e.prdt[e.entry].addr + e.off = b + e.moved

Engines == [at : {"run", "int", "err"}, a : {ata(n) : n \in 0..(Blocks - 1)}, count : Nat, write : BOOLEAN,
            prdt : Seq(Areas), moved : Nat, slot : Nat, entry : Nat, off : Nat]

(* What the table of the next command describes, and the command's count.    *)
Part == IF ctl = "ahci" THEN req.sectors % PrdtMax ELSE Chunk
Length(q) == IF ctl = "ahci" THEN q.sectors % MaxCmd ELSE Chunk % MaxCmd

(* The command that the driver waits for is the next of the request.         *)
Commanded(q, e, n) ==
  /\ e \in Engines /\ e.a = ata(q.block + q.sector) /\ e.count = Length(q) /\ e.write = q.write
  /\ Placed(e, 1 + q.sector, n)
  /\ e.at = "int" => e.moved = n \/ q.fault
  /\ ctl = "ahci" /\ e.at = "run" => e.slot \in ci

DiskTypes ==
  /\ ctl \in {"ide", "ahci"} /\ drive \in [sts : IdeAnswers \cup AhciAnswers, data : Kept] /\ ram \in Memories
  /\ req \in Quiet \cup Requested

Wanted ==
  /\ before = <<before[1], before[2]>> /\ before[1] \in Kept /\ before[2] \in Memories
  /\ req.block + req.sectors <= Blocks /\ req.sectors <= MaxSectors
  /\ req.at # "done" => req.sector < req.sectors
  /\ ctl = "ahci" /\ req.at # "done" => req.sector = 0

DiskInv ==
  /\ DiskTypes
  /\ req.at # "wait" => engine = NoEngine
  /\ req.at \in {"setup", "wait", "done"} => Wanted
  /\ req.at = "wait" => Commanded(req, engine, Part)
  /\ req.at = "setup" => Progress(req, req.sector, before[1], before[2], drive.data, ram)
  /\ req.at = "wait" => Progress(req, req.sector + engine.moved, before[1], before[2], drive.data, ram)
  /\ req.at = "done" => \E g \in 0..req.sectors :
       Progress(req, g, before[1], before[2], drive.data, ram) /\ (req.ok /\ ~ req.fault => g = Described)

(* Multiplication, as far as block numbers and tables need it.               *)
LEMMA Distributes ==
  ASSUME NEW a \in Int, NEW b \in Int, NEW c \in Int
  PROVE  /\ (a + b) * c = a * c + b * c /\ (a - b) * c = a * c - b * c
         /\ a * b \in Int /\ a * b = b * a /\ (a * b) * c = a * (b * c)
         /\ (-a) * c = -(a * c) /\ 0 * c = 0 /\ 1 * c = c
OBVIOUS

LEMMA Monotone ==
  ASSUME NEW a \in Int, NEW b \in Int, NEW c \in Nat, a <= b
  PROVE  a * c <= b * c
<1>1. b - a \in Nat
  OBVIOUS
<1>2. (b - a) * c \in Nat
  BY <1>1
<1> QED BY <1>2, Distributes

LEMMA Quotient ==
  ASSUME NEW a \in Int, NEW d \in Nat, d > 0
  PROVE  /\ a \div d \in Int /\ a % d \in 0..(d - 1) /\ a = (a \div d) * d + (a % d)
         /\ a \in Nat => a \div d \in Nat
OBVIOUS

LEMMA QuotientNat ==
  ASSUME NEW a \in Nat, NEW d \in Nat, d > 0
  PROVE  a \div d \in Nat /\ a % d \in 0..(d - 1) /\ a = (a \div d) * d + (a % d)
BY Quotient

(* A quotient is the only number with a remainder below the divisor.         *)
LEMMA QuotientIs ==
  ASSUME NEW a \in Int, NEW d \in Nat, d > 0, NEW q \in Int, NEW r \in 0..(d - 1), a = q * d + r
  PROVE  a \div d = q /\ a % d = r
<1> DEFINE p == a \div d
<1>1. /\ p \in Int /\ a % d \in 0..(d - 1) /\ a = p * d + (a % d)
  BY Quotient
<1> HIDE DEF p
<1>2. (q - p) * d = (a % d) - r
  BY <1>1, Distributes
<1>3. CASE q - p >= 1
  <2>1. 1 * d <= (q - p) * d
    BY <1>1, <1>3, Monotone
  <2> QED BY <2>1, <1>1, <1>2, Distributes
<1>4. CASE p - q >= 1
  <2>1. 1 * d <= (p - q) * d
    BY <1>1, <1>4, Monotone
  <2>2. (p - q) * d = r - (a % d)
    BY <1>1, Distributes
  <2> QED BY <2>1, <2>2, <1>1, Distributes
<1>5. CASE p = q
  BY <1>5, <1>1 DEF p
<1> QED BY <1>1, <1>3, <1>4, <1>5

LEMMA DiskSizes ==
  /\ MaxCmd \in Nat /\ MaxCmd > 0 /\ PerPrd \in Nat /\ PerPrd > 0 /\ MaxCmd % PerPrd = 0
  /\ PrdtMax \in Nat /\ PrdtMax > 0 /\ MaxCmd % PrdtMax = 0
  /\ Octet \in Nat /\ Octet > 0 /\ Square \in Nat /\ Square > 0 /\ Cube \in Nat /\ Cube > 0
  /\ Blocks \in Nat /\ Blocks <= Cube * Cube /\ MaxSectors \in Nat
<1>1. /\ MaxCmd \in Nat /\ MaxCmd > 0 /\ PerPrd \in Nat /\ PerPrd > 0 /\ MaxCmd % PerPrd = 0
      /\ PrdtMax \in Nat /\ PrdtMax > 0 /\ MaxCmd % PrdtMax = 0 /\ Octet \in Nat /\ Octet > 0 /\ MaxSectors \in Nat
  BY DiskAssumption
<1>2. ASSUME NEW a \in Nat, NEW b \in Nat, a > 0, b > 0
      PROVE  a * b \in Nat /\ a * b > 0
  <2>1. 1 * b <= a * b /\ 1 * b = b
    BY <1>2, Monotone, Distributes
  <2> QED BY <1>2, <2>1
<1>3. Square \in Nat /\ Square > 0
  BY <1>1, <1>2 DEF Square
<1>4. Cube \in Nat /\ Cube > 0
  BY <1>1, <1>2, <1>3 DEF Cube
<1>5. Cube * Cube \in Nat
  BY <1>2, <1>4
<1>6. Blocks \in Nat /\ Blocks <= Cube * Cube
  <2>1. Blocks \in 0..Cube * Cube
    BY DiskAssumption
  <2> QED BY <1>5, <2>1
<1> QED BY <1>1, <1>3, <1>4, <1>6

(* Octets: dividing by P and then by B is dividing by P * B.                 *)
LEMMA NextDigit ==
  ASSUME NEW n \in Nat, NEW P \in Nat, P > 0, NEW B \in Nat, B > 0
  PROVE  /\ n \div P = (n \div (P * B)) * B + ((n \div P) % B)
         /\ n \div P \in Nat /\ n \div (P * B) \in Nat /\ (n \div P) % B \in Nat
<1> DEFINE q == n \div P
           r == n % P
           u == q \div B
           v == q % B
<1>1. q \in Nat /\ r \in 0..(P - 1) /\ n = q * P + r
  BY QuotientNat, Zenon
<1> HIDE DEF q, r
<1>2. u \in Nat /\ v \in 0..(B - 1) /\ q = u * B + v
  BY <1>1, QuotientNat, Zenon
<1> HIDE DEF u, v
<1> DEFINE pb == P * B
           vp == v * P
<1>3. pb \in Nat /\ pb > 0 /\ vp \in Nat
  <2>1. 1 * B <= P * B /\ 1 * B = B /\ P * B \in Int
    BY Monotone, Distributes
  <2>2. 0 * P <= v * P /\ 0 * P = 0 /\ v * P \in Int
    BY <1>2, Monotone, Distributes
  <2> QED BY <2>1, <2>2
<1>4. vp <= pb - P
  <2>1. v * P <= (B - 1) * P
    BY <1>2, Monotone
  <2>2. (B - 1) * P = P * B - P
    BY Distributes
  <2> QED BY <2>1, <2>2
<1>5. q * P = u * pb + vp
  <2>1. (u * B + v) * P = (u * B) * P + v * P
    BY <1>2, Distributes
  <2>2. (u * B) * P = u * (P * B)
    BY <1>2, Distributes
  <2> QED BY <1>2, <2>1, <2>2
<1>6. u * pb \in Int
  BY <1>2, <1>3, Distributes
<1> HIDE DEF pb, vp
<1>7. vp + r \in 0..(pb - 1) /\ n = u * pb + (vp + r)
  <2> DEFINE x == u * pb
             y == q * P
  <2>1. y = x + vp /\ n = y + r /\ x \in Int
    BY <1>1, <1>5, <1>6
  <2> HIDE DEF x, y
  <2>2. vp + r \in 0..(pb - 1) /\ n = x + (vp + r)
    BY <1>1, <1>3, <1>4, <2>1
  <2> QED BY <2>2 DEF x
<1>8. n \div pb = u
  <2>1. n \in Int /\ u \in Int
    BY <1>2
  <2> QED BY <1>3, <1>7, <2>1, QuotientIs, Zenon
<1> QED BY <1>1, <1>2, <1>8 DEF q, u, v, pb

(* The octets that go out are the block number again (ata, fis).             *)
LEMMA LbaOf ==
  ASSUME NEW n \in 0..(Blocks - 1)
  PROVE  Lba(ata(n)) = n /\ fis(n) = ata(n)
<1> DEFINE q1 == n \div Octet
           q2 == n \div Square
           q3 == n \div Cube
           q4 == n \div (Cube * Octet)
           q5 == n \div (Cube * Square)
           d0 == n % Octet
           d1 == q1 % Octet
           d2 == q2 % Octet
           d3 == q3 % Octet
           d4 == q4 % Octet
           d5 == q5 % Octet
<1>0. n \in Nat
  BY DiskSizes
<1>1. /\ Digit(n, 0) = d0 /\ Digit(n, 1) = d1 /\ Digit(n, 2) = d2
      /\ Digit(n, 3) = d3 /\ Digit(n, 4) = d4 /\ Digit(n, 5) = d5
  <2>1. n \div 1 = n
    BY <1>0
  <2>2. /\ Weight[0 + 1] = 1 /\ Weight[1 + 1] = Octet /\ Weight[2 + 1] = Square
        /\ Weight[3 + 1] = Cube /\ Weight[4 + 1] = Cube * Octet /\ Weight[5 + 1] = Cube * Square
    BY DEF Weight
  <2> QED BY <2>1, <2>2 DEF Digit
<1>2. Cube * Octet \in Nat /\ Cube * Octet > 0 /\ Cube * Square \in Nat /\ Cube * Square > 0
  <2>1. 1 * Octet <= Cube * Octet /\ 1 * Square <= Cube * Square /\ 1 * Octet = Octet /\ 1 * Square = Square
    BY DiskSizes, Monotone, Distributes
  <2>2. Cube * Octet \in Int /\ Cube * Square \in Int
    BY DiskSizes, Distributes
  <2> QED BY DiskSizes, <2>1, <2>2
<1>3. /\ n = q1 * Octet + d0 /\ q1 \in Nat /\ d0 \in Nat
  <2>1. q1 \in Nat /\ d0 \in 0..(Octet - 1) /\ n = q1 * Octet + d0
    BY <1>0, DiskSizes, QuotientNat, Zenon
  <2> QED BY <2>1
<1>4. q1 = q2 * Octet + d1 /\ q2 \in Nat /\ d1 \in Nat
  BY <1>0, DiskSizes, NextDigit DEF Square
<1>5. q2 = q3 * Octet + d2 /\ q3 \in Nat /\ d2 \in Nat
  BY <1>0, DiskSizes, NextDigit DEF Cube
<1>6. q3 = q4 * Octet + d3 /\ q4 \in Nat /\ d3 \in Nat
  BY <1>0, DiskSizes, NextDigit
<1>7. q4 = q5 * Octet + d4 /\ q5 \in Nat /\ d4 \in Nat
  <2>1. (Cube * Octet) * Octet = Cube * Square
    BY DiskSizes, Distributes DEF Square
  <2>2. /\ q4 = (n \div ((Cube * Octet) * Octet)) * Octet + d4
        /\ q4 \in Nat /\ n \div ((Cube * Octet) * Octet) \in Nat /\ d4 \in Nat
    BY <1>0, <1>2, DiskSizes, NextDigit, Zenon
  <2> QED BY <2>1, <2>2
<1>8. q5 = d5 /\ d5 \in Nat
  <2> DEFINE q6 == n \div (Cube * Cube)
  <2>1. (Cube * Square) * Octet = Cube * Cube
    BY DiskSizes, Distributes DEF Cube
  <2>2. q5 = q6 * Octet + d5 /\ d5 \in Nat /\ q6 \in Nat
    <3>1. /\ q5 = (n \div ((Cube * Square) * Octet)) * Octet + d5
          /\ q5 \in Nat /\ n \div ((Cube * Square) * Octet) \in Nat /\ d5 \in Nat
      BY <1>0, <1>2, DiskSizes, NextDigit, Zenon
    <3> QED BY <2>1, <3>1
  <2>3. q6 = 0
    <3> DEFINE c == Cube * Cube
    <3>1. c \in Nat /\ n <= c - 1
      <4>1. Cube * Cube \in Int
        BY DiskSizes, Distributes
      <4> QED BY <1>0, <4>1, DiskSizes
    <3> HIDE DEF c
    <3>2. n \div c = 0
      BY <1>0, <3>1
    <3> QED BY <3>2 DEF c
  <2>4. 0 * Octet = 0
    BY DiskSizes, Distributes
  <2> HIDE DEF q5, q6, d5
  <2> QED BY <2>2, <2>3, <2>4
<1>9. Lba(ata(n)) = d0 + Octet * d1 + Square * d2 + Cube * (d3 + Octet * d4 + Square * d5)
  BY <1>1 DEF Lba, ata
<1> HIDE DEF q1, q2, q3, q4, q5, d0, d1, d2, d3, d4, d5
<1>10. d3 + Octet * d4 + Square * d5 = q3
  BY <1>6, <1>7, <1>8, DiskSizes DEF Square
<1>11. d0 + Octet * d1 + Square * d2 + Cube * q3 = n
  BY <1>3, <1>4, <1>5, DiskSizes DEF Square, Cube
<1>12. fis(n) = ata(n)
  BY DEF fis, ata
<1> QED BY <1>9, <1>10, <1>11, <1>12

(* The table that ata_dma_small builds is for the command it is built for,   *)
(* the largest one and sizes around an entry included.                       *)
LEMMA PrdtCovers ==
  ASSUME NEW b \in Nat, NEW c \in 1..MaxCmd
  PROVE  Covers(Prdt(b, c % MaxCmd), b, c)
<1> DEFINE k == c % MaxCmd
           entries == IF k = 0 THEN MaxCmd \div PerPrd ELSE k \div PerPrd
           rem == k % PerPrd
           Off(i) == (i - 1) * PerPrd
           full == [i \in 1..entries |-> [addr |-> b + Off(i), size |-> PerPrd, eot |-> i = entries /\ rem = 0]]
           last == [addr |-> b + entries * PerPrd, size |-> rem, eot |-> TRUE]
<1>0. Prdt(b, k) = IF rem = 0 THEN full ELSE Append(full, last)
  BY DEF Prdt
<1>1. entries \in Nat /\ rem \in 0..(PerPrd - 1) /\ c = entries * PerPrd + rem
  <2>1. CASE c = MaxCmd
    <3>1. k = 0
      BY <2>1, DiskSizes
    <3>2. rem = 0
      BY <3>1, DiskSizes
    <3> DEFINE m == MaxCmd \div PerPrd
    <3>3. m \in Nat /\ MaxCmd = m * PerPrd + (MaxCmd % PerPrd)
      BY DiskSizes, QuotientNat, Zenon
    <3>4. m * PerPrd \in Int
      BY <3>3, DiskSizes, Distributes
    <3>5. entries = m
      BY <3>1
    <3> HIDE DEF m, entries, rem, k
    <3> QED BY <2>1, <3>2, <3>3, <3>4, <3>5, DiskSizes
  <2>2. CASE c < MaxCmd
    <3>1. k = c /\ c \in Nat /\ c # 0
      BY <2>2, DiskSizes
    <3>2. k \div PerPrd \in Nat /\ k % PerPrd \in 0..(PerPrd - 1) /\ k = (k \div PerPrd) * PerPrd + (k % PerPrd)
      <4> HIDE DEF k
      <4> QED BY <3>1, DiskSizes, QuotientNat, Zenon
    <3> HIDE DEF k
    <3> QED BY <3>1, <3>2
  <2> QED BY <2>1, <2>2, DiskSizes
<1> HIDE DEF entries, rem, k
<1> DEFINE whole == entries * PerPrd
<1>2. /\ whole \in Nat /\ Off(1) = 0 /\ Off(entries + 1) = whole
      /\ \A i \in 1..(entries + 1) : Off(i) \in Nat /\ Off(i) <= whole
      /\ \A i \in 1..entries : Off(i + 1) = Off(i) + PerPrd
  <2>1. ASSUME NEW i \in 1..(entries + 1) PROVE Off(i) \in Nat /\ Off(i) <= whole /\ whole \in Nat
    <3>1. 0 * PerPrd <= (i - 1) * PerPrd /\ (i - 1) * PerPrd <= entries * PerPrd /\ 0 * PerPrd = 0
      BY <1>1, DiskSizes, Monotone, Distributes
    <3>2. (i - 1) * PerPrd \in Int /\ entries * PerPrd \in Int
      BY <1>1, DiskSizes, Distributes
    <3> QED BY <3>1, <3>2
  <2>2. ASSUME NEW i \in 1..entries PROVE Off(i + 1) = Off(i) + PerPrd
    <3>1. (i + 1) - 1 = (i - 1) + 1 /\ i - 1 \in Int
      BY <1>1
    <3>2. ((i - 1) + 1) * PerPrd = (i - 1) * PerPrd + 1 * PerPrd /\ 1 * PerPrd = PerPrd
      BY <3>1, DiskSizes, Distributes
    <3> QED BY <3>1, <3>2
  <2>3. Off(1) = 0 /\ Off(entries + 1) = whole
    <3>1. 1 - 1 = 0 /\ (entries + 1) - 1 = entries /\ 0 * PerPrd = 0
      BY <1>1, DiskSizes, Distributes
    <3> QED BY <3>1
  <2>4. whole \in Nat
    BY <1>1, <2>1
  <2> QED BY <2>1, <2>2, <2>3, <2>4
<1>3. c = whole + rem /\ c \in Nat /\ entries \in Nat /\ rem \in Nat
  BY <1>1, DiskSizes
<1> HIDE DEF whole, Off
<1>4. /\ full \in Seq(Areas) /\ Len(full) = entries
      /\ \A i \in 1..entries : full[i].addr = b + Off(i) /\ full[i].size = PerPrd
                               /\ (full[i].eot <=> i = entries /\ rem = 0)
  <2>1. \A i \in 1..entries : [addr |-> b + Off(i), size |-> PerPrd, eot |-> i = entries /\ rem = 0] \in Areas
    BY <1>1, <1>2, DiskSizes DEF Areas
  <2>2. full \in [1..entries -> Areas]
    BY <2>1
  <2>3. full \in Seq(Areas) /\ Len(full) = entries
    BY <1>1, <2>2
  <2> QED BY <2>3
<1> HIDE DEF full
<1>5. CASE rem = 0
  <2>1. entries >= 1
    <3>1. CASE entries = 0
      <4>1. whole = 0
        BY <3>1, DiskSizes, Distributes DEF whole
      <4> QED BY <1>3, <1>5, <4>1
    <3> QED BY <1>1, <3>1
  <2>2. full[1].addr = b
    BY <1>1, <1>2, <1>4, <2>1
  <2>3. ASSUME NEW i \in 1..entries
        PROVE  /\ full[i].size > 0 /\ full[i].addr + full[i].size <= b + c
               /\ full[i].eot <=> i = entries
               /\ i < entries => full[i + 1].addr = full[i].addr + full[i].size
               /\ i = entries => full[i].addr + full[i].size = b + c
    <3>1. Off(i + 1) = Off(i) + PerPrd /\ Off(i) \in Nat /\ Off(i + 1) <= whole /\ whole \in Nat
      BY <1>2, <1>3
    <3>2. i < entries => full[i + 1].addr = b + Off(i + 1)
      BY <1>3, <1>4
    <3>3. i = entries => Off(i + 1) = whole
      BY <1>2
    <3>4. full[i].addr = b + Off(i) /\ full[i].size = PerPrd /\ (full[i].eot <=> i = entries)
      BY <1>4, <1>5
    <3>5. full[i].addr + full[i].size = b + Off(i + 1)
      BY <3>1, <3>4, DiskSizes
    <3>6. b + Off(i + 1) <= b + c /\ (i = entries => b + Off(i + 1) = b + c)
      BY <1>3, <1>5, <3>1, <3>3, DiskSizes
    <3>7. full[i].size > 0
      BY <3>4, DiskSizes
    <3> QED BY <3>2, <3>4, <3>5, <3>6, <3>7
  <2>4. Prdt(b, k) = full
    BY <1>0, <1>5
  <2>5. Covers(full, b, c)
    BY <1>4, <2>1, <2>2, <2>3 DEF Covers
  <2> QED BY <2>4, <2>5 DEF k
<1>6. CASE rem # 0
  <2> DEFINE t == Append(full, last)
  <2>1. last \in Areas /\ last.addr = b + whole /\ last.size = rem /\ last.eot
    BY <1>1, <1>2, DiskSizes DEF Areas, whole
  <2> HIDE DEF last
  <2>2. /\ t \in Seq(Areas) /\ Len(t) = entries + 1 /\ t[entries + 1] = last
        /\ \A i \in 1..entries : t[i] = full[i]
    BY <1>1, <1>4, <2>1
  <2> HIDE DEF t
  <2>3. t[1].addr = b
    <3>1. CASE entries = 0
      BY <1>2, <2>1, <2>2, <3>1
    <3>2. CASE entries >= 1
      <4>1. 1 \in 1..entries
        BY <1>3, <3>2
      <4>2. t[1].addr = b + Off(1)
        BY <1>4, <2>2, <4>1
      <4> QED BY <1>2, <4>2
    <3> QED BY <1>3, <3>1, <3>2
  <2>4. ASSUME NEW i \in 1..(entries + 1)
        PROVE  /\ t[i].size > 0 /\ t[i].addr + t[i].size <= b + c
               /\ t[i].eot <=> i = entries + 1
               /\ i < entries + 1 => t[i + 1].addr = t[i].addr + t[i].size
               /\ i = entries + 1 => t[i].addr + t[i].size = b + c
    <3>1. CASE i = entries + 1
      <4>1. t[i].addr = b + whole /\ t[i].size = rem /\ t[i].eot
        BY <2>1, <2>2, <3>1
      <4>2. rem > 0 /\ (b + whole) + rem = b + c /\ ~ (i < entries + 1)
        BY <1>2, <1>3, <1>6, <3>1
      <4>3. t[i].size > 0 /\ t[i].addr + t[i].size = b + c /\ b + c <= b + c
        BY <1>3, <4>1, <4>2
      <4> QED BY <3>1, <4>1, <4>2, <4>3
    <3>2. CASE i < entries + 1
      <4>1. i \in 1..entries /\ t[i] = full[i]
        BY <1>1, <2>2, <3>2
      <4>2. Off(i + 1) = Off(i) + PerPrd /\ Off(i) \in Nat /\ Off(i + 1) <= whole
        BY <1>1, <1>2, <4>1
      <4>3. t[i + 1].addr = b + Off(i + 1)
        <5>1. CASE i = entries
          BY <1>2, <2>1, <2>2, <5>1
        <5>2. CASE i < entries
          <6>1. i + 1 \in 1..entries
            BY <1>1, <4>1, <5>2
          <6> QED BY <1>4, <2>2, <6>1
        <5> QED BY <1>1, <4>1, <5>1, <5>2
      <4>4. t[i].addr = b + Off(i) /\ t[i].size = PerPrd /\ ~ t[i].eot
        BY <1>4, <1>6, <4>1
      <4>5. t[i].addr + t[i].size = b + Off(i + 1) /\ t[i].size > 0
        BY <4>2, <4>4, DiskSizes
      <4>6. b + Off(i + 1) <= b + c /\ i # entries + 1
        BY <1>2, <1>3, <3>2, <4>2, DiskSizes
      <4> QED BY <4>3, <4>4, <4>5, <4>6
    <3> QED BY <1>1, <3>1, <3>2
  <2>5. Covers(t, b, c)
    BY <1>1, <2>2, <2>3, <2>4 DEF Covers
  <2>6. Prdt(b, k) = t
    BY <1>0, <1>6 DEF t
  <2> QED BY <2>5, <2>6 DEF k
<1> QED BY <1>5, <1>6

(* The next command of a request is not empty, fits a command, and is not    *)
(* more than is left; its count says so though the largest is sent as 0.     *)
LEMMA ChunkIs ==
  ASSUME req \in Requested, req.sector < req.sectors
  PROVE  /\ Chunk \in 1..MaxCmd /\ req.sector + Chunk <= req.sectors
         /\ req.sectors - req.sector <= MaxCmd => Chunk = req.sectors - req.sector
<1>1. req.sector \in Nat /\ req.sectors \in Nat
  BY DEF Requested
<1> QED BY <1>1, DiskSizes DEF Chunk

LEMMA CountIs ==
  ASSUME NEW c \in 1..MaxCmd, engine.count = c % MaxCmd
  PROVE  Count = c /\ c % MaxCmd \in Nat
<1>1. CASE c = MaxCmd
  BY <1>1, DiskSizes DEF Count
<1>2. CASE c < MaxCmd
  <2>1. c % MaxCmd = c
    BY <1>2, DiskSizes
  <2> QED BY <2>1, DiskSizes DEF Count
<1> QED BY <1>1, <1>2, DiskSizes

(* A table does not lead through more sectors than the command counts.       *)
LEMMA PartIs ==
  ASSUME req \in Requested, req.sector < req.sectors, ctl \in {"ide", "ahci"}, ctl = "ahci" => req.sector = 0
  PROVE  /\ Part \in Nat /\ req.sector + Part <= req.sectors /\ Length(req) \in Nat
         /\ engine.count = Length(req) => Part <= Count
<1>1. req.sector \in Nat /\ req.sectors \in Nat
  BY DEF Requested
<1>2. CASE ctl = "ide"
  <2>1. Chunk \in 1..MaxCmd /\ req.sector + Chunk <= req.sectors
    BY ChunkIs
  <2>2. Part = Chunk /\ Length(req) = Chunk % MaxCmd
    BY <1>2 DEF Part, Length
  <2>3. Chunk % MaxCmd \in Nat /\ (engine.count = Chunk % MaxCmd => Count = Chunk)
    BY <2>1, CountIs, DiskSizes
  <2> QED BY <2>1, <2>2, <2>3, DiskSizes
<1>3. CASE ctl = "ahci"
  <2> DEFINE a == req.sectors
             p == a % PrdtMax
             r == a % MaxCmd
             q == a \div MaxCmd
             k == MaxCmd \div PrdtMax
             o == r \div PrdtMax
             w == r % PrdtMax
  <2>1. Part = p /\ Length(req) = r
    BY <1>3 DEF Part, Length
  <2>2. a \in Nat /\ req.sector = 0
    BY <1>1, <1>3
  <2>3. q \in Nat /\ r \in Nat /\ a = q * MaxCmd + r
    BY <2>2, DiskSizes, QuotientNat
  <2>4. k \in Nat /\ MaxCmd = k * PrdtMax
    <3>1. MaxCmd = k * PrdtMax + 0 /\ k \in Nat
      BY DiskSizes, QuotientNat
    <3> HIDE DEF k
    <3> QED BY <3>1, DiskSizes, Distributes
  <2>5. /\ a \div PrdtMax \in Nat /\ p \in 0..(PrdtMax - 1) /\ a = (a \div PrdtMax) * PrdtMax + p
    BY <2>2, DiskSizes, QuotientNat
  <2>6. p <= a /\ p \in Nat
    <3> DEFINE z == a \div PrdtMax
    <3>1. z \in Nat /\ a = z * PrdtMax + p /\ p \in Nat
      BY <2>5, DiskSizes
    <3> HIDE DEF z, p
    <3>2. 0 * PrdtMax <= z * PrdtMax /\ 0 * PrdtMax = 0 /\ z * PrdtMax \in Int
      BY <3>1, DiskSizes, Monotone, Distributes
    <3> QED BY <2>2, <3>1, <3>2
  <2> HIDE DEF q, k, r
  <2>7. o \in Nat /\ w \in 0..(PrdtMax - 1) /\ r = o * PrdtMax + w
    BY <2>3, DiskSizes, QuotientNat
  <2> HIDE DEF o, w
  <2>8. a = (q * k + o) * PrdtMax + w
    <3>1. a = q * (k * PrdtMax) + (o * PrdtMax + w)
      BY <2>3, <2>4, <2>7
    <3>2. q * (k * PrdtMax) = (q * k) * PrdtMax /\ q * k \in Int /\ o \in Int
      BY <2>3, <2>4, <2>7, DiskSizes, Distributes
    <3>3. (q * k + o) * PrdtMax = (q * k) * PrdtMax + o * PrdtMax
      BY <3>2, DiskSizes, Distributes
    <3>4. (q * k) * PrdtMax \in Int /\ o * PrdtMax \in Int /\ w \in Int
      BY <2>7, <3>2, DiskSizes, Distributes
    <3> DEFINE x == (q * k) * PrdtMax
               y == o * PrdtMax
    <3>5. a = x + (y + w) /\ (q * k + o) * PrdtMax = x + y /\ x \in Int /\ y \in Int /\ w \in Int
      BY <3>1, <3>2, <3>3, <3>4
    <3> HIDE DEF x, y
    <3> QED BY <3>5
  <2>9. p = w
    <3>1. q * k + o \in Int
      BY <2>3, <2>4, <2>7, Distributes
    <3> DEFINE v == q * k + o
    <3>2. v \in Int /\ a \in Int /\ a = v * PrdtMax + w
      BY <2>2, <2>8, <3>1
    <3> HIDE DEF v, a
    <3> QED BY <2>7, <3>2, DiskSizes, QuotientIs
  <2>10. p <= r
    <3>1. 0 * PrdtMax <= o * PrdtMax /\ 0 * PrdtMax = 0 /\ o * PrdtMax \in Int
      BY <2>7, DiskSizes, Monotone, Distributes
    <3> HIDE DEF p
    <3> QED BY <2>3, <2>6, <2>7, <2>9, <3>1
  <2>11. engine.count = r => p <= Count
    <3> HIDE DEF p
    <3> QED BY <2>3, <2>6, <2>10, DiskSizes DEF Count
  <2> QED BY <2>1, <2>2, <2>3, <2>6, <2>11
<1> QED BY <1>2, <1>3

LEMMA AskedReq ==
  ASSUME DiskTypes, req.at \in {"setup", "wait", "done"}
  PROVE  /\ req \in Requested /\ req.block \in Nat /\ req.sectors \in Nat /\ req.sector \in Nat
         /\ req.write \in BOOLEAN /\ req.ok \in BOOLEAN /\ req.fault \in BOOLEAN /\ ctl \in {"ide", "ahci"}
<1>1. req \notin Quiet
  BY DEF Quiet
<1>2. req \in Requested
  BY <1>1 DEF DiskTypes
<1> QED BY <1>2 DEF Requested, DiskTypes

LEMMA QuietStep ==
  ASSUME DiskInv, req' \in Quiet, engine' = NoEngine, UNCHANGED <<ctl, drive, ram>>
  PROVE  DiskInv'
<1>1. req'.at \notin {"setup", "wait", "done"}
  BY DEF Quiet
<1>2. DiskTypes'
  BY DEF DiskInv, DiskTypes
<1> QED BY <1>1, <1>2 DEF DiskInv

LEMMA ProgressNone ==
  ASSUME NEW q, q.block \in Nat, NEW d \in Kept, NEW m \in Memories
  PROVE  Progress(q, 0, d, m, d, m)
<1>1. \A b \in 0..(Blocks - 1) : b \notin q.block..(q.block + 0 - 1)
  OBVIOUS
<1>2. \A i \in 0..(MaxSectors + 1) : i \notin 1..0
  OBVIOUS
<1> QED BY <1>1, <1>2 DEF Progress

(* How far a request is does not depend on where the driver is.              *)
LEMMA ProgressSame ==
  ASSUME NEW q, NEW p, p.block = q.block, p.write = q.write, q.fault => p.fault,
         NEW g, NEW d0, NEW m0, NEW d, NEW m, Progress(q, g, d0, m0, d, m)
  PROVE  Progress(p, g, d0, m0, d, m)
BY DEF Progress

(* After an unseen failure, anything before a later place may be missing.    *)
LEMMA ProgressLoose ==
  ASSUME NEW q, q.block \in Nat, q.fault, NEW g \in Nat, NEW h \in Nat, g <= h,
         NEW d0, NEW m0, NEW d, NEW m, Progress(q, g, d0, m0, d, m)
  PROVE  Progress(q, h, d0, m0, d, m)
<1>1. \A b \in 0..(Blocks - 1) : b \in q.block..(q.block + g - 1) => b \in q.block..(q.block + h - 1)
  OBVIOUS
<1>2. \A i \in 0..(MaxSectors + 1) : i \in 1..g => i \in 1..h
  OBVIOUS
<1> QED BY <1>1, <1>2 DEF Progress

LEMMA RequestKeeps ==
  ASSUME DiskInv, Request
  PROVE  DiskInv'
<1>1. PICK b \in 0..(Blocks - 1), n \in 0..MaxSectors, w \in BOOLEAN :
        /\ b + n <= Blocks
        /\ before' = <<drive.data, ram>>
        /\ req' = [at |-> IF n = 0 THEN "done" ELSE "setup", block |-> b, sectors |-> n, write |-> w, sector |-> 0,
                   ok |-> FALSE, fault |-> FALSE]
  BY DEF Request
<1>2. b \in Nat /\ n \in Nat /\ 0 \in Nat
  BY DiskSizes
<1>3. UNCHANGED <<ctl, drive, ram, engine>> /\ engine = NoEngine /\ req.at = "idle"
  BY DEF Request, DiskInv
<1>4. /\ req' \in Requested /\ req'.block = b /\ req'.sectors = n /\ req'.sector = 0 /\ req'.write = w /\ req'.ok = FALSE
      /\ req'.at = (IF n = 0 THEN "done" ELSE "setup") /\ req'.at # "wait"
  BY <1>1, <1>2 DEF Requested
<1>5. drive.data \in Kept /\ ram \in Memories
  BY DEF DiskInv, DiskTypes
<1>6. DiskTypes'
  BY <1>3, <1>4 DEF DiskInv, DiskTypes
<1>7. before'[1] = drive.data /\ before'[2] = ram /\ before' = <<before'[1], before'[2]>>
  BY <1>1
<1>8. Wanted'
  <2>1. req'.at # "done" => 0 < n
    BY <1>2, <1>4
  <2> QED BY <1>1, <1>2, <1>3, <1>4, <1>5, <1>7, <2>1 DEF Wanted
<1>9. Progress(req', 0, before'[1], before'[2], drive'.data, ram')
  BY <1>2, <1>3, <1>4, <1>5, <1>7, ProgressNone
<1>10. req'.at = "done" => 0 \in 0..req'.sectors /\ ~ req'.ok
  BY <1>2, <1>4
<1> QED BY <1>3, <1>4, <1>6, <1>8, <1>9, <1>10 DEF DiskInv

Table(t) == t \in Seq(Areas)

(* What holds as soon as a command is given.                                 *)
LEMMA CommandGiven ==
  ASSUME DiskInv, req.at = "setup", req' = [req EXCEPT !.at = "wait"],
         NEW t, Table(t), NEW z \in {0, 1},
         z = 0 => Part = 0, z = 1 => Covers(t, 1 + req.sector, Part),
         NEW i \in Nat, ctl = "ahci" => i \in ci',
         engine' = [at |-> "run", a |-> ata(req.block + req.sector), count |-> Length(req), write |-> req.write,
                    prdt |-> t, moved |-> 0, slot |-> i, entry |-> z, off |-> 0],
         UNCHANGED <<ctl, drive, ram, before>>
  PROVE  DiskInv'
<1>1. /\ req \in Requested /\ req.block \in Nat /\ req.sectors \in Nat /\ req.sector \in Nat /\ req.write \in BOOLEAN
      /\ req.fault \in BOOLEAN /\ ctl \in {"ide", "ahci"}
      /\ Wanted /\ req.sector < req.sectors /\ (ctl = "ahci" => req.sector = 0)
  BY AskedReq DEF DiskInv, Wanted
<1>2. /\ req' \in Requested /\ req'.at = "wait" /\ req'.block = req.block /\ req'.sectors = req.sectors
      /\ req'.sector = req.sector /\ req'.write = req.write /\ req'.ok = req.ok /\ req'.fault = req.fault
  BY <1>1 DEF Requested
<1>3. Part' = Part /\ Length(req)' = Length(req)
  <2>1. Chunk' = Chunk
    BY <1>2 DEF Chunk
  <2> QED BY <1>2, <2>1 DEF Part, Length
<1>4. Part \in Nat /\ Length(req) \in Nat
  BY <1>1, PartIs
<1>5. z = 1 => Len(t) \in Nat /\ Len(t) >= 1 /\ t[1].addr = 1 + req.sector /\ t[1].size > 0 /\ t[1] \in Areas
  BY DEF Covers
<1>6. /\ engine'.at = "run" /\ engine'.a = ata(req.block + req.sector) /\ engine'.count = Length(req)
      /\ engine'.write = req.write /\ engine'.prdt = t /\ engine'.moved = 0 /\ engine'.slot = i
      /\ engine'.entry = z /\ engine'.off = 0
  OBVIOUS
<1>7. engine' \in Engines
  <2>1. req.block + req.sector \in 0..(Blocks - 1)
    BY <1>1, DiskSizes DEF Wanted
  <2>2. ata(req.block + req.sector) \in {ata(n) : n \in 0..(Blocks - 1)}
    BY <2>1
  <2> QED BY <1>1, <1>4, <2>2 DEF Engines, Table
<1>8. Placed(engine', 1 + req.sector, Part)
  <2>1. 0 \in 0..Part /\ 0 \in Nat
    BY <1>4
  <2>2. CASE z = 0
    BY <1>6, <2>1, <2>2 DEF Placed
  <2>3. CASE z = 1
    <3>1. 0 < t[1].size /\ t[1].addr + 0 = 1 + req.sector + 0 /\ 1 \in 1..Len(t)
      BY <1>1, <1>5, <2>3 DEF Areas
    <3> QED BY <1>6, <2>1, <2>3, <3>1 DEF Placed
  <2> QED BY <2>2, <2>3
<1>9. Commanded(req, engine, Part)'
  BY <1>2, <1>3, <1>6, <1>7, <1>8 DEF Commanded
<1>10. DiskTypes' /\ Wanted'
  BY <1>1, <1>2 DEF DiskInv, DiskTypes, Wanted
<1>11. Progress(req, req.sector + engine.moved, before[1], before[2], drive.data, ram)'
  <2>1. Progress(req, req.sector, before[1], before[2], drive.data, ram)
    BY DEF DiskInv
  <2>2. \A n \in Nat : n + 0 = n
    OBVIOUS
  <2>3. req.sector + 0 = req.sector
    BY <1>1, <2>2, Zenon
  <2>4. Progress(req', req.sector, before[1], before[2], drive.data, ram)
    <3>1. req'.block = req.block /\ req'.write = req.write /\ (req.fault => req'.fault)
      BY <1>2
    <3> QED BY <2>1, <3>1, ProgressSame, Zenon
  <2> QED BY <1>2, <1>6, <2>3, <2>4
<1> QED BY <1>2, <1>9, <1>10, <1>11 DEF DiskInv

LEMMA IdeCommands ==
  ASSUME DiskInv, ata_dma_ide
  PROVE  DiskInv'
<1>1. req.at = "setup" /\ ctl = "ide"
  BY DEF ata_dma_ide
<1>2. req.sector \in Nat /\ Chunk \in 1..MaxCmd
  BY <1>1, AskedReq, ChunkIs DEF DiskInv, Wanted
<1> DEFINE t == Prdt(1 + req.sector, Chunk % MaxCmd)
<1>3. Covers(t, 1 + req.sector, Chunk) /\ Table(t)
  <2>1. 1 + req.sector \in Nat
    BY <1>2
  <2>2. Covers(t, 1 + req.sector, Chunk)
    BY <1>2, <2>1, PrdtCovers
  <2> HIDE DEF t
  <2> QED BY <2>2 DEF Covers, Table
<1>4. Part = Chunk /\ Length(req) = Chunk % MaxCmd
  BY <1>1 DEF Part, Length
<1>5. /\ engine' = [at |-> "run", a |-> ata(req.block + req.sector), count |-> Length(req), write |-> req.write,
                     prdt |-> t, moved |-> 0, slot |-> 0, entry |-> 1, off |-> 0]
      /\ req' = [req EXCEPT !.at = "wait"] /\ UNCHANGED <<ctl, drive, ram, before>>
  BY <1>4 DEF ata_dma_ide
<1> HIDE DEF t
<1> QED BY <1>1, <1>3, <1>4, <1>5, CommandGiven

LEMMA AhciCommands ==
  ASSUME DiskInv, ata_dma_ahci
  PROVE  DiskInv'
<1>1. req.at = "setup" /\ ctl = "ahci" /\ UNCHANGED <<ctl, drive, ram, before>>
  BY DEF ata_dma_ahci
<1>2. /\ req \in Requested /\ req.block \in Nat /\ req.sectors \in Nat /\ req.sector = 0 /\ Wanted
      /\ req.sector < req.sectors /\ req.write \in BOOLEAN /\ req.fault \in BOOLEAN
      /\ req.block + req.sectors <= Blocks
  BY <1>1, AskedReq DEF DiskInv, Wanted
<1> DEFINE p == req.sectors % PrdtMax
           a == [addr |-> 1, size |-> p, eot |-> TRUE]
           t == <<a>>
           z == IF p = 0 THEN 0 ELSE 1
<1>3. Part = p /\ Length(req) = req.sectors % MaxCmd /\ p \in Nat
  <2>1. p \in Nat
    BY <1>2, DiskSizes
  <2> QED BY <1>1, <2>1 DEF Part, Length
<1>4. CASE \E i \in slot :
             /\ engine' = [at |-> "run", a |-> fis(req.block), count |-> req.sectors % MaxCmd, write |-> req.write,
                           prdt |-> t, moved |-> 0, slot |-> i, entry |-> z, off |-> 0]
             /\ ci' = ci \cup {i}
             /\ req' = [req EXCEPT !.at = "wait"]
  <2>1. PICK i \in slot :
             /\ engine' = [at |-> "run", a |-> fis(req.block), count |-> req.sectors % MaxCmd, write |-> req.write,
                           prdt |-> t, moved |-> 0, slot |-> i, entry |-> z, off |-> 0]
             /\ ci' = ci \cup {i}
             /\ req' = [req EXCEPT !.at = "wait"]
    BY <1>4
  <2>2. i \in Nat /\ i \in ci'
    BY <2>1, DiskAssumption DEF slot
  <2>3. fis(req.block) = ata(req.block + req.sector)
    <3>1. req.block \in 0..(Blocks - 1) /\ req.block + req.sector = req.block
      BY <1>2, DiskSizes
    <3> QED BY <3>1, LbaOf
  <2>4. z \in {0, 1} /\ (z = 0 => p = 0) /\ (z = 1 => p # 0)
    OBVIOUS
  <2> HIDE DEF p, z
  <2>5. a \in Areas /\ a.addr = 1 /\ a.size = p /\ a.eot
    BY <1>3 DEF Areas
  <2> HIDE DEF a
  <2>6. t \in Seq(Areas) /\ Table(t) /\ Len(t) = 1 /\ t[1] = a
    BY <2>5 DEF Table
  <2> HIDE DEF t
  <2>7. z = 1 => Covers(t, 1 + req.sector, Part)
    <3>1. \A j \in 1..Len(t) : j = 1
      BY <2>6
    <3>2. z = 1 => 1 + req.sector = 1 /\ a.size > 0 /\ a.addr + a.size <= 1 + p /\ a.addr + a.size = 1 + p
      BY <1>2, <1>3, <2>4, <2>5
    <3> QED BY <1>3, <2>5, <2>6, <3>1, <3>2 DEF Covers
  <2>8. engine' = [at |-> "run", a |-> ata(req.block + req.sector), count |-> Length(req), write |-> req.write,
                   prdt |-> t, moved |-> 0, slot |-> i, entry |-> z, off |-> 0]
    BY <1>3, <2>1, <2>3
  <2> QED BY <1>1, <1>3, <2>1, <2>2, <2>4, <2>6, <2>7, <2>8, CommandGiven
<1>5. CASE /\ slot = {}
           /\ req' = [req EXCEPT !.at = "done", !.sector = req.sectors, !.ok = FALSE]
           /\ UNCHANGED <<engine, ci>>
  <2>1. /\ req' \in Requested /\ req'.at = "done" /\ req'.block = req.block /\ req'.sectors = req.sectors
        /\ req'.write = req.write /\ req'.ok = FALSE /\ req'.fault = req.fault
    BY <1>2, <1>5 DEF Requested
  <2>2. DiskTypes' /\ Wanted' /\ engine' = NoEngine
    BY <1>1, <1>2, <1>5, <2>1 DEF DiskInv, DiskTypes, Wanted
  <2>3. Progress(req, 0, before[1], before[2], drive.data, ram)
    BY <1>1, <1>2 DEF DiskInv
  <2>4. Progress(req', 0, before'[1], before'[2], drive'.data, ram')
    BY <1>1, <2>1, <2>3, ProgressSame
  <2>5. 0 \in 0..req'.sectors
    BY <1>2, <2>1
  <2> QED BY <2>1, <2>2, <2>4, <2>5 DEF DiskInv
<1> QED BY <1>4, <1>5 DEF ata_dma_ahci

(* While the controller works, the driver waits for this command.            *)
LEMMA Working ==
  ASSUME DiskInv, engine.at \in {"run", "int", "err"}
  PROVE  /\ req.at = "wait" /\ DiskTypes /\ Wanted /\ Commanded(req, engine, Part)
         /\ req \in Requested /\ req.block \in Nat /\ req.sectors \in Nat /\ req.sector \in Nat
         /\ req.write \in BOOLEAN /\ req.fault \in BOOLEAN
         /\ Part \in Nat /\ req.sector + Part <= req.sectors /\ Part <= Count
         /\ engine.moved \in 0..Part /\ engine.moved \in Nat
         /\ Progress(req, req.sector + engine.moved, before[1], before[2], drive.data, ram)
<1>1. req.at = "wait"
  BY DEF DiskInv, NoEngine
<1>2. DiskTypes /\ Wanted /\ Commanded(req, engine, Part)
      /\ Progress(req, req.sector + engine.moved, before[1], before[2], drive.data, ram)
  BY <1>1 DEF DiskInv
<1>3. /\ req \in Requested /\ req.block \in Nat /\ req.sectors \in Nat /\ req.sector \in Nat
      /\ req.write \in BOOLEAN /\ req.fault \in BOOLEAN /\ ctl \in {"ide", "ahci"}
  BY <1>1, <1>2, AskedReq
<1>4. engine.count = Length(req) /\ engine.moved \in 0..Part
  BY <1>2 DEF Commanded, Placed
<1>5. Part \in Nat /\ req.sector + Part <= req.sectors /\ Part <= Count
  <2>1. req.sector < req.sectors /\ (ctl = "ahci" => req.sector = 0)
    BY <1>1, <1>2 DEF Wanted
  <2> QED BY <1>3, <1>4, <2>1, PartIs
<1>6. engine.moved \in Nat
  BY <1>4, <1>5
<1> QED BY <1>1, <1>2, <1>3, <1>4, <1>5, <1>6

LEMMA ProgressStep ==
  ASSUME NEW q, q.block \in Nat, q.write \in BOOLEAN, NEW g \in Nat, NEW d0 \in Kept, NEW d \in Kept,
         NEW m0 \in Memories, NEW m \in Memories, Progress(q, g, d0, m0, d, m),
         q.block + g \in 0..(Blocks - 1), g + 1 \in 0..(MaxSectors + 1)
  PROVE  /\ q.write => /\ Progress(q, g + 1, d0, m0, [d EXCEPT ![q.block + g] = m[g + 1]], m)
                       /\ [d EXCEPT ![q.block + g] = m[g + 1]] \in Kept
         /\ ~ q.write => /\ Progress(q, g + 1, d0, m0, d, [m EXCEPT ![g + 1] = d[q.block + g]])
                         /\ [m EXCEPT ![g + 1] = d[q.block + g]] \in Memories
<1>1. m[g + 1] \in Nat /\ d[q.block + g] \in Nat
  BY DEF Kept, Memories
<1>2. [d EXCEPT ![q.block + g] = m[g + 1]] \in Kept /\ [m EXCEPT ![g + 1] = d[q.block + g]] \in Memories
  BY <1>1 DEF Kept, Memories
<1>3. ASSUME q.write PROVE Progress(q, g + 1, d0, m0, [d EXCEPT ![q.block + g] = m[g + 1]], m)
  <2> DEFINE e == [d EXCEPT ![q.block + g] = m[g + 1]]
  <2>1. ASSUME NEW i \in 0..(MaxSectors + 1) PROVE m[i] = m0[i]
    BY <1>3, <2>1 DEF Progress
  <2>2. ASSUME NEW b \in 0..(Blocks - 1)
        PROVE  \/ e[b] = d0[b] /\ (b \in q.block..(q.block + (g + 1) - 1) => q.fault)
               \/ b \in q.block..(q.block + (g + 1) - 1) /\ e[b] = m0[b - q.block + 1]
    <3>1. \/ d[b] = d0[b] /\ (b \in q.block..(q.block + g - 1) => q.fault)
          \/ b \in q.block..(q.block + g - 1) /\ d[b] = m0[b - q.block + 1]
      BY <1>3 DEF Progress
    <3>2. CASE b = q.block + g
      <4>1. e[b] = m[g + 1]
        BY <3>2 DEF Kept
      <4>2. b \in q.block..(q.block + (g + 1) - 1) /\ b - q.block + 1 = g + 1
        BY <3>2
      <4> QED BY <2>1, <4>1, <4>2
    <3>3. CASE b # q.block + g
      <4>1. e[b] = d[b]
        BY <3>3 DEF Kept
      <4>2. b \in q.block..(q.block + (g + 1) - 1) <=> b \in q.block..(q.block + g - 1)
        BY <3>3
      <4> QED BY <3>1, <4>1, <4>2
    <3> QED BY <3>2, <3>3
  <2> HIDE DEF e
  <2>3. Progress(q, g + 1, d0, m0, e, m)
    BY <1>3, <2>1, <2>2 DEF Progress
  <2> QED BY <2>3 DEF e
<1>4. ASSUME ~ q.write PROVE Progress(q, g + 1, d0, m0, d, [m EXCEPT ![g + 1] = d[q.block + g]])
  <2> DEFINE e == [m EXCEPT ![g + 1] = d[q.block + g]]
  <2>1. ASSUME NEW b \in 0..(Blocks - 1) PROVE d[b] = d0[b]
    BY <1>4, <2>1 DEF Progress
  <2>2. ASSUME NEW i \in 0..(MaxSectors + 1)
        PROVE  \/ e[i] = m0[i] /\ (i \in 1..(g + 1) => q.fault)
               \/ i \in 1..(g + 1) /\ e[i] = d0[q.block + i - 1]
    <3>1. \/ m[i] = m0[i] /\ (i \in 1..g => q.fault)
          \/ i \in 1..g /\ m[i] = d0[q.block + i - 1]
      BY <1>4 DEF Progress
    <3>2. CASE i = g + 1
      <4>1. e[i] = d[q.block + g]
        BY <3>2 DEF Memories
      <4>2. i \in 1..(g + 1) /\ q.block + i - 1 = q.block + g
        BY <3>2
      <4> QED BY <2>1, <4>1, <4>2
    <3>3. CASE i # g + 1
      <4>1. e[i] = m[i]
        BY <3>3 DEF Memories
      <4>2. i \in 1..(g + 1) <=> i \in 1..g
        BY <3>3
      <4> QED BY <3>1, <4>1, <4>2
    <3> QED BY <3>2, <3>3
  <2> HIDE DEF e
  <2>3. Progress(q, g + 1, d0, m0, d, e)
    BY <1>4, <2>1, <2>2 DEF Progress
  <2> QED BY <2>3 DEF e
<1> QED BY <1>2, <1>3, <1>4

ToPlace(e, x, y, z) == [e EXCEPT !.moved = x, !.off = y, !.entry = z]

Moved(e, f, x, y, z) ==
  /\ f \in Engines /\ f.prdt = e.prdt /\ f.entry = z /\ f.off = y /\ f.moved = x
  /\ f.at = e.at /\ f.a = e.a /\ f.count = e.count /\ f.write = e.write /\ f.slot = e.slot

LEMMA EngineMoved ==
  ASSUME NEW e \in Engines, NEW x \in Nat, NEW y \in Nat, NEW z \in Nat
  PROVE  Moved(e, ToPlace(e, x, y, z), x, y, z)
BY DEF Engines, ToPlace, Moved

LEMMA AlongThePlan ==
  ASSUME NEW e \in Engines, NEW b \in Nat, NEW n \in Nat, Placed(e, b, n), e.moved < n, e.entry # 0
  PROVE  /\ Along(e) \in Engines /\ Placed(Along(e), b, n) /\ Along(e).moved = e.moved + 1
         /\ Along(e).at = e.at /\ Along(e).a = e.a /\ Along(e).count = e.count /\ Along(e).write = e.write
         /\ Along(e).slot = e.slot
<1> DEFINE t == e.prdt
           p == t[e.entry]
           f == Along(e)
<1>1. /\ Covers(t, b, n) /\ t \in Seq(Areas) /\ Len(t) \in Nat /\ e.entry \in 1..Len(t) /\ e.moved \in Nat /\ e.off \in Nat
      /\ p \in Areas /\ e.off < p.size /\ p.addr + e.off = b + e.moved
  BY DEF Placed, Covers
<1>2. p.addr \in Nat /\ p.size \in Nat
  BY <1>1 DEF Areas
<1>3. /\ p.eot <=> e.entry = Len(t)
      /\ e.entry < Len(t) => t[e.entry + 1].addr = p.addr + p.size /\ t[e.entry + 1].size > 0
      /\ e.entry = Len(t) => p.addr + p.size = b + n
  <2>1. e.entry < Len(t) => e.entry + 1 \in 1..Len(t)
    BY <1>1
  <2> QED BY <1>1, <2>1 DEF Covers
<1> DEFINE more == e.off + 1 < p.size
<1>4. f = [e EXCEPT !.moved = e.moved + 1, !.off = IF more THEN e.off + 1 ELSE 0,
                    !.entry = IF more THEN e.entry ELSE IF p.eot \/ e.entry = Len(t) THEN 0 ELSE e.entry + 1]
  BY DEF Along, Engines
<1>5. Len(t) \in Nat /\ e.entry \in Nat /\ e.entry >= 1 /\ e.entry <= Len(t) /\ e.moved \in Nat /\ e.moved + 1 \in 0..n
      /\ e.moved + 1 \in Nat /\ e.off \in Nat /\ e.off + 1 \in Nat /\ e.entry + 1 \in Nat /\ 0 \in Nat
  BY <1>1
<1>6. ~ more => p.addr + p.size = b + (e.moved + 1)
  <2> DEFINE s == p.size
             a == p.addr
  <2>1. s \in Nat /\ a \in Nat /\ e.off \in Nat /\ e.moved \in Nat /\ e.off < s /\ a + e.off = b + e.moved
    BY <1>1, <1>2
  <2>2. ~ more => ~ (e.off + 1 < s)
    OBVIOUS
  <2> HIDE DEF s, a, more
  <2>3. ~ more => s = e.off + 1
    BY <2>1, <2>2
  <2>4. ~ more => a + s = b + (e.moved + 1)
    BY <2>1, <2>3
  <2> QED BY <2>4 DEF s, a
<1>7. CASE more
  <2>1. f = ToPlace(e, e.moved + 1, e.off + 1, e.entry)
    BY <1>4, <1>7 DEF ToPlace
  <2>2. /\ f \in Engines /\ f.prdt = t /\ f.entry = e.entry /\ f.off = e.off + 1 /\ f.moved = e.moved + 1
        /\ f.at = e.at /\ f.a = e.a /\ f.count = e.count /\ f.write = e.write /\ f.slot = e.slot
    <3>1. e.moved + 1 \in Nat /\ e.off + 1 \in Nat /\ e.entry \in Nat /\ e.entry + 1 \in Nat /\ 0 \in Nat
      BY <1>5
    <3>2. Moved(e, ToPlace(e, e.moved + 1, e.off + 1, e.entry), e.moved + 1, e.off + 1, e.entry)
      BY <3>1, EngineMoved
    <3> HIDE DEF f
    <3>3. Moved(e, f, e.moved + 1, e.off + 1, e.entry)
      BY <2>1, <3>2, Zenon
    <3> QED BY <3>3 DEF Moved
  <2>3. p.addr + (e.off + 1) = b + (e.moved + 1)
    <3>1. /\ p.addr \in Nat /\ e.off \in Nat /\ e.moved \in Nat /\ p.addr + e.off = b + e.moved
      BY <1>1, <1>2
    <3> HIDE DEF p, t, more
    <3> QED BY <3>1
  <2>4. e.entry \in 1..Len(t) /\ e.entry # 0
    BY <1>5
  <2> HIDE DEF f
  <2>5. Placed(f, b, n)
    BY <1>1, <1>5, <1>7, <2>2, <2>3, <2>4 DEF Placed
  <2> QED BY <2>2, <2>5 DEF f
<1>8. CASE ~ more /\ e.entry = Len(t)
  <2>1. f = ToPlace(e, e.moved + 1, 0, 0)
    BY <1>4, <1>8 DEF ToPlace
  <2>2. /\ f \in Engines /\ f.prdt = t /\ f.entry = 0 /\ f.off = 0 /\ f.moved = e.moved + 1
        /\ f.at = e.at /\ f.a = e.a /\ f.count = e.count /\ f.write = e.write /\ f.slot = e.slot
    <3>1. e.moved + 1 \in Nat /\ e.off + 1 \in Nat /\ e.entry \in Nat /\ e.entry + 1 \in Nat /\ 0 \in Nat
      BY <1>5
    <3>2. Moved(e, ToPlace(e, e.moved + 1, 0, 0), e.moved + 1, 0, 0)
      BY <3>1, EngineMoved
    <3> HIDE DEF f
    <3>3. Moved(e, f, e.moved + 1, 0, 0)
      BY <2>1, <3>2, Zenon
    <3> QED BY <3>3 DEF Moved
  <2>3. e.moved + 1 = n
    <3>1. b + (e.moved + 1) = b + n
      BY <1>3, <1>6, <1>8
    <3> QED BY <1>5, <3>1
  <2> HIDE DEF f
  <2>5. Placed(f, b, n)
    BY <1>1, <1>5, <2>2, <2>3 DEF Placed
  <2> QED BY <2>2, <2>5 DEF f
<1>9. CASE ~ more /\ e.entry # Len(t)
  <2>1. f = ToPlace(e, e.moved + 1, 0, e.entry + 1)
    BY <1>3, <1>4, <1>9 DEF ToPlace
  <2>2. /\ f \in Engines /\ f.prdt = t /\ f.entry = e.entry + 1 /\ f.off = 0 /\ f.moved = e.moved + 1
        /\ f.at = e.at /\ f.a = e.a /\ f.count = e.count /\ f.write = e.write /\ f.slot = e.slot
    <3>1. e.moved + 1 \in Nat /\ e.off + 1 \in Nat /\ e.entry \in Nat /\ e.entry + 1 \in Nat /\ 0 \in Nat
      BY <1>5
    <3>2. Moved(e, ToPlace(e, e.moved + 1, 0, e.entry + 1), e.moved + 1, 0, e.entry + 1)
      BY <3>1, EngineMoved
    <3> HIDE DEF f
    <3>3. Moved(e, f, e.moved + 1, 0, e.entry + 1)
      BY <2>1, <3>2, Zenon
    <3> QED BY <3>3 DEF Moved
  <2>3. e.entry + 1 \in 1..Len(t) /\ e.entry + 1 # 0 /\ e.entry < Len(t)
    BY <1>5, <1>9
  <2>4. t[e.entry + 1].addr = b + (e.moved + 1) /\ 0 < t[e.entry + 1].size
    BY <1>3, <1>6, <1>9, <2>3
  <2>5. t[e.entry + 1].addr + 0 = b + (e.moved + 1)
    BY <1>5, <2>4
  <2> HIDE DEF f
  <2>6. Placed(f, b, n)
    BY <1>1, <1>5, <2>2, <2>3, <2>4, <2>5 DEF Placed
  <2> QED BY <2>2, <2>6 DEF f
<1> QED BY <1>7, <1>8, <1>9

(* A step of the controller that keeps to the command keeps the invariant.   *)
LEMMA ControllerStep ==
  ASSUME DiskInv, req.at = "wait", UNCHANGED <<ctl, req, before>>, DiskTypes',
         Commanded(req, engine, Part)',
         Progress(req, req.sector + engine'.moved, before[1], before[2], drive'.data, ram')
  PROVE  DiskInv'
<1>1. Wanted'
  BY DEF DiskInv, Wanted
<1> QED BY <1>1 DEF DiskInv

LEMMA MoveKeeps ==
  ASSUME DiskInv, Move
  PROVE  DiskInv'
<1> DEFINE g == req.sector + engine.moved
           b == Lba(engine.a) + engine.moved
           m == engine.prdt[engine.entry].addr + engine.off
<1>1. /\ engine.at = "run" /\ engine.moved < Count /\ engine.entry # 0 /\ engine' = Along(engine)
      /\ UNCHANGED <<ctl, req, ci, before>>
      /\ IF engine.write THEN drive' = [drive EXCEPT !.data[b] = ram[m]] /\ UNCHANGED ram
         ELSE ram' = [ram EXCEPT ![m] = drive.data[b]] /\ UNCHANGED drive
  BY DEF Move
<1>2. /\ req.at = "wait" /\ DiskTypes /\ Wanted /\ Commanded(req, engine, Part)
      /\ req \in Requested /\ req.block \in Nat /\ req.sectors \in Nat /\ req.sector \in Nat /\ req.write \in BOOLEAN
      /\ Part \in Nat /\ req.sector + Part <= req.sectors
      /\ engine.moved \in 0..Part /\ engine.moved \in Nat
      /\ Progress(req, g, before[1], before[2], drive.data, ram)
  BY <1>1, Working
<1>20. engine.moved < Part
  <2>1. engine.entry \in 1..Len(engine.prdt) /\ Covers(engine.prdt, 1 + req.sector, Part) /\ engine.off \in Nat
        /\ engine.off < engine.prdt[engine.entry].size
        /\ engine.prdt[engine.entry].addr + engine.off = 1 + req.sector + engine.moved
    BY <1>1, <1>2 DEF Commanded, Placed
  <2> DEFINE x == engine.prdt[engine.entry].addr
             y == engine.prdt[engine.entry].size
  <2>2. x \in Nat /\ y \in Nat /\ x + y <= 1 + req.sector + Part
    <3> DEFINE t == engine.prdt
               j == engine.entry
               c == 1 + req.sector
    <3>1. j \in 1..Len(t) /\ Covers(t, c, Part)
      BY <2>1
    <3> HIDE DEF t, j, c
    <3>2. t[j] \in Areas /\ t[j].addr + t[j].size <= c + Part
      BY <3>1 DEF Covers
    <3> QED BY <3>2 DEF Areas, t, j, c
  <2>3. engine.off < y /\ x + engine.off = 1 + req.sector + engine.moved
    BY <2>1
  <2> HIDE DEF x, y
  <2> QED BY <1>2, <2>1, <2>2, <2>3
<1>3. g \in Nat /\ g < req.sectors /\ req.block + g \in 0..(Blocks - 1) /\ g + 1 \in 0..(MaxSectors + 1)
  BY <1>2, <1>20, DiskSizes DEF Wanted
<1>4. /\ engine \in Engines /\ engine.a = ata(req.block + req.sector) /\ engine.write = req.write
      /\ Placed(engine, 1 + req.sector, Part)
  BY <1>2 DEF Commanded
<1>5. b = req.block + g
  <2>1. req.block + req.sector \in 0..(Blocks - 1)
    BY <1>2, DiskSizes DEF Wanted
  <2>2. Lba(engine.a) = req.block + req.sector
    BY <1>4, <2>1, LbaOf
  <2> QED BY <1>2, <2>2
<1>6. m = g + 1
  <2>1. m = 1 + req.sector + engine.moved
    BY <1>1, <1>4 DEF Placed
  <2> QED BY <1>2, <2>1
<1>7. /\ Along(engine) \in Engines /\ Placed(Along(engine), 1 + req.sector, Part)
      /\ Along(engine).moved = engine.moved + 1
      /\ Along(engine).at = engine.at /\ Along(engine).a = engine.a /\ Along(engine).count = engine.count
      /\ Along(engine).write = engine.write /\ Along(engine).slot = engine.slot
  <2>1. 1 + req.sector \in Nat /\ engine.moved < Part
    BY <1>2, <1>20
  <2> QED BY <1>1, <1>2, <1>4, <2>1, AlongThePlan
<1>8. Commanded(req, engine, Part)'
  <2>1. Part' = Part /\ Length(req)' = Length(req)
    BY <1>1 DEF Chunk, Part, Length
  <2> QED BY <1>1, <1>2, <1>7, <2>1 DEF Commanded
<1>9. /\ before[1] \in Kept /\ before[2] \in Memories /\ drive.data \in Kept /\ ram \in Memories
      /\ drive \in [sts : IdeAnswers \cup AhciAnswers, data : Kept]
  BY <1>2 DEF Wanted, DiskTypes
<1> HIDE DEF b, m
<1>10. CASE req.write
  <2> DEFINE d == [drive.data EXCEPT ![req.block + g] = ram[g + 1]]
  <2>1. Progress(req, g + 1, before[1], before[2], d, ram) /\ d \in Kept
    <3> HIDE DEF g
    <3> QED BY <1>2, <1>3, <1>9, <1>10, ProgressStep
  <2>2. drive' = [drive EXCEPT !.data[req.block + g] = ram[g + 1]] /\ ram' = ram
    BY <1>1, <1>4, <1>5, <1>6, <1>10
  <2>3. drive' = [drive EXCEPT !.data = d]
    BY <1>9, <2>2
  <2> HIDE DEF d
  <2>4. drive'.data = d /\ drive' \in [sts : IdeAnswers \cup AhciAnswers, data : Kept]
    BY <1>9, <2>1, <2>3
  <2>5. DiskTypes'
    BY <1>1, <1>2, <2>2, <2>4 DEF DiskTypes
  <2>6. req.sector + engine'.moved = g + 1
    BY <1>1, <1>2, <1>7
  <2>7. Progress(req, req.sector + engine'.moved, before[1], before[2], drive'.data, ram')
    BY <2>1, <2>2, <2>4, <2>6
  <2> QED BY <1>1, <1>2, <1>8, <2>5, <2>7, ControllerStep
<1>11. CASE ~ req.write
  <2> DEFINE r == [ram EXCEPT ![g + 1] = drive.data[req.block + g]]
  <2>1. Progress(req, g + 1, before[1], before[2], drive.data, r) /\ r \in Memories
    <3> HIDE DEF g
    <3> QED BY <1>2, <1>3, <1>9, <1>11, ProgressStep
  <2>2. ram' = r /\ drive' = drive
    BY <1>1, <1>4, <1>5, <1>6, <1>11
  <2> HIDE DEF r
  <2>3. DiskTypes'
    BY <1>1, <1>2, <2>1, <2>2 DEF DiskTypes
  <2>4. req.sector + engine'.moved = g + 1
    BY <1>1, <1>2, <1>7
  <2>5. Progress(req, req.sector + engine'.moved, before[1], before[2], drive'.data, ram')
    BY <2>1, <2>2, <2>4
  <2> QED BY <1>1, <1>2, <1>8, <2>3, <2>5, ControllerStep
<1> QED BY <1>2, <1>10, <1>11

LEMMA FinishKeeps ==
  ASSUME DiskInv, Finish \/ Fail \/ DriveFails
  PROVE  DiskInv'
<1>1. engine.at = "run" /\ UNCHANGED <<ctl, drive, ram, before>>
  BY DEF Finish, Fail, DriveFails
<1>2. /\ req.at = "wait" /\ DiskTypes /\ Wanted /\ Commanded(req, engine, Part) /\ req \in Requested
      /\ req.fault \in BOOLEAN /\ Part \in Nat /\ Part <= Count /\ engine.moved \in 0..Part
      /\ Progress(req, req.sector + engine.moved, before[1], before[2], drive.data, ram)
  BY <1>1, Working
<1>3. engine \in Engines /\ Placed(engine, 1 + req.sector, Part)
  BY <1>2 DEF Commanded
<1>4. PICK x \in {"int", "err"}, y \in BOOLEAN :
        /\ engine' = [engine EXCEPT !.at = x] /\ req' = [req EXCEPT !.fault = y]
        /\ req.fault => y
        /\ x = "int" => engine.moved = Part \/ y
  <2>0. req = [req EXCEPT !.fault = req.fault]
    BY <1>2 DEF Requested
  <2>1. CASE Finish
    <3>1. Count \in Nat
      BY <1>3, DiskSizes DEF Engines, Count
    <3>2. engine.moved = Part
      BY <1>2, <1>3, <2>1, <3>1 DEF Finish, Placed
    <3> QED BY <1>2, <2>0, <2>1, <3>2 DEF Finish
  <2>2. CASE Fail
    BY <1>2, <2>0, <2>2 DEF Fail
  <2>3. CASE DriveFails
    BY <2>3 DEF DriveFails
  <2> QED BY <2>1, <2>2, <2>3
<1>5. /\ engine' \in Engines /\ engine'.at = x /\ engine'.a = engine.a /\ engine'.count = engine.count
      /\ engine'.write = engine.write /\ engine'.prdt = engine.prdt /\ engine'.moved = engine.moved
      /\ engine'.entry = engine.entry /\ engine'.off = engine.off
  BY <1>3, <1>4 DEF Engines
<1>6. Placed(engine', 1 + req.sector, Part)
  BY <1>3, <1>5 DEF Placed
<1>7. /\ req' \in Requested /\ req'.at = "wait" /\ req'.block = req.block /\ req'.sectors = req.sectors
      /\ req'.sector = req.sector /\ req'.write = req.write /\ (req'.fault <=> y)
  BY <1>2, <1>4 DEF Requested
<1>8. Part' = Part /\ Length(req)' = Length(req) /\ DiskTypes' /\ Wanted'
  <2>1. Chunk' = Chunk
    BY <1>7 DEF Chunk
  <2>2. Part' = Part /\ Length(req)' = Length(req)
    BY <1>1, <1>7, <2>1 DEF Part, Length
  <2>3. DiskTypes' /\ Wanted'
    BY <1>1, <1>2, <1>7 DEF DiskTypes, Wanted
  <2> QED BY <2>2, <2>3
<1>9. Commanded(req, engine, Part)'
  BY <1>1, <1>2, <1>4, <1>5, <1>6, <1>7, <1>8 DEF Commanded
<1>10. Progress(req', req'.sector + engine'.moved, before'[1], before'[2], drive'.data, ram')
  <2>1. Progress(req', req.sector + engine.moved, before[1], before[2], drive.data, ram)
    <3> DEFINE g == req.sector + engine.moved
    <3>1. Progress(req, g, before[1], before[2], drive.data, ram) /\ (req.fault => req'.fault)
      BY <1>2, <1>4, <1>7
    <3> HIDE DEF g
    <3>2. Progress(req', g, before[1], before[2], drive.data, ram)
      BY <1>7, <3>1, ProgressSame
    <3> QED BY <3>2 DEF g
  <2> QED BY <1>1, <1>5, <1>7, <2>1
<1> QED BY <1>7, <1>8, <1>9, <1>10 DEF DiskInv

(* A request that ends has moved the sectors before some place, all that its *)
(* tables describe if it reports success and the drive did not fail.         *)
LEMMA Ended ==
  ASSUME DiskInv, req.at = "wait", NEW n \in Nat, NEW x \in BOOLEAN,
         x => engine.at = "int" /\ req.sector + Part = Described,
         req' = [req EXCEPT !.at = "done", !.sector = n, !.ok = x], engine' = NoEngine,
         UNCHANGED <<ctl, drive, ram, before>>
  PROVE  DiskInv'
<1> DEFINE g == req.sector + engine.moved
<1>1. engine.at \in {"run", "int", "err"}
  BY DEF DiskInv, Commanded, Engines
<1>2. /\ DiskTypes /\ Wanted /\ Commanded(req, engine, Part)
      /\ req \in Requested /\ req.block \in Nat /\ req.sectors \in Nat /\ req.sector \in Nat /\ req.write \in BOOLEAN
      /\ req.fault \in BOOLEAN
      /\ Part \in Nat /\ req.sector + Part <= req.sectors /\ engine.moved \in 0..Part
      /\ Progress(req, g, before[1], before[2], drive.data, ram)
  BY <1>1, Working
<1>3. /\ req' \in Requested /\ req'.at = "done" /\ req'.block = req.block /\ req'.sectors = req.sectors
      /\ req'.write = req.write /\ (req'.ok <=> x) /\ req'.fault = req.fault
  BY <1>2 DEF Requested
<1>4. DiskTypes' /\ Wanted' /\ Described' = Described
  BY <1>2, <1>3 DEF DiskTypes, Wanted, Described
<1>5. g \in 0..req.sectors
  BY <1>2
<1>6. x /\ ~ req.fault => g = Described
  BY <1>2 DEF Commanded
<1>7. Progress(req', g, before'[1], before'[2], drive'.data, ram')
  <2>1. Progress(req, g, before[1], before[2], drive.data, ram) /\ req'.block = req.block /\ req'.write = req.write
        /\ req'.fault = req.fault
    BY <1>2, <1>3
  <2> HIDE DEF g
  <2>2. Progress(req', g, before[1], before[2], drive.data, ram)
    BY <2>1 DEF Progress
  <2> QED BY <2>2
<1> HIDE DEF g
<1>8. \E h \in 0..req'.sectors :
        Progress(req', h, before'[1], before'[2], drive'.data, ram') /\ (req'.ok /\ ~ req'.fault => h = Described')
  BY <1>3, <1>4, <1>5, <1>6, <1>7
<1> QED BY <1>3, <1>4, <1>8 DEF DiskInv

LEMMA IdeCompletes ==
  ASSUME DiskInv, Complete
  PROVE  DiskInv'
<1> DEFINE moved == req.sector + Chunk
<1>1. /\ req.at = "wait" /\ engine.at \in {"int", "err"} /\ ctl = "ide" /\ engine' = NoEngine
      /\ UNCHANGED <<ctl, drive, ram, before>>
      /\ req' = IF engine.at = "int" /\ moved < req.sectors THEN [req EXCEPT !.at = "setup", !.sector = moved]
                ELSE [req EXCEPT !.at = "done", !.sector = moved, !.ok = (engine.at = "int")]
  BY DEF Complete
<1>20. Part = Chunk /\ Described = req.sectors
  BY <1>1 DEF Part, Described
<1>2. /\ DiskTypes /\ Wanted /\ Commanded(req, engine, Part)
      /\ req \in Requested /\ req.block \in Nat /\ req.sectors \in Nat /\ req.sector \in Nat /\ req.write \in BOOLEAN
      /\ req.fault \in BOOLEAN
      /\ Chunk \in Nat /\ req.sector + Chunk <= req.sectors /\ engine.moved \in 0..Chunk
      /\ Progress(req, req.sector + engine.moved, before[1], before[2], drive.data, ram)
  BY <1>1, <1>20, Working
<1>3. moved \in Nat /\ moved <= req.sectors
  BY <1>2
<1>4. CASE engine.at = "int" /\ moved < req.sectors
  <2>1. req' = [req EXCEPT !.at = "setup", !.sector = moved]
    BY <1>1, <1>4
  <2>2. engine.moved = Chunk \/ req.fault
    BY <1>2, <1>4, <1>20 DEF Commanded
  <2>3. Progress(req, moved, before[1], before[2], drive.data, ram)
    <3>1. CASE engine.moved = Chunk
      BY <1>2, <3>1 DEF moved
    <3>2. CASE req.fault
      <4> DEFINE g == req.sector + engine.moved
      <4>1. g \in Nat /\ g <= moved /\ Progress(req, g, before[1], before[2], drive.data, ram)
        BY <1>2
      <4> HIDE DEF g, moved
      <4> QED BY <1>2, <1>3, <3>2, <4>1, ProgressLoose
    <3> QED BY <2>2, <3>1, <3>2
  <2> HIDE DEF moved
  <2>4. /\ req' \in Requested /\ req'.at = "setup" /\ req'.block = req.block /\ req'.sectors = req.sectors
        /\ req'.sector = moved /\ req'.write = req.write /\ req'.fault = req.fault
    BY <1>2, <1>3, <2>1 DEF Requested
  <2>5. DiskTypes' /\ Wanted'
    BY <1>1, <1>2, <1>4, <2>4 DEF DiskTypes, Wanted
  <2>6. Progress(req', moved, before'[1], before'[2], drive'.data, ram')
    <3>1. Progress(req', moved, before[1], before[2], drive.data, ram)
      BY <2>3, <2>4, ProgressSame
    <3> QED BY <1>1, <3>1
  <2> QED BY <1>1, <2>4, <2>5, <2>6 DEF DiskInv
<1>5. CASE ~ (engine.at = "int" /\ moved < req.sectors)
  <2> DEFINE x == engine.at = "int"
  <2>1. x \in BOOLEAN /\ (x => engine.at = "int" /\ req.sector + Part = Described)
    BY <1>2, <1>3, <1>5, <1>20
  <2>2. req' = [req EXCEPT !.at = "done", !.sector = moved, !.ok = x]
    BY <1>1, <1>5
  <2> HIDE DEF x, moved
  <2> QED BY <1>1, <1>3, <2>1, <2>2, Ended
<1> QED BY <1>4, <1>5

LEMMA AhciCompletes ==
  ASSUME DiskInv, Complete_ahci
  PROVE  DiskInv'
<1> DEFINE x == engine.at # "err"
<1>1. /\ req.at = "wait" /\ (engine.slot \notin ci \/ engine.at = "err") /\ ctl = "ahci" /\ engine' = NoEngine
      /\ UNCHANGED <<ctl, drive, ram, before>>
      /\ req' = [req EXCEPT !.at = "done", !.sector = req.sectors, !.ok = x]
  BY DEF Complete_ahci
<1>2. engine.at \in {"run", "int", "err"} /\ Commanded(req, engine, Part)
  BY <1>1 DEF DiskInv, Commanded, Engines
<1>3. req \in Requested /\ req.sectors \in Nat /\ req.sector \in Nat /\ Wanted /\ Part \in Nat
  BY <1>2, Working
<1>4. req.sector = 0 /\ Part = Described
  BY <1>1, <1>3 DEF Wanted, Part, Described
<1>5. x => engine.at = "int"
  BY <1>1, <1>2 DEF Commanded
<1>6. x \in BOOLEAN /\ req.sector + Part = Described
  BY <1>3, <1>4
<1> HIDE DEF x
<1> QED BY <1>1, <1>3, <1>5, <1>6, Ended

LEMMA QuietSteps ==
  ASSUME DiskInv, Disks \/ Disks_ahci \/ Start \/ Returns
  PROVE  DiskInv'
<1>1. /\ UNCHANGED <<ctl, drive, ram, engine>> /\ req.at # "wait"
      /\ req' \in {[at |-> "idle"], [at |-> "absent"], [at |-> "init"]}
  <2>1. CASE Disks
    BY <2>1 DEF Disks, Idle
  <2>2. CASE Disks_ahci
    BY <2>2 DEF Disks_ahci
  <2>3. CASE Start
    BY <2>3 DEF Start, Idle
  <2>4. CASE Returns
    BY <2>4 DEF Returns, Idle
  <2> QED BY <2>1, <2>2, <2>3, <2>4
<1>2. req' \in Quiet
  BY <1>1 DEF Quiet
<1>3. engine' = NoEngine
  BY <1>1 DEF DiskInv
<1> QED BY <1>1, <1>2, <1>3, QuietStep

LEMMA DiskStarts ==
  ASSUME DiskInit
  PROVE  DiskInv
<1>1. req = [at |-> "probe"] /\ req \in Quiet /\ req.at = "probe"
  BY DEF DiskInit, Quiet
<1>2. ram \in Memories
  <2>1. \A i \in 0..(MaxSectors + 1) : i \in Nat
    BY DiskSizes
  <2> QED BY <2>1 DEF DiskInit, Memories
<1>3. drive \in [sts : IdeAnswers \cup AhciAnswers, data : Kept]
  <2> DEFINE f == [b \in 0..(Blocks - 1) |-> b + 100]
  <2>1. \A b \in 0..(Blocks - 1) : b + 100 \in Nat
    BY DiskSizes
  <2>2. f \in Kept
    BY <2>1 DEF Kept
  <2>3. PICK s \in IdeAnswers \cup AhciAnswers : drive = [sts |-> s, data |-> f]
    BY DEF DiskInit
  <2> HIDE DEF f
  <2> QED BY <2>2, <2>3
<1> QED BY <1>1, <1>2, <1>3 DEF DiskInit, DiskInv, DiskTypes

LEMMA DiskStays ==
  ASSUME DiskInv, UNCHANGED diskVars
  PROVE  DiskInv'
BY DEF DiskInv, DiskTypes, Wanted, Commanded, Chunk, Part, Length, Described, diskVars

(* The invariant says what TransferExact says. *)
LEMMA ExactlyMoved ==
  ASSUME DiskInv
  PROVE  TransferExact
<1> SUFFICES ASSUME req.at \in {"setup", "wait", "done"} PROVE TransferExact
  BY DEF TransferExact
<1>1. /\ req \in Requested /\ req.block \in Nat /\ req.sectors \in Nat /\ req.sector \in Nat /\ req.write \in BOOLEAN
      /\ DiskTypes /\ Wanted
  BY AskedReq DEF DiskInv
<1>2. PICK g \in 0..req.sectors : /\ Progress(req, g, before[1], before[2], drive.data, ram)
                                  /\ req.at = "done" /\ req.ok /\ ~ req.fault => g = Described
  <2>1. CASE req.at = "setup"
    <3>1. req.sector \in 0..req.sectors
      BY <1>1, <2>1 DEF Wanted
    <3> QED BY <2>1, <3>1 DEF DiskInv
  <2>2. CASE req.at = "wait"
    <3>1. engine.at \in {"run", "int", "err"}
      BY <2>2 DEF DiskInv, Commanded, Engines
    <3>2. /\ Part \in Nat /\ req.sector + Part <= req.sectors /\ engine.moved \in 0..Part
          /\ Progress(req, req.sector + engine.moved, before[1], before[2], drive.data, ram)
      BY <3>1, Working
    <3>3. req.sector + engine.moved \in 0..req.sectors
      BY <1>1, <3>2
    <3> QED BY <2>2, <3>2, <3>3
  <2>3. CASE req.at = "done"
    BY <2>3 DEF DiskInv
  <2> QED BY <2>1, <2>2, <2>3
<1> DEFINE d0 == before[1]
           m0 == before[2]
<1>3. /\ d0 \in Kept /\ m0 \in Memories /\ drive.data \in Kept /\ ram \in Memories
      /\ req.block + req.sectors <= Blocks /\ req.sectors <= MaxSectors
  BY <1>1 DEF DiskTypes, Wanted
<1>4. DOMAIN d0 = 0..(Blocks - 1) /\ DOMAIN m0 = 0..(MaxSectors + 1)
  BY <1>3 DEF Kept, Memories
<1> HIDE DEF d0, m0
<1>5. Progress(req, g, d0, m0, drive.data, ram)
  BY <1>2 DEF d0, m0
<1>6. ASSUME NEW b \in 0..(Blocks - 1), drive.data[b] # d0[b]
      PROVE  /\ req.write /\ b \in req.block..(req.block + req.sectors - 1)
             /\ drive.data[b] = m0[b - req.block + 1]
  <2>1. req.write /\ b \in req.block..(req.block + g - 1) /\ drive.data[b] = m0[b - req.block + 1]
    BY <1>5, <1>6 DEF Progress
  <2> QED BY <1>1, <2>1
<1>7. ASSUME NEW i \in 0..(MaxSectors + 1), ram[i] # m0[i]
      PROVE  ~ req.write /\ i \in 1..req.sectors /\ ram[i] = d0[req.block + i - 1]
  <2>1. ~ req.write /\ i \in 1..g /\ ram[i] = d0[req.block + i - 1]
    BY <1>5, <1>7 DEF Progress
  <2> QED BY <1>1, <2>1
<1>8. ASSUME req.at = "done", req.ok, ~ req.fault, NEW i \in 1..Described
      PROVE  drive.data[req.block + i - 1] = ram[i]
  <2> DEFINE b == req.block + i - 1
  <2>1. g = Described /\ g \in Nat /\ i \in 1..g
    BY <1>1, <1>2, <1>8
  <2>2. /\ b \in 0..(Blocks - 1) /\ i \in 0..(MaxSectors + 1)
        /\ b \in req.block..(req.block + g - 1) /\ b - req.block + 1 = i
    BY <1>1, <1>2, <1>3, <2>1, DiskSizes
  <2> HIDE DEF b
  <2>3. /\ drive.data[b] = IF req.write THEN m0[b - req.block + 1] ELSE d0[b]
        /\ ram[i] = IF ~ req.write THEN d0[req.block + i - 1] ELSE m0[i]
    BY <1>5, <1>8, <2>1, <2>2 DEF Progress
  <2>4. drive.data[b] = ram[i]
    <3>1. ram[i] = IF ~ req.write THEN d0[b] ELSE m0[i]
      BY <2>3 DEF b
    <3> QED BY <1>1, <2>2, <2>3, <3>1
  <2> QED BY <2>4 DEF b
<1>9. req.at = "done" /\ req.ok /\ ~ req.fault => \A i \in 1..Described : drive.data[req.block + i - 1] = ram[i]
  BY <1>8
<1> QED BY <1>4, <1>6, <1>7, <1>9 DEF TransferExact, d0, m0

(* The inductive invariant behind TransfersAreExact: whatever the sizes, the *)
(* controller and the driver agree, after every step, on how many sectors of *)
(* the request are done and where the next one belongs.                      *)
THEOREM DiskInvariance == DiskSpec => []DiskInv
<1>1. DiskInit => DiskInv
  BY DiskStarts
<1>2. DiskInv /\ [DiskNext]_diskVars => DiskInv'
  <2> SUFFICES ASSUME DiskInv, [DiskNext]_diskVars PROVE DiskInv'
    OBVIOUS
  <2>1. CASE UNCHANGED diskVars
    BY <2>1, DiskStays
  <2>2. CASE DiskNext
    BY <2>2, QuietSteps, RequestKeeps, IdeCommands, AhciCommands, MoveKeeps, FinishKeeps, IdeCompletes,
       AhciCompletes DEF DiskNext
  <2> QED BY <2>1, <2>2
<1> QED BY <1>1, <1>2, PTL DEF DiskSpec

(* TransferExact for every size of drive, command, table and request: what   *)
(* ata_dma of either driver reads or writes is the sectors it was asked for, *)
(* each at its place, and, when it reports success and the drive did not     *)
(* fail, all that its tables describe: with AHCI less than 4 MB.             *)
THEOREM TransfersAreExact == DiskSpec => []TransferExact
<1>1. DiskInv => TransferExact
  BY ExactlyMoved
<1> QED BY <1>1, DiskInvariance, PTL

=============================================================================
