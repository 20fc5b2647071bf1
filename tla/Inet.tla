-------------------------------- MODULE Inet --------------------------------
(***************************************************************************)
(* The network schemes of the kernel above network: - ethernet:, ip:,      *)
(* arp: and icmp: - and udp: on top of them, for one host among peers.     *)
(*                                                                         *)
(* A network: resource gives its owner every frame that arrives after it   *)
(* was opened, once and in order (EveryFrameToAll of Nic), so it is a      *)
(* position in the sequence of the frames that arrived.  A process works   *)
(* on one tower of resources at a time and takes one frame per step.       *)
(***************************************************************************)
EXTENDS Integers, Sequences, SequencesExt, FiniteSets

CONSTANTS Peers,   \* other hosts; a host stands for its MAC and its IP address
          Clients, \* processes that use udp: as clients
          PeerOf,  \* the peer that a client talks to
          Ports,   \* UDP ports in use
          MaxIn,   \* frames that arrive
          MaxTowers, MaxSent \* processes with a resource at one time; datagrams written

(* Addresses of hosts are not the broadcast address, and a client is not one of
   the processes below. *)
ASSUME InetAssumption == /\ PeerOf \in [Clients -> Peers] /\ MaxIn \in Nat /\ Ports # {}
                         /\ "me" \notin Peers /\ "broadcast" \notin Peers
                         /\ \A p \in {"arp", "icmp", "server"} : p \notin Clients

VARIABLES arrived, \* frames that came in, in order
          sent,    \* frames that went out, in order
          arp,     \* IpScheme.arp
          tower,   \* for each process, the resources it has open and where it is
          got      \* history: positions of the datagrams a process was given

inetVars == <<arrived, sent, arp, tower, got>>

Me == "me"
Bcast == "broadcast"
Procs == Clients \cup {"arp", "icmp", "server"}
Closed == [at |-> "closed"]
ServerPort == CHOOSE n \in Ports : TRUE

InetInit == /\ arrived = <<>> /\ sent = <<>> /\ arp = <<>>
            /\ tower = [p \in Procs |-> Closed]
            /\ got = [p \in Procs |-> <<>>]

----------------------------------------------------------------------------
(* What is on the wire. *)
EthernetII(src, dst, type, data) == [src |-> src, dst |-> dst, type |-> type, data |-> data]
Arp(oper, src_mac, src_ip, dst_ip) == [oper |-> oper, src_mac |-> src_mac, src_ip |-> src_ip, dst_ip |-> dst_ip]
Ipv4(proto, src, dst, data) == [proto |-> proto, src |-> src, dst |-> dst, data |-> data]
Icmp(type, data) == [type |-> type, data |-> data]
Udp(src, dst, len) == [src |-> src, dst |-> dst, len |-> len]

(* Peers ask for addresses, answer such questions, ping and send datagrams;
   packets for other hosts pass by too. *)
Frames(p) ==
  {EthernetII(p, Bcast, "806", Arp(1, p, p, d)) : d \in {Me} \cup (Peers \ {p})}
  \cup {EthernetII(p, Me, "806", Arp(2, p, p, Me)) :
          i \in {k \in 1..Len(sent) : sent[k].type = "806" /\ sent[k].data.oper = 1 /\ sent[k].data.dst_ip = p}}
  \cup {EthernetII(p, Me, "800", Ipv4("icmp", p, Me, Icmp(8, n))) : n \in {Len(arrived)}}
  \cup {EthernetII(p, Me, "800", Ipv4("udp", p, Me, Udp(s, t, l))) : s \in Ports, t \in Ports, l \in {0, 1}}
  \cup {EthernetII(p, Me, "800", Ipv4("udp", p, d, Udp(ServerPort, ServerPort, 0))) : d \in Peers \ {p}}

Arrive(p) == /\ Len(arrived) < MaxIn
             /\ \E f \in Frames(p) : arrived' = Append(arrived, f)
             /\ UNCHANGED <<sent, arp, tower, got>>

----------------------------------------------------------------------------
(* EthernetScheme::open gives a resource on a fresh network: resource, for a
   peer, or for whoever sends the first frame of the type. *)
Ethernet(at, peer, type) == [at |-> at, pos |-> Len(arrived), mac |-> peer, type |-> type, since |-> 0]
open_matches(f, type) == f.type = type /\ f.dst \in {Me, Bcast}

(* EthernetResource::read_to_end: the next frame that it lets through. *)
read_matches(r, f) == open_matches(f, r.type) /\ (f.src = r.mac \/ r.mac = Bcast)

Pending(p) == tower[p].at # "closed" /\ tower[p].pos < Len(arrived)
Next1(p) == arrived[tower[p].pos + 1]
Taken(r) == [r EXCEPT !.pos = @ + 1]
Become(p, r) == tower' = [tower EXCEPT ![p] = r]

eth_write(r, data) == EthernetII(Me, r.mac, r.type, data)

Room == Cardinality({p \in Procs : tower[p].at # "closed"}) < MaxTowers

----------------------------------------------------------------------------
(* ArpScheme::reply_loop and IcmpScheme::reply_loop, and a UDP server, wait for
   a first frame from anyone. *)
Listen(p) ==
  /\ tower[p].at = "closed" /\ p \notin Clients /\ Room
  /\ Become(p, Ethernet("listen", Bcast, IF p = "arp" THEN "806" ELSE "800"))
  /\ got' = [got EXCEPT ![p] = <<>>]
  /\ UNCHANGED <<arrived, sent, arp>>

arp_reply(r, packet) ==
  IF packet.oper = 1 /\ packet.dst_ip = Me
  THEN <<eth_write(r, Arp(2, Me, Me, packet.src_ip))>> ELSE <<>>

(* The first frame fixes the peer for good; it is answered as any other. *)
ArpLoop ==
  /\ Pending("arp")
  /\ LET f == Next1("arp")
         r == Taken(tower["arp"])
         bound == [r EXCEPT !.at = "run", !.mac = f.src, !.since = r.pos]
     IN \/ /\ r.at = "listen" /\ open_matches(f, "806")
           /\ Become("arp", bound) /\ sent' = sent \o arp_reply(bound, f.data)
        \/ /\ r.at = "run" /\ read_matches(r, f)
           /\ Become("arp", r) /\ sent' = sent \o arp_reply(r, f.data)
        \/ /\ ~IF r.at = "listen" THEN open_matches(f, "806") ELSE read_matches(r, f)
           /\ Become("arp", r) /\ UNCHANGED sent
  /\ UNCHANGED <<arrived, arp, got>>

(* IpScheme::open without a host: the first packet of the protocol for us. *)
ip_accepts(packet, proto) == packet.proto = proto /\ packet.dst = Me
(* IpResource::read_to_end *)
ip_matches(r, packet) == ip_accepts(packet, r.proto) /\ packet.src = r.ip

Proto(p) == IF p = "icmp" THEN "icmp" ELSE "udp"

(* What the link lets through but ip: does not want makes ip: open another link;
   the frames that were queued in the first are lost. *)
IpListen(p) ==
  /\ p \in {"icmp", "server"} /\ tower[p].at = "listen" /\ Pending(p)
  /\ LET f == Next1(p)
     IN IF ~open_matches(f, "800") THEN Become(p, Taken(tower[p]))
        ELSE IF ~ip_accepts(f.data, Proto(p)) THEN Become(p, Ethernet("listen", Bcast, "800"))
        ELSE Become(p, [at |-> "accept", pos |-> tower[p].pos + 1, mac |-> f.src, type |-> "800",
                        since |-> tower[p].pos + 1, ip |-> f.data.src, proto |-> Proto(p), data |-> <<tower[p].pos + 1>>])
  /\ UNCHANGED <<arrived, sent, arp, got>>

(* IcmpScheme::reply_loop: an echo is answered with its own data. *)
icmp_reply(r, message) ==
  IF message.type = 8 THEN <<eth_write(r, Ipv4("icmp", Me, r.ip, Icmp(0, message.data)))>> ELSE <<>>

IcmpLoop ==
  LET p == "icmp"
      r == tower[p]
  IN /\ \/ /\ r.at = "accept"
           /\ Become(p, [r EXCEPT !.at = "run", !.data = <<>>])
           /\ sent' = sent \o icmp_reply(r, arrived[r.data[1]].data.data)
        \/ /\ r.at = "run" /\ Pending(p)
           /\ Become(p, Taken(r))
           /\ sent' = IF read_matches(r, Next1(p)) /\ ip_matches(r, Next1(p).data)
                      THEN sent \o icmp_reply(r, Next1(p).data.data) ELSE sent
     /\ UNCHANGED <<arrived, arp, got>>

----------------------------------------------------------------------------
(* IpScheme::open with a host: its MAC from the table, or by an ARP request to
   all and a wait for the reply; then a link to that MAC. *)
Entry(ip) == {i \in 1..Len(arp) : arp[i].ip = ip /\ \A j \in 1..(i - 1) : arp[j].ip # ip}

(* udp: takes a random port of its own.  A socket owes its owner what comes at
   the place since or later. *)
Connected(p, mac) ==
  \E n \in Ports :
    Become(p, [at |-> "open", pos |-> Len(arrived), mac |-> mac, type |-> "800", since |-> Len(arrived) + 1,
               ip |-> PeerOf[p], proto |-> "udp", data |-> <<>>, host_port |-> n, peer_port |-> ServerPort])

ClientOpen(p) ==
  /\ p \in Clients /\ tower[p].at = "closed" /\ Room
  /\ got' = [got EXCEPT ![p] = <<>>]
  /\ \/ /\ \E i \in Entry(PeerOf[p]) : Connected(p, arp[i].mac)
        /\ UNCHANGED sent
     \/ /\ Entry(PeerOf[p]) = {}
        /\ LET r == Ethernet("resolve", Bcast, "806")
           IN Become(p, r) /\ sent' = Append(sent, eth_write(r, Arp(1, Me, Me, PeerOf[p])))
  /\ UNCHANGED <<arrived, arp>>

(* Mutant: the first reply is taken, whoever it is from. *)
resolves_Any(p, f) == read_matches(tower[p], f) /\ f.data.oper = 2
resolves(p, f) == read_matches(tower[p], f) /\ f.data.oper = 2 /\ f.data.src_ip = PeerOf[p]

Resolve(p) ==
  /\ tower[p].at = "resolve" /\ Pending(p)
  /\ LET f == Next1(p)
     IN IF resolves(p, f)
        THEN /\ arp' = Append(arp, [ip |-> PeerOf[p], mac |-> f.data.src_mac])
             /\ Connected(p, f.data.src_mac)
        ELSE Become(p, Taken(tower[p])) /\ UNCHANGED arp
  /\ UNCHANGED <<arrived, sent, got>>

(* A UDP server is made by the first datagram, if it is for its port; a datagram
   for another port ends the open with ENOENT.  The data is kept for the first
   read, which tells it from no datagram only if there is some. *)
udp_open ==
  LET r == tower["server"]
  IN /\ r.at = "accept"
     /\ LET datagram == arrived[r.data[1]].data.data
            empty == datagram.len = 0
        IN Become("server",
             IF datagram.dst # ServerPort THEN Closed
             ELSE [at |-> "open", pos |-> r.pos, mac |-> r.mac, type |-> r.type,
                   since |-> IF empty THEN r.pos + 1 ELSE r.pos, ip |-> r.ip, proto |-> "udp",
                   data |-> IF empty THEN <<>> ELSE r.data,
                   host_port |-> ServerPort, peer_port |-> datagram.src])
     /\ UNCHANGED <<arrived, sent, arp, got>>

(* read: the loop that copies the data does not advance, so it ends only when
   there is no data, or no room for any. *)
Copy(p, r, k, buf) ==
  /\ got' = [got EXCEPT ![p] = Append(@, k)]
  /\ Become(p, [r EXCEPT !.at = IF buf > 0 /\ arrived[k].data.data.len > 0 THEN "spin" ELSE "open"])

StartRead(p) ==
  /\ tower[p].at = "open"
  /\ IF tower[p].data # <<>>
     THEN \E buf \in {0, 1} : Copy(p, [tower[p] EXCEPT !.data = <<>>], tower[p].data[1], buf)
     ELSE Become(p, [tower[p] EXCEPT !.at = "read"]) /\ UNCHANGED got
  /\ UNCHANGED <<arrived, sent, arp>>

udp_matches(r, datagram) == datagram.dst = r.host_port /\ datagram.src = r.peer_port

udp_read(p) ==
  /\ tower[p].at = "read" /\ Pending(p)
  /\ LET f == Next1(p)
         r == Taken(tower[p])
     IN IF read_matches(r, f) /\ ip_matches(r, f.data) /\ udp_matches(r, f.data.data)
        THEN \E buf \in {0, 1} : Copy(p, r, r.pos, buf)
        ELSE Become(p, r) /\ UNCHANGED got
  /\ UNCHANGED <<arrived, sent, arp>>

udp_write(p) ==
  /\ tower[p].at = "open" /\ Len(sent) < MaxSent
  /\ LET r == tower[p]
     IN sent' = Append(sent, eth_write(r, Ipv4("udp", Me, r.ip, Udp(r.host_port, r.peer_port, 1))))
  /\ UNCHANGED <<arrived, arp, tower, got>>

Close(p) ==
  /\ tower[p].at = "open"
  /\ Become(p, Closed)
  /\ UNCHANGED <<arrived, sent, arp, got>>

InetNext ==
  \/ \E p \in Peers : Arrive(p)
  \/ ArpLoop \/ IcmpLoop \/ udp_open
  \/ \E p \in Procs : Listen(p) \/ IpListen(p) \/ ClientOpen(p) \/ Resolve(p)
                      \/ StartRead(p) \/ udp_read(p) \/ udp_write(p) \/ Close(p)

InetSpec == InetInit /\ [][InetNext]_inetVars

----------------------------------------------------------------------------
(* A request of host h, the answer to it, and the answers sent. *)
IsRequest(f, h, p) == f.src = h /\ IF p = "arp" THEN f.type = "806" /\ f.data.oper = 1 /\ f.data.dst_ip = Me
                                  ELSE f.type = "800" /\ f.data.proto = "icmp"
Answer(f) == EthernetII(Me, f.src, f.type, IF f.type = "806" THEN Arp(2, Me, Me, f.src)
                                           ELSE Ipv4("icmp", Me, f.src, Icmp(0, f.data.data.data)))
IsAnswer(f, p) == IF p = "arp" THEN f.type = "806" /\ f.data.oper = 2
                  ELSE f.type = "800" /\ f.data.proto = "icmp"

(* The frames of out at the places in A answer the requests of in at the places
   in D, one each and in order. *)
Answered(out, A, in, D) ==
  \E m \in [A -> D] : /\ \A i, j \in A : i < j => m[i] < m[j]
                      /\ \A k \in D : \E i \in A : m[i] = k
                      /\ \A i \in A : out[i] = Answer(in[m[i]])

(* ARP and ICMP answers on the wire are exactly those to the requests which the
   host that a loop serves has made since the loop took it up and which the loop
   has come to: one each, in order, to that host and with its data. *)
AnswersDue ==
  \A p \in {"arp", "icmp"} :
    LET r == tower[p]
    IN Answered(sent, {i \in 1..Len(sent) : IsAnswer(sent[i], p)}, arrived,
                IF r.at # "run" THEN {} ELSE {i \in r.since..r.pos : IsRequest(arrived[i], r.mac, p)})

(* Address resolution is right though several processes resolve at once and see
   each other's replies: the table, and the links in use, lead to the MAC of the
   host, and no datagram is addressed to one host and sent to another. *)
LinksRight ==
  /\ \A i \in 1..Len(arp) : arp[i].mac = arp[i].ip
  /\ \A p \in Clients : tower[p].at \in {"open", "read", "spin"} => tower[p].mac = PeerOf[p]
  /\ \A f \in Range(sent) : f.type = "800" => f.dst = f.data.dst

(* A process is given datagrams of its own peer and ports only, each once and in
   order; and none that its resource met since it was opened, with the one that
   made a server unless that was empty, is passed over: it was given, or it is
   kept for the first read. *)
OwnDatagrams ==
  \A p \in Clients \cup {"server"} :
    LET r == tower[p]
        mine(i) == LET f == arrived[i] IN f.type = "800" /\ f.data.proto = "udp" /\ f.data.dst = Me
                     /\ f.data.src = r.ip /\ f.data.data.src = r.peer_port /\ f.data.data.dst = r.host_port
    IN r.at \in {"open", "read", "spin"} =>
         /\ \A i \in 1..Len(got[p]) : mine(got[p][i])
         /\ \A i, j \in 1..Len(got[p]) : i < j => got[p][i] < got[p][j]
         /\ \A k \in r.since..r.pos : mine(k) => k \in Range(got[p]) \cup Range(r.data)

(* Links are to the right peer and datagrams to the right socket, and what answers ARP
   and ICMP answers what it was asked, once (schemes arp, icmp, ip and udp). *)
InetSound == AnswersDue /\ LinksRight /\ OwnDatagrams
============================================================================
