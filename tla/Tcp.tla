-------------------------------- MODULE Tcp --------------------------------
(***************************************************************************)
(* The tcp: scheme (network/schemes/tcp/main.rs) at both ends of one       *)
(* connection, over an ip: resource for each direction that keeps the      *)
(* order of the segments and may lose them.                                *)
(*                                                                         *)
(* Every operation sends at most one segment and then waits for answers in *)
(* a loop, so an end is its resource and the loop it is in.  There are no  *)
(* timers in the code: a segment is never sent again.                      *)
(***************************************************************************)
EXTENDS Integers, Sequences

CONSTANTS U32,       \* sequence numbers are 0 .. U32 - 1
          Isn,       \* what rand gives for the first sequence number
          Lens,      \* the bytes a write may have
          Rooms,     \* the bytes a reader's buffer may have
          MaxWrites, \* writes at each end
          MaxLost,   \* segments lost, in all
          MaxStray,  \* segments of other connections that pass by
          MaxOpens   \* attempts to open

ASSUME TcpAssumption == U32 \in Nat \ {0} /\ Isn \subseteq 0..(U32 - 1) /\ Lens \subseteq Nat /\ Rooms \subseteq Nat

VARIABLES end,    \* the two ends
          net,    \* segments on their way to an end
          lost, strays, opens,
          wrote,  \* history: the outcome of each write of an end
          size,   \* history: the bytes of each write of an end
          taken,  \* history: the writes of the other end that an end's reads returned
          gave     \* history: for each of these, the bytes returned and those asked for

tcpVars == <<end, net, lost, strays, opens, wrote, size, taken, gave>>

Ends == {"client", "server"}
Other(e) == IF e = "client" THEN "server" ELSE "client"

(* Flags: S, A, P and F for SYN, ACK, PSH and FIN. *)
Segment(e, flags, chunk, len) ==
  [flags |-> flags, seq |-> end[e].seq, ack |-> end[e].ack, chunk |-> chunk, len |-> len, mine |-> TRUE]
(* What every loop looks at. *)
Kind(g) == g.flags \ {"F"}

TcpClosed == [at |-> "closed", seq |-> 0, ack |-> 0]

TcpInit == /\ end = [e \in Ends |-> TcpClosed]
           /\ net = [e \in Ends |-> <<>>]
           /\ lost = 0 /\ strays = 0 /\ opens = 0
           /\ wrote = [e \in Ends |-> <<>>] /\ size = [e \in Ends |-> <<>>]
           /\ taken = [e \in Ends |-> <<>>] /\ gave = [e \in Ends |-> <<>>]

(* ip.write; the file scheme of the other end is listening unless it is closed. *)
Send(e, g) == net' = [net EXCEPT ![Other(e)] = IF end[Other(e)].at = "closed" THEN @ ELSE Append(@, g)]

(* The network loses the segment that would arrive next. *)
Lose(e) == /\ net[e] # <<>> /\ lost < MaxLost
           /\ net' = [net EXCEPT ![e] = Tail(@)]
           /\ lost' = lost + 1
           /\ UNCHANGED <<end, strays, opens, wrote, size, taken, gave>>

(* A segment between the same hosts for another port. *)
Stray(e) == /\ strays < MaxStray /\ end[e].at # "closed"
            /\ strays' = strays + 1
            /\ \E f \in {{"A"}, {"P", "A"}, {"S", "A"}} :
                 net' = [net EXCEPT ![e] = Append(@, [flags |-> f, seq |-> 0, ack |-> 0, chunk |-> 0,
                                                      len |-> 1, mine |-> FALSE])]
            /\ UNCHANGED <<end, lost, opens, wrote, size, taken, gave>>

----------------------------------------------------------------------------
(* Scheme::open with a host: a resource with a random sequence number, then
   client_establish, which sends a SYN. *)
client_open ==
  /\ end["client"].at = "closed" /\ opens < MaxOpens
  /\ opens' = opens + 1
  /\ \E n \in Isn :
       LET r == [at |-> "syn_sent", seq |-> n, ack |-> 0]
       IN /\ end' = [end EXCEPT !["client"] = r]
          /\ net' = [net EXCEPT !["client"] = <<>>,
                                !["server"] = IF end["server"].at = "closed" THEN @ ELSE
                                  Append(@, [flags |-> {"S"}, seq |-> n, ack |-> 0, chunk |-> 0, len |-> 0,
                                             mine |-> TRUE])]
  /\ UNCHANGED <<lost, strays, wrote, size, taken, gave>>

(* Scheme::open with a port only: waits for a SYN on a fresh ip: resource. *)
TcpListen ==
  /\ end["server"].at = "closed" /\ opens < MaxOpens
  /\ opens' = opens + 1
  /\ end' = [end EXCEPT !["server"] = [TcpClosed EXCEPT !.at = "listen"]]
  /\ net' = [net EXCEPT !["server"] = <<>>]
  /\ UNCHANGED <<lost, strays, wrote, size, taken, gave>>

(* Dropping a resource sends FIN and ACK. *)
Fin(e, r) == [flags |-> {"F", "A"}, seq |-> r.seq, ack |-> r.ack, chunk |-> 0, len |-> 0, mine |-> TRUE]
Reply(e, g) == [net EXCEPT ![e] = Tail(@),
                           ![Other(e)] = IF end[Other(e)].at = "closed" THEN @ ELSE Append(@, g)]
Ack(r) == [flags |-> {"A"}, seq |-> r.seq, ack |-> r.ack, chunk |-> 0, len |-> 0, mine |-> TRUE]

Arrives(e, at) == end[e].at = at /\ net[e] # <<>> /\ Head(net[e]).mine

(* The loops of an established or half-established resource pass over a segment
   for another port. *)
Skip(e) ==
  /\ end[e].at \in {"syn_sent", "syn_rcvd", "reading", "writing"}
  /\ net[e] # <<>> /\ ~Head(net[e]).mine
  /\ net' = [net EXCEPT ![e] = Tail(@)]
  /\ UNCHANGED <<end, lost, strays, opens, wrote, size, taken, gave>>

(* client_establish, the answer: SYN and ACK, or the resource is dropped. *)
client_establish ==
  /\ Arrives("client", "syn_sent")
  /\ LET g == Head(net["client"])
         r == [at |-> "open", seq |-> g.ack, ack |-> (g.seq + 1) % U32]
     IN IF Kind(g) = {"S", "A"}
        THEN end' = [end EXCEPT !["client"] = r] /\ net' = Reply("client", Ack(r))
        ELSE end' = [end EXCEPT !["client"] = TcpClosed] /\ net' = Reply("client", Fin("client", end["client"]))
  /\ UNCHANGED <<lost, strays, opens, wrote, size, taken, gave>>

(* The server's open: a SYN makes a resource whose server_establish answers with
   SYN and ACK; anything else, one for another port too, is dropped with the ip:
   resource and all that was queued in it, and a new one is opened. *)
server_open ==
  /\ end["server"].at = "listen" /\ net["server"] # <<>>
  /\ LET g == Head(net["server"])
     IN IF g.mine /\ Kind(g) = {"S"}
        THEN \E n \in Isn :
               LET r == [at |-> "syn_rcvd", seq |-> n, ack |-> (g.seq + 1) % U32]
               IN /\ end' = [end EXCEPT !["server"] = r]
                  /\ net' = Reply("server", [Ack(r) EXCEPT !.flags = {"S", "A"}])
        ELSE net' = [net EXCEPT !["server"] = <<>>] /\ UNCHANGED end
  /\ UNCHANGED <<lost, strays, opens, wrote, size, taken, gave>>

(* server_establish, the answer: an ACK, or the resource is dropped and the
   server listens again. *)
server_establish ==
  /\ Arrives("server", "syn_rcvd")
  /\ LET g == Head(net["server"])
     IN IF Kind(g) = {"A"}
        THEN /\ end' = [end EXCEPT !["server"] = [at |-> "open", seq |-> g.ack, ack |-> g.seq]]
             /\ net' = [net EXCEPT !["server"] = Tail(@)]
        ELSE /\ end' = [end EXCEPT !["server"] = [TcpClosed EXCEPT !.at = "listen"]]
             /\ net' = [Reply("server", Fin("server", end["server"])) EXCEPT !["server"] = <<>>]
  /\ UNCHANGED <<lost, strays, opens, wrote, size, taken, gave>>

----------------------------------------------------------------------------
(* read waits for data; write sends it and waits for an ACK. *)
TcpRead(e) ==
  /\ end[e].at = "open"
  /\ end' = [end EXCEPT ![e].at = "reading"]
  /\ UNCHANGED <<net, lost, strays, opens, wrote, size, taken, gave>>

TcpWrite(e) ==
  /\ end[e].at = "open" /\ Len(wrote[e]) < MaxWrites
  /\ end' = [end EXCEPT ![e].at = "writing"]
  /\ wrote' = [wrote EXCEPT ![e] = Append(@, "pending")]
  /\ \E n \in Lens : /\ size' = [size EXCEPT ![e] = Append(@, n)]
                     /\ Send(e, Segment(e, {"P", "A"}, Len(wrote[e]) + 1, n))
  /\ UNCHANGED <<lost, strays, opens, taken, gave>>

Copied(n, room) == IF room < n THEN room ELSE n

(* read: data is acknowledged, whatever its sequence number, and as much of it as
   the caller's buffer has room for is copied; what does not fit is gone.  Other
   segments are passed over, a FIN too. *)
tcp_read(e) ==
  /\ Arrives(e, "reading")
  /\ LET g == Head(net[e])
         r == [at |-> "open", seq |-> g.ack, ack |-> (g.seq + g.len) % U32]
     IN IF Kind(g) = {"P", "A"}
        THEN /\ end' = [end EXCEPT ![e] = r]
             /\ net' = Reply(e, Ack(r))
             /\ taken' = [taken EXCEPT ![e] = Append(@, g.chunk)]
             /\ \E room \in Rooms :
                  gave' = [gave EXCEPT ![e] = Append(@, [n |-> Copied(g.len, room), room |-> room])]
        ELSE net' = [net EXCEPT ![e] = Tail(@)] /\ UNCHANGED <<end, taken, gave>>
  /\ UNCHANGED <<lost, strays, opens, wrote, size>>

(* Mutant: data of the other end is taken for an acknowledgement. *)
tcp_write_AnyAck(e) ==
  /\ Arrives(e, "writing")
  /\ LET g == Head(net[e])
     IN IF "A" \in g.flags
        THEN /\ end' = [end EXCEPT ![e] = [at |-> "open", seq |-> g.ack, ack |-> g.seq]]
             /\ wrote' = [wrote EXCEPT ![e][Len(wrote[e])] = IF "F" \in g.flags THEN "fin" ELSE "ok"]
        ELSE /\ end' = [end EXCEPT ![e].at = "open"]
             /\ wrote' = [wrote EXCEPT ![e][Len(wrote[e])] = "EPIPE"]
  /\ net' = [net EXCEPT ![e] = Tail(@)]
  /\ UNCHANGED <<lost, strays, opens, size, taken, gave>>

(* write: the first segment of the connection decides. An ACK, and a FIN with
   ACK, is success; anything else is EPIPE, and that segment is gone. *)
tcp_write(e) ==
  /\ Arrives(e, "writing")
  /\ LET g == Head(net[e])
     IN IF Kind(g) = {"A"}
        THEN /\ end' = [end EXCEPT ![e] = [at |-> "open", seq |-> g.ack, ack |-> g.seq]]
             /\ wrote' = [wrote EXCEPT ![e][Len(wrote[e])] = IF "F" \in g.flags THEN "fin" ELSE "ok"]
        ELSE /\ end' = [end EXCEPT ![e].at = "open"]
             /\ wrote' = [wrote EXCEPT ![e][Len(wrote[e])] = "EPIPE"]
  /\ net' = [net EXCEPT ![e] = Tail(@)]
  /\ UNCHANGED <<lost, strays, opens, size, taken, gave>>

(* The resource is closed by its owner. *)
Drop(e) ==
  /\ end[e].at = "open"
  /\ Send(e, Fin(e, end[e]))
  /\ end' = [end EXCEPT ![e] = TcpClosed]
  /\ UNCHANGED <<lost, strays, opens, wrote, size, taken, gave>>

TcpNext ==
  \/ client_open \/ TcpListen \/ client_establish \/ server_open \/ server_establish
  \/ \E e \in Ends : \/ Lose(e) \/ Stray(e) \/ Skip(e)
                     \/ TcpRead(e) \/ TcpWrite(e) \/ tcp_read(e) \/ tcp_write(e) \/ Drop(e)

TcpSpec == TcpInit /\ [][TcpNext]_tcpVars

----------------------------------------------------------------------------
(* What an end's reads return is what the other end wrote, each write at most
   once and in order, and never more than was written; and a write that was
   acknowledged (by more than the FIN of an end that goes away) was returned by a
   read: all of it, or as much as filled the reader's buffer, and the rest is lost
   though acknowledged.  So it is although segments are lost, both ends write at
   once, and connections are opened again. *)
AckedWasRead ==
  \A e \in Ends :
    LET t == taken[Other(e)]
        g == gave[Other(e)]
    IN /\ \A i, j \in 1..Len(t) : i < j => t[i] < t[j]
       /\ \A i \in 1..Len(t) : t[i] \in 1..Len(wrote[e]) /\ g[i].n <= size[e][t[i]]
       /\ \A k \in 1..Len(wrote[e]) :
            wrote[e][k] = "ok" => \E i \in 1..Len(t) : t[i] = k /\ g[i].n \in {size[e][k], g[i].room}

============================================================================
