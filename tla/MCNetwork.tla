------------------------------ MODULE MCNetwork ------------------------------
(* The parts of the network, each with instances of its own: a behaviour is one
   of the part that which names, and the others keep their first state. *)
EXTENDS Nic, Tcp, Inet, Wire, TLC

CONSTANTS p1, p2, c1, c2, r1, r2

VARIABLE which

MCPeerOf == c1 :> p1 @@ c2 :> p2

(* The resources of a card are alike, and so are the peers, each with its client. *)
Symmetry == {f \in Permutations({r1, r2, p1, p2, c1, c2}) :
               /\ {f[r1], f[r2]} = {r1, r2} /\ {f[c1], f[c2]} = {c1, c2}
               /\ \A c \in {c1, c2} : f[MCPeerOf[c]] = MCPeerOf[f[c]]}

Init == /\ which \in {"nic", "tcp", "inet", "wire"}
        /\ NicInit /\ (which # "nic" => card = "rtl8139")
        /\ TcpInit /\ InetInit
        /\ WireInit /\ (which # "wire" => msg = <<0, 0>> /\ addr = [i \in 1..Octets |-> 0])

Next == \/ which = "nic" /\ NicNext /\ UNCHANGED <<which, tcpVars, inetVars, wireVars>>
        \/ which = "tcp" /\ TcpNext /\ UNCHANGED <<which, nicVars, inetVars, wireVars>>
        \/ which = "inet" /\ InetNext /\ UNCHANGED <<which, nicVars, tcpVars, wireVars>>
        \/ which = "wire" /\ WireNext /\ UNCHANGED <<which, nicVars, tcpVars, inetVars>>

Spec == Init /\ [][Next]_<<which, nicVars, tcpVars, inetVars, wireVars>>

----------------------------------------------------------------------------
(* Every frame a card receives reaches every open resource of ethernet:, and every
   frame written is handed to the card, once and in order, whatever rings wrap and
   interrupts interleave (rtl8139.rs, intel8254x.rs, common.rs). *)
CardsSound == EveryFrameToAll /\ WrittenIsSent
============================================================================
