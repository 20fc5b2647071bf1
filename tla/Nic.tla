-------------------------------- MODULE Nic --------------------------------
(***************************************************************************)
(* Network cards: the drivers rtl8139.rs and intel8254x.rs, and the        *)
(* NetworkResources through which contexts reach them.                     *)
(*                                                                         *)
(* sync runs in a system call or in the interrupt handler, with interrupts *)
(* off, but the card works beside it: sync is therefore taken in steps, in *)
(* between which the card may receive, transmit and finish transmissions.  *)
(* A context of the kernel runs sync to its end before any other does.     *)
(***************************************************************************)
EXTENDS Integers, Sequences, SequencesExt, FiniteSets

CONSTANTS Res,        \* NetworkResources
          Ring,       \* length of the receive ring, or units of the receive buffer
          TxRing,     \* number of transmit descriptors
          Lengths,    \* lengths of frames in units
          TooLong,    \* from this length on a frame is not transmitted
          MaxRx, MaxTx  \* bounds on the frames received and on those written

ASSUME NicAssumption == Ring \in Nat \ {0} /\ TxRing \in Nat \ {0, 1} /\ MaxRx \in Nat /\ MaxTx \in Nat

VARIABLES card,      \* "rtl8139" or "intel8254x"
          resources, \* registered resources, in order
          inbound, outbound,  \* queues of the resources
          nin, nout, \* queues of the driver
          rx, tx,    \* receive and transmit side of the card
          sy,        \* the sync under way
          rxFrames, txFrames, written, \* histories: frames taken by the card, sent on the wire, written
          nicGot, first, given       \* histories: frames read by r, frames given out before r, given out in all

nicVars == <<card, resources, inbound, outbound, nin, nout, rx, tx, sy,
             rxFrames, txFrames, written, nicGot, first, given>>
histVars == <<rxFrames, txFrames, written, nicGot, first, given>>

Registered == Range(resources)

(* The driver's own view of the wire: a frame is its number and its length. *)
Frame(n, l) == [n |-> n, len |-> l]
None == [n |-> 0, len |-> 0]

(* Rtl8139::init and Intel8254x::init: an empty receive buffer or ring, the
   transmit descriptors free. *)
RxInit(c) == IF c = "rtl8139"
             THEN [mem |-> [i \in 0..(Ring - 1) |-> None], capr |-> 0, cbr |-> 0]
             ELSE [mem |-> [i \in 0..(Ring - 1) |-> None], rdh |-> 0, rdt |-> Ring - 1]
TxInit(c) == IF c = "rtl8139"
             THEN [desc |-> [i \in 0..(TxRing - 1) |-> None], own |-> [i \in 0..(TxRing - 1) |-> TRUE],
                   i |-> 0, next |-> 0]
             ELSE [desc |-> [i \in 0..(TxRing - 1) |-> None], tdh |-> 0, tdt |-> 0]

NicInit ==
  /\ card \in {"rtl8139", "intel8254x"}
  /\ resources = <<>>
  /\ inbound = [r \in Res |-> <<>>] /\ outbound = [r \in Res |-> <<>>]
  /\ nin = <<>> /\ nout = <<>>
  /\ rx = RxInit(card) /\ tx = TxInit(card)
  /\ sy = [at |-> "none", by |-> "none"]
  /\ rxFrames = <<>> /\ txFrames = <<>> /\ written = <<>>
  /\ nicGot = [r \in Res |-> <<>>] /\ first = [r \in Res |-> 0] /\ given = 0

----------------------------------------------------------------------------
(* The card (external). It stores a frame where its registers point, if the
   driver has given back enough room; otherwise it drops the frame. *)
Round(x) == IF x >= Ring THEN x - Ring ELSE x
Used == (rx.cbr - rx.capr + Ring) % Ring

CardReceive(l) ==
  /\ Len(rxFrames) < MaxRx
  /\ LET f == Frame(Len(rxFrames) + 1, l)
     IN /\ rxFrames' = Append(rxFrames, f)
        /\ IF card = "rtl8139"
           THEN /\ Used + l + 1 < Ring
                /\ rx' = [rx EXCEPT !.mem[rx.cbr] = f, !.cbr = Round(rx.cbr + l + 1)]
           ELSE /\ rx.rdh # rx.rdt
                /\ rx' = [rx EXCEPT !.mem[rx.rdh] = f, !.rdh = (rx.rdh + 1) % Ring]
  /\ UNCHANGED <<card, resources, inbound, outbound, nin, nout, tx, sy, txFrames, written, nicGot, first, given>>

(* The card puts the next frame handed to it on the wire and says so. *)
CardTransmit ==
  /\ \/ /\ card = "rtl8139" /\ ~tx.own[tx.next]
        /\ txFrames' = Append(txFrames, tx.desc[tx.next])
        /\ tx' = [tx EXCEPT !.own[tx.next] = TRUE, !.next = (tx.next + 1) % TxRing]
     \/ /\ card = "intel8254x" /\ tx.tdh # tx.tdt
        /\ txFrames' = Append(txFrames, tx.desc[tx.tdh])
        /\ tx' = [tx EXCEPT !.tdh = (tx.tdh + 1) % TxRing]
  /\ UNCHANGED <<card, resources, inbound, outbound, nin, nout, rx, sy, rxFrames, written, nicGot, first, given>>

----------------------------------------------------------------------------
(* A sync begins: from read, write and sync of a resource, and from on_irq. *)
Quiet == sy.at = "none"
Sync(by) == sy' = [at |-> "collect", by |-> by]

(* add, remove *)
add(r) == /\ resources' = Append(resources, r)
          /\ nicGot' = [nicGot EXCEPT ![r] = <<>>]
          /\ first' = [first EXCEPT ![r] = given]

remove(r) == resources' = SelectSeq(resources, LAMBDA x : x # r)

Open(r) ==
  /\ Quiet /\ r \notin Registered
  /\ add(r)
  /\ inbound' = [inbound EXCEPT ![r] = <<>>] /\ outbound' = [outbound EXCEPT ![r] = <<>>]
  /\ UNCHANGED <<card, nin, nout, rx, tx, sy, rxFrames, txFrames, written, given>>

(* dup: the copy begins with copies of both queues. *)
Dup(r, q) ==
  /\ Quiet /\ r \in Registered /\ q \notin Registered
  /\ resources' = Append(resources, q)
  /\ inbound' = [inbound EXCEPT ![q] = inbound[r]]
  /\ outbound' = [outbound EXCEPT ![q] = outbound[r]]
  /\ nicGot' = [nicGot EXCEPT ![q] = nicGot[r]]
  /\ first' = [first EXCEPT ![q] = first[r]]
  /\ UNCHANGED <<card, nin, nout, rx, tx, sy, rxFrames, txFrames, written, given>>

DropResource(r) ==
  /\ Quiet /\ r \in Registered
  /\ remove(r)
  /\ inbound' = [inbound EXCEPT ![r] = <<>>] /\ outbound' = [outbound EXCEPT ![r] = <<>>]
  /\ nicGot' = [nicGot EXCEPT ![r] = <<>>] /\ first' = [first EXCEPT ![r] = 0]
  /\ UNCHANGED <<card, nin, nout, rx, tx, sy, rxFrames, txFrames, written, given>>

Write(r, l) ==
  /\ Quiet /\ r \in Registered /\ Len(written) < MaxTx
  /\ LET f == Frame(Len(written) + 1, l)
     IN /\ outbound' = [outbound EXCEPT ![r] = Append(@, f)]
        /\ written' = Append(written, f)
  /\ Sync("write")
  /\ UNCHANGED <<card, resources, inbound, nin, nout, rx, tx, rxFrames, txFrames, nicGot, first, given>>

Read(r) ==
  /\ Quiet /\ r \in Registered
  /\ Sync(r)
  /\ UNCHANGED <<card, resources, inbound, outbound, nin, nout, rx, tx, histVars>>

(* on_irq acknowledges the interrupt and runs sync. *)
on_irq ==
  /\ Quiet
  /\ Sync("irq")
  /\ UNCHANGED <<card, resources, inbound, outbound, nin, nout, rx, tx, histVars>>

----------------------------------------------------------------------------
(* sync, first part: what the resources have to send goes to the driver. *)
Collect ==
  /\ sy.at = "collect"
  /\ nout' = nout \o FlattenSeq([i \in 1..Len(resources) |-> outbound[resources[i]]])
  /\ outbound' = [r \in Res |-> IF r \in Registered THEN <<>> ELSE outbound[r]]
  /\ sy' = [sy EXCEPT !.at = "send"]
  /\ UNCHANGED <<card, resources, inbound, nin, rx, tx, histVars>>

(* Mutant: the frame is written without a look at the descriptor's owner. *)
rtl_send_NoWait ==
  /\ card = "rtl8139" /\ sy.at = "send" /\ nout # <<>>
  /\ nout' = Tail(nout)
  /\ tx' = [tx EXCEPT !.desc[tx.i] = Head(nout), !.own[tx.i] = FALSE, !.i = (tx.i + 1) % TxRing]
  /\ UNCHANGED <<card, resources, inbound, outbound, nin, rx, sy, histVars>>

(* send_outbound of the RTL8139: waits until the card owns the descriptor no
   more, hands it the frame and goes to the next descriptor. *)
rtl_send ==
  /\ card = "rtl8139" /\ sy.at = "send" /\ nout # <<>>
  /\ nout' = Tail(nout)
  /\ IF Head(nout).len >= TooLong THEN UNCHANGED tx
     ELSE /\ tx.own[tx.i]
          /\ tx' = [tx EXCEPT !.desc[tx.i] = Head(nout), !.own[tx.i] = FALSE, !.i = (tx.i + 1) % TxRing]
  /\ UNCHANGED <<card, resources, inbound, outbound, nin, rx, sy, histVars>>

(* send_outbound of the 8254x: waits until the descriptor after the tail is
   not the head, fills the one at the tail and moves the tail. *)
intel_send ==
  /\ card = "intel8254x" /\ sy.at = "send" /\ nout # <<>>
  /\ LET tail == (tx.tdt + 1) % TxRing
     IN /\ tail # tx.tdh
        /\ tx' = IF Head(nout).len >= TooLong THEN tx
                 ELSE [tx EXCEPT !.desc[tx.tdt] = Head(nout), !.tdt = tail]
  /\ nout' = Tail(nout)
  /\ UNCHANGED <<card, resources, inbound, outbound, nin, rx, sy, histVars>>

SendDone ==
  /\ sy.at = "send" /\ nout = <<>>
  /\ sy' = [sy EXCEPT !.at = "receive"]
  /\ UNCHANGED <<card, resources, inbound, outbound, nin, nout, rx, tx, histVars>>

(* receive_inbound of the RTL8139: from where it stopped to where the card is,
   which is read once; the length in the buffer leads to the next frame. *)
rtl_frames[c \in 0..(Ring - 1)] ==
  IF c = rx.cbr THEN <<>> ELSE <<rx.mem[c]>> \o rtl_frames[Round(c + rx.mem[c].len + 1)]

rtl_receive ==
  /\ card = "rtl8139" /\ sy.at = "receive"
  /\ nin' = nin \o rtl_frames[rx.capr]
  /\ rx' = [rx EXCEPT !.capr = rx.cbr]
  /\ sy' = [sy EXCEPT !.at = "deliver"]
  /\ UNCHANGED <<card, resources, inbound, outbound, nout, tx, histVars>>

(* receive_inbound of the 8254x: every descriptor whose status says done, in
   the order of the ring; the status is cleared, the tail stays where it is. *)
intel_receive ==
  /\ card = "intel8254x" /\ sy.at = "receive"
  /\ nin' = nin \o SelectSeq([i \in 1..Ring |-> rx.mem[i - 1]], LAMBDA f : f # None)
  /\ rx' = [rx EXCEPT !.mem = [i \in 0..(Ring - 1) |-> None]]
  /\ sy' = [sy EXCEPT !.at = "deliver"]
  /\ UNCHANGED <<card, resources, inbound, outbound, nout, tx, histVars>>

(* sync, last part: every frame to every resource. The read that began the sync
   then takes the first frame of its queue, or lets others run and tries again. *)
Deliver ==
  /\ sy.at = "deliver"
  /\ LET queue == [r \in Res |-> IF r \in Registered THEN inbound[r] \o nin ELSE inbound[r]]
         reads == sy.by \in Res /\ queue[sy.by] # <<>>
     IN /\ inbound' = IF reads THEN [queue EXCEPT ![sy.by] = Tail(@)] ELSE queue
        /\ nicGot' = IF reads THEN [nicGot EXCEPT ![sy.by] = Append(@, Head(queue[sy.by]))] ELSE nicGot
  /\ given' = given + Len(nin)
  /\ nin' = <<>>
  /\ sy' = [at |-> "none", by |-> "none"]
  /\ UNCHANGED <<card, resources, outbound, nout, rx, tx, rxFrames, txFrames, written, first>>

NicNext ==
  \/ \E l \in Lengths : CardReceive(l)
  \/ CardTransmit
  \/ \E r \in Res : Open(r) \/ DropResource(r) \/ Read(r) \/ (\E l \in Lengths : Write(r, l))
  \/ \E r, q \in Res : Dup(r, q)
  \/ on_irq
  \/ Collect \/ rtl_send \/ intel_send \/ SendDone \/ rtl_receive \/ intel_receive \/ Deliver

NicSpec == NicInit /\ [][NicNext]_nicVars

----------------------------------------------------------------------------
(* Frames the card holds for the driver, in the order of their arrival. *)
InCard == IF card = "rtl8139" THEN rtl_frames[rx.capr]
          ELSE SelectSeq([i \in 1..Ring |-> rx.mem[i - 1]], LAMBDA f : f # None)

(* Every frame the card took reaches every resource that is registered when it
   is given out, once and in order: what a resource has read and has queued are
   the frames from its opening on; nothing is lost between card and driver. *)
EveryFrameToAll ==
  /\ \A r \in Registered : nicGot[r] \o inbound[r] = SubSeq(rxFrames, first[r] + 1, given)
  /\ SubSeq(rxFrames, 1, given) \o nin \o InCard = rxFrames

(* Frames handed to the card that are not on the wire yet. *)
OnCard == IF card = "rtl8139"
          THEN SelectSeq([k \in 1..TxRing |->
                            LET i == (tx.next + k - 1) % TxRing IN IF tx.own[i] THEN None ELSE tx.desc[i]],
                         LAMBDA f : f # None)
          ELSE [k \in 1..((tx.tdt - tx.tdh + TxRing) % TxRing) |-> tx.desc[(tx.tdh + k - 1) % TxRing]]

(* Every frame that was written, unless too long, goes out once and in order:
   no descriptor is filled again before the card has sent it. *)
WrittenIsSent ==
  LET waiting == FlattenSeq([i \in 1..Len(resources) |-> outbound[resources[i]]])
  IN SelectSeq(txFrames \o OnCard \o nout \o waiting, LAMBDA f : f.len < TooLong)
       = SelectSeq(written, LAMBDA f : f.len < TooLong)

============================================================================
