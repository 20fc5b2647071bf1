------------------------------ MODULE Channel -------------------------------
(***************************************************************************)
(* std::sync::mpsc of Redox (libstd/src/sync/mpsc): a linked queue with an *)
(* atomic head, which senders swap, and a tail of the receiver's own, in   *)
(* an Arc that the senders and the receiver share.                         *)
(*                                                                         *)
(* A message is the sender and a number.  Nodes are addresses: a node that *)
(* was freed can be handed out again.                                      *)
(***************************************************************************)
EXTENDS Integers, Sequences, FiniteSets

CONSTANTS Sender,
          Addr,      \* addresses of nodes
          Stub,      \* the address of the first node
          NULL,      \* no address
          MaxSends   \* bound on the messages of a sender

ASSUME ChannelAssumption == Stub \in Addr /\ NULL \notin Addr /\ MaxSends \in Nat

VARIABLES head,      \* Queue.head
          tail,      \* Queue.tail
          val, next, \* per address, the fields of the node there
          live,      \* addresses in use
          doing,        \* per sender, the next step of push
          node,      \* per sender, n of push
          before,      \* per sender, the local prev of push
          sent,      \* per sender, the messages sent
          recv,      \* the receiver: "idle", "load", "compare" or "gone"
          blocking,  \* the call is recv, not try_recv
          open,      \* senders that have not been dropped
          drop,      \* Queue::drop: "no", "free", "read", "end" or "fault"
          cur,       \* its local
          chain,     \* history: nodes from tail to head in the order of the swaps
          got        \* history: the message received last

channelVars == <<head, tail, val, next, live, doing, node, before, sent, recv, blocking,
                 open, drop, cur, chain, got>>
queueVars == <<head, tail, val, next, live, chain, got>>
senderVars == <<doing, node, before, sent>>
dropVars == <<drop, cur>>

Message == Sender \X (1..MaxSends)
None == <<>>     \* no message
Unset == NULL    \* a local that has no value yet

(* Queue::new.                                                               *)
ChannelInit ==
  /\ head = Stub /\ tail = Stub /\ live = {Stub}
  /\ val = [a \in Addr |-> None] /\ next = [a \in Addr |-> NULL]
  /\ doing = [s \in Sender |-> "idle"] /\ node = [s \in Sender |-> Unset]
  /\ before = [s \in Sender |-> Unset] /\ sent = [s \in Sender |-> 0]
  /\ recv = "idle" /\ blocking = FALSE /\ open = Sender
  /\ drop = "no" /\ cur = NULL
  /\ chain = <<Stub>> /\ got = None

-----------------------------------------------------------------------------
(* push: a node is made ...                                                  *)
NewNode(s, n) ==
  /\ doing[s] = "idle" /\ s \in open /\ sent[s] < MaxSends
  /\ n \notin live
  /\ live' = live \cup {n}
  /\ val' = [val EXCEPT ![n] = <<s, sent[s] + 1>>]
  /\ next' = [next EXCEPT ![n] = NULL]
  /\ node' = [node EXCEPT ![s] = n]
  /\ sent' = [sent EXCEPT ![s] = @ + 1]
  /\ doing' = [doing EXCEPT ![s] = "swap"]
  /\ UNCHANGED <<head, tail, chain, got, before, recv, blocking, open, drop, cur>>

(* Mutant: the head is read and written in two steps, and another sender's   *)
(* node gets lost in between.                                                *)
SwapHead_Racy(s) ==
  /\ doing[s] = "swap"
  /\ \E p \in {head, tail} : before' = [before EXCEPT ![s] = p]
  /\ head' = node[s]
  /\ chain' = Append(chain, node[s])
  /\ doing' = [doing EXCEPT ![s] = "link"]
  /\ UNCHANGED <<tail, val, next, live, got, node, sent, recv, blocking, open, drop, cur>>

(* ... made the head ...                                                     *)
SwapHead(s) ==
  /\ doing[s] = "swap"
  /\ before' = [before EXCEPT ![s] = head]
  /\ head' = node[s]
  /\ chain' = Append(chain, node[s])
  /\ doing' = [doing EXCEPT ![s] = "link"]
  /\ UNCHANGED <<tail, val, next, live, got, node, sent, recv, blocking, open, drop, cur>>

(* ... and linked to the node that was the head before.                      *)
Link(s) ==
  /\ doing[s] = "link"
  /\ next' = [next EXCEPT ![before[s]] = node[s]]
  /\ doing' = [doing EXCEPT ![s] = "idle"]
  /\ UNCHANGED <<head, tail, val, live, chain, got, node, before, sent, recv, blocking, open, drop, cur>>

-----------------------------------------------------------------------------
(* A call of try_recv or recv.                                               *)
Receive(b) ==
  /\ recv = "idle"
  /\ recv' = "load" /\ blocking' = b
  /\ UNCHANGED <<queueVars, senderVars, open, dropVars>>

(* Mutant: the wrong node is freed.                                          *)
PopData_Wrong(n) ==
  /\ recv = "load" /\ next[tail] # NULL /\ n = next[tail]
  /\ tail' = n /\ live' = live \ {n}
  /\ got' = val[n] /\ val' = [val EXCEPT ![n] = None]
  /\ chain' = Tail(chain)
  /\ recv' = "idle"
  /\ UNCHANGED <<head, next, senderVars, blocking, open, dropVars>>

(* pop, when the tail has a successor: the tail moves on, its node is freed  *)
(* and the message taken out of the successor.                               *)
PopData(n) ==
  /\ recv = "load" /\ next[tail] # NULL /\ n = next[tail]
  /\ tail' = n /\ live' = live \ {tail}
  /\ got' = val[n] /\ val' = [val EXCEPT ![n] = None]
  /\ chain' = Tail(chain)
  /\ recv' = "idle"
  /\ UNCHANGED <<head, next, senderVars, blocking, open, dropVars>>

PopNothing ==
  /\ recv = "load" /\ next[tail] = NULL
  /\ recv' = "compare"
  /\ UNCHANGED <<queueVars, senderVars, blocking, open, dropVars>>

(* Empty or Invalid: try_recv returns the same error, recv tries again.      *)
PopCompared ==
  /\ recv = "compare"
  /\ recv' = IF blocking THEN "load" ELSE "idle"
  /\ UNCHANGED <<queueVars, senderVars, blocking, open, dropVars>>

-----------------------------------------------------------------------------
(* The Arc: whoever drops its share last drops the queue.                    *)
Dropping(lastOne) ==
  /\ drop' = IF lastOne THEN "free" ELSE drop
  /\ cur' = IF lastOne THEN tail ELSE cur

DropSender(s) ==
  /\ s \in open /\ doing[s] = "idle"
  /\ open' = open \ {s}
  /\ Dropping(open' = {} /\ recv = "gone")
  /\ UNCHANGED <<queueVars, senderVars, recv, blocking>>

DropReceiver ==
  /\ recv = "idle"
  /\ recv' = "gone"
  /\ Dropping(open = {})
  /\ UNCHANGED <<queueVars, senderVars, blocking, open>>

(* Queue::drop: a node is freed, and then its next field is read: from a     *)
(* page that sys_unalloc has unmapped, or that somebody has mapped again.    *)
DropNode ==
  /\ drop = "free"
  /\ live' = live \ {cur}
  /\ drop' = "read"
  /\ UNCHANGED <<head, tail, val, next, chain, got, senderVars, recv, blocking, open, cur>>

DropNext ==
  /\ drop = "read"
  /\ \/ /\ cur' = next[cur]
        /\ drop' = IF cur' = NULL THEN "end" ELSE "free"
     \/ drop' = "fault" /\ UNCHANGED cur
  /\ UNCHANGED <<queueVars, senderVars, recv, blocking, open>>

SenderStep(s) == (\E n \in Addr : NewNode(s, n)) \/ SwapHead(s) \/ Link(s)
ReceiverStep == (\E n \in Addr : PopData(n)) \/ PopNothing \/ PopCompared

ChannelNext ==
  \/ \E s \in Sender : SenderStep(s) \/ DropSender(s)
  \/ \E b \in BOOLEAN : Receive(b)
  \/ ReceiverStep
  \/ DropReceiver
  \/ DropNode \/ DropNext

ChannelSpec == ChannelInit /\ [][ChannelNext]_channelVars

(* Threads in a call are scheduled; the receiver goes on receiving.          *)
Pushing(s) == SwapHead(s) \/ Link(s)
FairChannelSpec ==
  /\ ChannelSpec
  /\ \A s \in Sender : WF_channelVars(Pushing(s))
  /\ WF_channelVars(ReceiverStep) /\ WF_channelVars(Receive(TRUE))
-----------------------------------------------------------------------------
(* "Make sure the queue is coherent": the assertions of pop.                 *)
Coherent == recv = "load" /\ next[tail] # NULL =>
              val[tail] = None /\ val[next[tail]] # None

(* Nobody holds on to a node that was freed: what push writes to and what    *)
(* pop reads from is in use.                                                 *)
NoDanglingNode == drop = "no" =>
  /\ tail \in live /\ head \in live
  /\ \A s \in Sender : doing[s] = "link" => before[s] \in live /\ node[s] \in live

(* The channel is a queue: a message is in it from the swap of the head on,  *)
(* and messages are received in that order, each once.                       *)
Queued == [i \in 1..(Len(chain) - 1) |-> val[chain[i + 1]]]
Queue == INSTANCE Fifo WITH inside <- Queued, last <- got
ImplementsFifo == Queue!FifoSpec

(* Nodes in use are those of the queue and those about to be pushed.         *)
NoNodeLeaks == drop = "no" =>
  live = {chain[i] : i \in 1..Len(chain)}
           \cup {node[s] : s \in {x \in Sender : doing[x] = "swap"}}

(* The three together, while senders, the receiver and the allocator, which  *)
(* gives freed nodes out again, interleave.                                  *)
QueueSound == Coherent /\ NoDanglingNode /\ NoNodeLeaks

(* A message sent is received, by a receiver that goes on receiving.         *)
InQueue(m) == \E i \in 1..Len(chain) : val[chain[i]] = m
Received == \A m \in Message : (InQueue(m) /\ recv # "gone") ~>
                                 (~ InQueue(m) \/ recv = "gone")
=============================================================================
