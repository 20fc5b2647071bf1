--------------------------- MODULE ChannelProofs ---------------------------
(***************************************************************************)
(* Proofs about Channel for every number of senders, messages and          *)
(* addresses, whichever address the allocator hands out next.  The nodes   *)
(* of the queue are the history chain; what the proofs need to know is     *)
(* which links of it are still to be written, and by whom: a link that a   *)
(* sender has not written yet is NULL, so the receiver never goes past it  *)
(* and never frees the node that the sender is about to write to.          *)
(***************************************************************************)
EXTENDS Channel, SequenceTheorems, TLAPS

(* Types.                                                                    *)
CTypes ==
  /\ head \in Addr /\ tail \in Addr /\ live \subseteq Addr
  /\ val \in [Addr -> Message \cup {None}] /\ next \in [Addr -> Addr \cup {NULL}]
  /\ doing \in [Sender -> {"idle", "swap", "link"}]
  /\ node \in [Sender -> Addr \cup {NULL}] /\ before \in [Sender -> Addr \cup {NULL}]
  /\ sent \in [Sender -> 0..MaxSends] /\ open \subseteq Sender
  /\ recv \in {"idle", "load", "compare", "gone"}
  /\ drop \in {"no", "free", "read", "end", "fault"}

(* The chain leads from tail to head and has no node twice.                  *)
ChainShape ==
  /\ chain \in Seq(Addr) /\ Len(chain) \in Nat \ {0}
  /\ chain[1] = tail /\ chain[Len(chain)] = head
  /\ \A i, j \in 1..Len(chain) : chain[i] = chain[j] => i = j

(* Sender s has yet to write the link from node i of the chain.              *)
Links(s, i) == doing[s] = "link" /\ before[s] = chain[i] /\ node[s] = chain[i + 1]

(* Links are written, or some sender is about to write them; and a sender    *)
(* about to write one is at its place in the chain, with a node of its own.  *)
ChainLinks ==
  /\ next[head] = NULL
  /\ \A i \in 1..(Len(chain) - 1) :
       \/ next[chain[i]] = chain[i + 1]
       \/ next[chain[i]] = NULL /\ \E s \in Sender : Links(s, i)
  /\ \A s \in Sender : doing[s] = "link" =>
       \E i \in 1..(Len(chain) - 1) : Links(s, i) /\ next[chain[i]] = NULL
  /\ \A s, u \in Sender : doing[s] = "link" /\ doing[u] = "link" /\ node[s] = node[u] => s = u

(* The first node has given its message away, the others have one each.      *)
ChainValues ==
  /\ val[tail] = None
  /\ \A i \in 2..Len(chain) : val[chain[i]] \in Message

(* A node that is not in the queue yet.                                      *)
Fresh(s) ==
  /\ node[s] \in Addr /\ next[node[s]] = NULL /\ val[node[s]] \in Message
  /\ \A i \in 1..Len(chain) : chain[i] # node[s]
FreshNodes ==
  /\ \A s \in Sender : doing[s] = "swap" => Fresh(s)
  /\ \A s, u \in Sender : doing[s] = "swap" /\ doing[u] = "swap" /\ node[s] = node[u] => s = u

(* The queue is dropped when nobody can use it any more.                     *)
DropLast ==
  /\ \A s \in Sender : s \notin open => doing[s] = "idle"
  /\ drop # "no" => open = {} /\ recv = "gone"

CInv == CTypes /\ ChainShape /\ ChainLinks /\ ChainValues /\ FreshNodes /\ DropLast /\ NoNodeLeaks

-----------------------------------------------------------------------------
(* None is told from every message.                                          *)
LEMMA NoneIsNoMessage == None \notin Message
BY DEF None, Message

(* A sequence is the function of its positions.                              *)
LEMMA SeqAsFunction ==
  ASSUME NEW S, NEW q \in Seq(S), NEW n, n = Len(q)
  PROVE  q = [j \in 1..n |-> q[j]]
<1>1. q \in [1..Len(q) -> S]
  BY LenProperties
<1> QED BY <1>1

(* The queue begins with its stub.                                           *)
LEMMA CInit == ChannelInit => CInv
<1> SUFFICES ASSUME ChannelInit PROVE CInv
  OBVIOUS
<1> USE ChannelAssumption DEF ChannelInit
<1>1. CTypes
  BY DEF CTypes, Unset
<1>2. chain = <<Stub>> /\ Len(chain) = 1 /\ chain[1] = Stub
  OBVIOUS
<1>3. ChainShape
  BY <1>2 DEF ChainShape
<1>4. ChainLinks
  BY <1>2 DEF ChainLinks
<1>5. ChainValues
  BY <1>2 DEF ChainValues
<1>6. FreshNodes /\ DropLast
  BY DEF FreshNodes, DropLast
<1>7. NoNodeLeaks
  <2>1. {chain[i] : i \in 1..Len(chain)} = {Stub}
    BY <1>2
  <2>2. {node[s] : s \in {x \in Sender : doing[x] = "swap"}} = {}
    OBVIOUS
  <2> QED BY <2>1, <2>2 DEF NoNodeLeaks
<1> QED BY <1>1, <1>3, <1>4, <1>5, <1>6, <1>7 DEF CInv

(* The sender is open, or the receiver is there: the queue is not dropped.   *)
LEMMA NotDropped ==
  ASSUME CInv, (\E s \in Sender : s \in open \/ doing[s] # "idle") \/ recv # "gone"
  PROVE  drop = "no"
BY DEF CInv, DropLast

(* Steps that leave the queue and the senders alone.                         *)
LEMMA QuietStep ==
  ASSUME CInv, UNCHANGED <<head, tail, val, next, chain, got, senderVars>>,
         live' \subseteq Addr, drop' = "no" => live' = live /\ drop = "no",
         open' \subseteq Sender, \A s \in Sender : s \notin open' => doing[s] = "idle",
         recv' \in {"idle", "load", "compare", "gone"},
         drop' \in {"no", "free", "read", "end", "fault"},
         drop' # "no" => open' = {} /\ recv' = "gone"
  PROVE  CInv'
<1> USE DEF senderVars
<1>1. CTypes'
  BY DEF CInv, CTypes
<1>2. ChainShape' /\ ChainValues'
  BY DEF CInv, ChainShape, ChainValues
<1>3. ChainLinks' /\ FreshNodes'
  BY DEF CInv, ChainLinks, Links, FreshNodes, Fresh
<1>4. DropLast'
  BY DEF CInv, DropLast
<1>5. NoNodeLeaks'
  BY DEF CInv, NoNodeLeaks
<1> QED BY <1>1, <1>2, <1>3, <1>4, <1>5 DEF CInv

-----------------------------------------------------------------------------
(* push makes a node, at an address that nobody uses.                        *)
LEMMA NewNodeStep ==
  ASSUME CInv, NEW s \in Sender, NEW n \in Addr, NewNode(s, n)
  PROVE  CInv' /\ Queued' = Queued
<1>0. /\ doing[s] = "idle" /\ s \in open /\ sent[s] < MaxSends /\ n \notin live
      /\ live' = live \cup {n}
      /\ val' = [val EXCEPT ![n] = <<s, sent[s] + 1>>]
      /\ next' = [next EXCEPT ![n] = NULL]
      /\ node' = [node EXCEPT ![s] = n]
      /\ sent' = [sent EXCEPT ![s] = @ + 1]
      /\ doing' = [doing EXCEPT ![s] = "swap"]
      /\ UNCHANGED <<head, tail, chain, got, before, recv, blocking, open, drop, cur>>
  BY DEF NewNode
<1>t. CTypes /\ ChainShape /\ ChainLinks /\ ChainValues /\ FreshNodes /\ DropLast
  BY DEF CInv
<1>1. /\ drop = "no"
      /\ live = {chain[i] : i \in 1..Len(chain)}
                  \cup {node[u] : u \in {x \in Sender : doing[x] = "swap"}}
  BY <1>0, NotDropped DEF CInv, NoNodeLeaks
<1>2. \A i \in 1..Len(chain) : chain[i] # n /\ chain[i] \in Addr
  BY <1>0, <1>1, <1>t, ElementOfSeq DEF ChainShape
<1>3. \A u \in Sender : doing[u] = "swap" => node[u] # n
  BY <1>0, <1>1
<1>4. <<s, sent[s] + 1>> \in Message
  BY <1>0, <1>t, ChannelAssumption DEF Message, CTypes
<1>5. /\ \A a \in Addr : a # n => val'[a] = val[a] /\ next'[a] = next[a]
      /\ val'[n] = <<s, sent[s] + 1>> /\ next'[n] = NULL
      /\ \A u \in Sender : u # s => node'[u] = node[u] /\ doing'[u] = doing[u]
      /\ node'[s] = n /\ doing'[s] = "swap"
  BY <1>0, <1>t DEF CTypes
<1>6. CTypes'
  BY <1>0, <1>t, <1>4, ChannelAssumption DEF CTypes
<1>7. ChainShape' /\ ChainValues'
  <2>1. ChainShape'
    BY <1>0, <1>t DEF ChainShape
  <2>2. tail # n /\ tail \in Addr
    BY <1>2, <1>t DEF ChainShape
  <2> QED BY <2>1, <2>2, <1>0, <1>2, <1>5, <1>t DEF ChainValues, ChainShape
<1>8. ChainLinks'
  <2>1. \A u \in Sender, i \in 1..(Len(chain) - 1) : Links(u, i)' <=> Links(u, i)
    BY <1>0, <1>5 DEF Links
  <2>2. next'[head] = NULL
    BY <1>2, <1>5, <1>t DEF ChainShape, ChainLinks
  <2>3. \A i \in 1..(Len(chain) - 1) : next'[chain[i]] = next[chain[i]]
    BY <1>2, <1>5, <1>t DEF ChainShape
  <2>4. \A i \in 1..(Len(chain) - 1) :
          \/ next'[chain[i]] = chain[i + 1]
          \/ next'[chain[i]] = NULL /\ \E u \in Sender : Links(u, i)'
    BY <2>1, <2>3, <1>t DEF ChainLinks
  <2>5. \A u \in Sender : doing'[u] = "link" =>
          \E i \in 1..(Len(chain) - 1) : Links(u, i)' /\ next'[chain[i]] = NULL
    BY <2>1, <2>3, <1>t, <1>5 DEF ChainLinks
  <2>6. \A u, v \in Sender : doing'[u] = "link" /\ doing'[v] = "link" /\ node'[u] = node'[v] => u = v
    BY <1>5, <1>t DEF ChainLinks
  <2> QED BY <2>2, <2>4, <2>5, <2>6, <1>0 DEF ChainLinks
<1>9. FreshNodes'
  <2>1. Fresh(s)'
    BY <1>0, <1>2, <1>4, <1>5 DEF Fresh
  <2>2. ASSUME NEW u \in Sender, u # s, doing'[u] = "swap" PROVE Fresh(u)'
    <3>1. Fresh(u) /\ node'[u] = node[u] /\ node[u] # n
      BY <2>2, <1>3, <1>5, <1>t DEF FreshNodes
    <3> QED BY <3>1, <1>0, <1>5 DEF Fresh
  <2>3. \A u, v \in Sender : doing'[u] = "swap" /\ doing'[v] = "swap" /\ node'[u] = node'[v] => u = v
    BY <1>3, <1>5, <1>t DEF FreshNodes
  <2> QED BY <2>1, <2>2, <2>3 DEF FreshNodes
<1>10. DropLast'
  BY <1>0, <1>5, <1>t DEF DropLast
<1>11. NoNodeLeaks'
  <2>1. {node'[u] : u \in {x \in Sender : doing'[x] = "swap"}}
          = {node[u] : u \in {x \in Sender : doing[x] = "swap"}} \cup {n}
    BY <1>0, <1>5
  <2> QED BY <2>1, <1>0, <1>1 DEF NoNodeLeaks
<1>12. Queued' = Queued
  BY <1>0, <1>2, <1>5, <1>t DEF Queued, ChainShape
<1> QED BY <1>6, <1>7, <1>8, <1>9, <1>10, <1>11, <1>12 DEF CInv

(* The node becomes the head, and the sender remembers the head before it.   *)
LEMMA SwapHeadStep ==
  ASSUME CInv, NEW s \in Sender, SwapHead(s)
  PROVE  /\ CInv' /\ val[node[s]] \in Message
         /\ Queued' = Append(Queued, val[node[s]])
<1>0. /\ doing[s] = "swap" /\ head' = node[s] /\ chain' = Append(chain, node[s])
      /\ before' = [before EXCEPT ![s] = head]
      /\ doing' = [doing EXCEPT ![s] = "link"]
      /\ UNCHANGED <<tail, val, next, live, got, node, sent, recv, blocking, open, drop, cur>>
  BY DEF SwapHead
<1>t. CTypes /\ ChainShape /\ ChainLinks /\ ChainValues /\ FreshNodes /\ DropLast
  BY DEF CInv
<1>1. Fresh(s)
  BY <1>0, <1>t DEF FreshNodes
<1>2. /\ chain' \in Seq(Addr) /\ Len(chain') = Len(chain) + 1
      /\ \A i \in 1..Len(chain) : chain'[i] = chain[i]
      /\ chain'[Len(chain) + 1] = node[s]
  BY <1>0, <1>1, <1>t DEF Fresh, ChainShape
<1>3. Len(chain) \in Nat \ {0} /\ chain[Len(chain)] = head /\ chain[1] = tail
  BY <1>t DEF ChainShape
<1>4. /\ doing'[s] = "link" /\ before'[s] = head
      /\ \A u \in Sender : u # s => doing'[u] = doing[u] /\ before'[u] = before[u]
  BY <1>0, <1>t DEF CTypes
<1>5. CTypes'
  BY <1>0, <1>1, <1>t DEF CTypes, Fresh
<1>6. ChainShape'
  <2>1. \A i, j \in 1..Len(chain') : chain'[i] = chain'[j] => i = j
    <3> SUFFICES ASSUME NEW i \in 1..Len(chain'), NEW j \in 1..Len(chain'), chain'[i] = chain'[j]
                 PROVE  i = j
      OBVIOUS
    <3>1. CASE i \in 1..Len(chain) /\ j \in 1..Len(chain)
      BY <3>1, <1>2, <1>t DEF ChainShape
    <3>2. CASE i = Len(chain) + 1 /\ j \in 1..Len(chain)
      BY <3>2, <1>1, <1>2 DEF Fresh
    <3>3. CASE j = Len(chain) + 1 /\ i \in 1..Len(chain)
      BY <3>3, <1>1, <1>2 DEF Fresh
    <3> QED BY <3>1, <3>2, <3>3, <1>2, <1>3
  <2> QED BY <2>1, <1>0, <1>2, <1>3 DEF ChainShape
<1>7. ChainLinks'
  <2>k. PICK k \in Nat : k = Len(chain)
    BY <1>3
  <2>1. \A u \in Sender, i \in 1..(Len(chain) - 1) : Links(u, i) => Links(u, i)'
    <3> SUFFICES ASSUME NEW u \in Sender, NEW i \in 1..(Len(chain) - 1), Links(u, i)
                 PROVE  Links(u, i)'
      OBVIOUS
    <3>1. u # s /\ i \in 1..Len(chain) /\ i + 1 \in 1..Len(chain)
      BY <1>0, <1>3 DEF Links
    <3> QED BY <3>1, <1>0, <1>2, <1>4 DEF Links
  <2>2. Links(s, k)' /\ next'[chain'[k]] = NULL
    <3>1. next[head] = NULL /\ chain'[k] = head /\ chain'[k + 1] = node[s]
      BY <2>k, <1>2, <1>3, <1>t DEF ChainLinks
    <3> QED BY <3>1, <1>0, <1>4 DEF Links
  <2>3. next'[head'] = NULL
    BY <1>0, <1>1 DEF Fresh
  <2>4. ASSUME NEW i \in 1..(Len(chain') - 1)
        PROVE  \/ next'[chain'[i]] = chain'[i + 1]
               \/ next'[chain'[i]] = NULL /\ \E u \in Sender : Links(u, i)'
    <3>1. CASE i = Len(chain)
      BY <3>1, <2>2, <2>k
    <3>2. CASE i # Len(chain)
      <4>1. i \in 1..(Len(chain) - 1) /\ i + 1 \in 1..Len(chain) /\ i \in 1..Len(chain)
        BY <3>2, <1>2, <1>3
      <4>2. chain'[i] = chain[i] /\ chain'[i + 1] = chain[i + 1] /\ next' = next
        BY <4>1, <1>0, <1>2
      <4>3. \/ next[chain[i]] = chain[i + 1]
            \/ next[chain[i]] = NULL /\ \E u \in Sender : Links(u, i)
        BY <4>1, <1>t DEF ChainLinks
      <4> QED BY <4>1, <4>2, <4>3, <2>1
    <3> QED BY <3>1, <3>2
  <2>5. ASSUME NEW u \in Sender, doing'[u] = "link"
        PROVE  \E i \in 1..(Len(chain') - 1) : Links(u, i)' /\ next'[chain'[i]] = NULL
    <3>1. CASE u = s
      <4>1. k \in 1..(Len(chain') - 1)
        BY <2>k, <1>2, <1>3
      <4> QED BY <3>1, <4>1, <2>2
    <3>2. CASE u # s
      <4>1. PICK i \in 1..(Len(chain) - 1) : Links(u, i) /\ next[chain[i]] = NULL
        BY <2>5, <3>2, <1>4, <1>t DEF ChainLinks
      <4>2. i \in 1..(Len(chain') - 1) /\ chain'[i] = chain[i] /\ next' = next
        BY <1>0, <1>2, <1>3
      <4> QED BY <4>1, <4>2, <2>1
    <3> QED BY <3>1, <3>2
  <2>6. ASSUME NEW u \in Sender, NEW v \in Sender,
               doing'[u] = "link", doing'[v] = "link", node'[u] = node'[v]
        PROVE  u = v
    <3>1. ASSUME NEW w \in Sender, w # s, doing'[w] = "link" PROVE node[w] # node[s]
      <4>1. PICK i \in 1..(Len(chain) - 1) : Links(w, i)
        BY <3>1, <1>4, <1>t DEF ChainLinks
      <4>2. i + 1 \in 1..Len(chain) /\ node[w] = chain[i + 1]
        BY <4>1, <1>3 DEF Links
      <4> QED BY <4>2, <1>1 DEF Fresh
    <3> QED BY <3>1, <2>6, <1>0, <1>4, <1>t DEF ChainLinks
  <2> QED BY <2>3, <2>4, <2>5, <2>6 DEF ChainLinks
<1>8. ChainValues'
  <2>1. ASSUME NEW i \in 2..Len(chain') PROVE val'[chain'[i]] \in Message
    <3>1. CASE i = Len(chain) + 1
      BY <3>1, <1>0, <1>1, <1>2 DEF Fresh
    <3>2. CASE i # Len(chain) + 1
      <4>1. i \in 2..Len(chain) /\ i \in 1..Len(chain)
        BY <3>2, <1>2, <1>3
      <4> QED BY <4>1, <1>0, <1>2, <1>t DEF ChainValues
    <3> QED BY <3>1, <3>2
  <2> QED BY <2>1, <1>0, <1>t DEF ChainValues
<1>9. FreshNodes'
  <2>1. ASSUME NEW u \in Sender, doing'[u] = "swap" PROVE Fresh(u)'
    <3>1. u # s /\ doing[u] = "swap"
      BY <2>1, <1>4
    <3>2. Fresh(u) /\ node[u] # node[s]
      BY <3>1, <1>0, <1>t DEF FreshNodes
    <3>3. \A i \in 1..Len(chain') : chain'[i] # node[u]
      BY <3>2, <1>2, <1>3 DEF Fresh
    <3> QED BY <3>2, <3>3, <1>0 DEF Fresh
  <2> QED BY <2>1, <1>0, <1>4, <1>t DEF FreshNodes
<1>10. DropLast'
  BY <1>0, <1>4, <1>t DEF DropLast
<1>11. NoNodeLeaks'
  <2>1. {chain'[i] : i \in 1..Len(chain')} = {chain[i] : i \in 1..Len(chain)} \cup {node[s]}
    <3>1. \A i \in 1..Len(chain') : i \in 1..Len(chain) \/ i = Len(chain) + 1
      BY <1>2, <1>3
    <3>2. \A i \in 1..Len(chain) : i \in 1..Len(chain')
      BY <1>2, <1>3
    <3>3. Len(chain) + 1 \in 1..Len(chain')
      BY <1>2, <1>3
    <3> QED BY <3>1, <3>2, <3>3, <1>2
  <2>2. {node[u] : u \in {x \in Sender : doing[x] = "swap"}}
          = {node'[u] : u \in {x \in Sender : doing'[x] = "swap"}} \cup {node[s]}
    BY <1>0, <1>4
  <2> QED BY <2>1, <2>2, <1>0 DEF CInv, NoNodeLeaks
<1>12. Queued' = Append(Queued, val[node[s]])
  <2>1. Queued \in Seq(Message) /\ Len(Queued) = Len(chain) - 1
    <3>1. \A i \in 1..(Len(chain) - 1) : val[chain[i + 1]] \in Message
      BY <1>3, <1>t DEF ChainValues
    <3> QED BY <3>1, <1>3 DEF Queued
  <2>2. \A i \in 1..(Len(chain) - 1) : Queued[i] = val[chain[i + 1]]
    BY DEF Queued
  <2>3. Queued' = [i \in 1..Len(chain) |-> val[chain'[i + 1]]]
    BY <1>0, <1>2, <1>3 DEF Queued
  <2>4. \A i \in 1..Len(chain) : val[chain'[i + 1]] = Append(Queued, val[node[s]])[i]
    <3> SUFFICES ASSUME NEW i \in 1..Len(chain)
                 PROVE  val[chain'[i + 1]] = Append(Queued, val[node[s]])[i]
      OBVIOUS
    <3>1. CASE i = Len(chain)
      BY <3>1, <2>1, <1>2, <1>3
    <3>2. CASE i # Len(chain)
      <4>1. i \in 1..(Len(chain) - 1) /\ i + 1 \in 1..Len(chain)
        BY <3>2, <1>3
      <4> QED BY <4>1, <2>1, <2>2, <1>2
    <3> QED BY <3>1, <3>2
  <2>5. /\ Append(Queued, val[node[s]]) \in Seq(Message)
        /\ Len(Append(Queued, val[node[s]])) = Len(chain)
    BY <2>1, <1>1, <1>3 DEF Fresh
  <2> QED BY <2>3, <2>4, <2>5
<1>13. val[node[s]] \in Message
  BY <1>1 DEF Fresh
<1> QED BY <1>5, <1>6, <1>7, <1>8, <1>9, <1>10, <1>11, <1>12, <1>13 DEF CInv

(* The link is written.                                                      *)
LEMMA LinkStep ==
  ASSUME CInv, NEW s \in Sender, Link(s)
  PROVE  CInv' /\ Queued' = Queued
<1>0. /\ doing[s] = "link" /\ next' = [next EXCEPT ![before[s]] = node[s]]
      /\ doing' = [doing EXCEPT ![s] = "idle"]
      /\ UNCHANGED <<head, tail, val, live, chain, got, node, before, sent, recv, blocking, open, drop, cur>>
  BY DEF Link
<1>t. CTypes /\ ChainShape /\ ChainLinks /\ ChainValues /\ FreshNodes /\ DropLast
  BY DEF CInv
<1>1. PICK k \in 1..(Len(chain) - 1) : Links(s, k) /\ next[chain[k]] = NULL
  BY <1>0, <1>t DEF ChainLinks
<1>2. /\ Len(chain) \in Nat \ {0} /\ k \in 1..Len(chain) /\ k + 1 \in 1..Len(chain)
      /\ \A i \in 1..Len(chain) : chain[i] \in Addr
  BY <1>t DEF ChainShape
<1>3. before[s] = chain[k] /\ node[s] = chain[k + 1]
  BY <1>1 DEF Links
<1>4. /\ next'[chain[k]] = chain[k + 1]
      /\ \A a \in Addr : a # chain[k] => next'[a] = next[a]
  BY <1>0, <1>2, <1>3, <1>t DEF CTypes
<1>5. doing'[s] = "idle" /\ \A u \in Sender : u # s => doing'[u] = doing[u]
  BY <1>0, <1>t DEF CTypes
<1>6. CTypes'
  BY <1>0, <1>2, <1>3, <1>t DEF CTypes
<1>7. \A i \in 1..Len(chain) : i # k => next'[chain[i]] = next[chain[i]]
  BY <1>2, <1>4, <1>t DEF ChainShape
<1>8. ASSUME NEW u \in Sender, u # s, NEW i \in 1..(Len(chain) - 1), Links(u, i)
      PROVE  i # k /\ Links(u, i)'
  <2>1. i # k
    BY <1>8, <1>0, <1>3, <1>t DEF Links, ChainLinks
  <2> QED BY <2>1, <1>8, <1>0, <1>5 DEF Links
<1>9. ChainLinks'
  <2>1. next'[head] = NULL
    BY <1>2, <1>7, <1>t DEF ChainShape, ChainLinks
  <2>2. ASSUME NEW i \in 1..(Len(chain) - 1)
        PROVE  \/ next'[chain[i]] = chain[i + 1]
               \/ next'[chain[i]] = NULL /\ \E u \in Sender : Links(u, i)'
    <3>1. CASE i = k
      BY <3>1, <1>4
    <3>2. CASE i # k
      <4>1. next'[chain[i]] = next[chain[i]]
        BY <3>2, <1>2, <1>7
      <4>2. ~ Links(s, i)
        BY <3>2, <1>2, <1>3, <1>t DEF Links, ChainShape
      <4> QED BY <4>1, <4>2, <1>8, <1>t DEF ChainLinks
    <3> QED BY <3>1, <3>2
  <2>3. ASSUME NEW u \in Sender, doing'[u] = "link"
        PROVE  \E i \in 1..(Len(chain) - 1) : Links(u, i)' /\ next'[chain[i]] = NULL
    <3>1. u # s /\ doing[u] = "link"
      BY <2>3, <1>5
    <3>2. PICK i \in 1..(Len(chain) - 1) : Links(u, i) /\ next[chain[i]] = NULL
      BY <3>1, <1>t DEF ChainLinks
    <3>3. i # k /\ Links(u, i)' /\ i \in 1..Len(chain)
      BY <3>1, <3>2, <1>8, <1>2
    <3> QED BY <3>2, <3>3, <1>7
  <2>4. \A u, v \in Sender : doing'[u] = "link" /\ doing'[v] = "link" /\ node'[u] = node'[v] => u = v
    BY <1>0, <1>5, <1>t DEF ChainLinks
  <2> QED BY <2>1, <2>2, <2>3, <2>4, <1>0 DEF ChainLinks
<1>10. FreshNodes'
  <2>1. ASSUME NEW u \in Sender, doing'[u] = "swap" PROVE Fresh(u)'
    <3>1. u # s /\ Fresh(u)
      BY <2>1, <1>5, <1>t DEF FreshNodes
    <3> QED BY <3>1, <1>0, <1>2, <1>4 DEF Fresh
  <2> QED BY <2>1, <1>0, <1>5, <1>t DEF FreshNodes
<1>11. ChainShape' /\ ChainValues' /\ DropLast' /\ Queued' = Queued
  BY <1>0, <1>5, <1>t DEF ChainShape, ChainValues, DropLast, Queued
<1>12. NoNodeLeaks'
  <2>1. {u \in Sender : doing'[u] = "swap"} = {u \in Sender : doing[u] = "swap"}
    BY <1>0, <1>5
  <2> QED BY <2>1, <1>0 DEF CInv, NoNodeLeaks
<1> QED BY <1>6, <1>9, <1>10, <1>11, <1>12 DEF CInv

(* The receiver moves on: it frees the tail and takes the message out of the *)
(* next node.  Nobody is about to write to the node that it frees.           *)
LEMMA PopDataStep ==
  ASSUME CInv, NEW n \in Addr, PopData(n)
  PROVE  /\ CInv' /\ Queued # <<>>
         /\ got' = Head(Queued) /\ Queued' = Tail(Queued)
<1>0. /\ recv = "load" /\ next[tail] # NULL /\ n = next[tail]
      /\ tail' = n /\ live' = live \ {tail}
      /\ got' = val[n] /\ val' = [val EXCEPT ![n] = None]
      /\ chain' = Tail(chain) /\ recv' = "idle"
      /\ UNCHANGED <<head, next, senderVars, blocking, open, dropVars>>
  BY DEF PopData
<1>s. UNCHANGED <<doing, node, before, sent, drop, cur>>
  BY <1>0 DEF senderVars, dropVars
<1>t. CTypes /\ ChainShape /\ ChainLinks /\ ChainValues /\ FreshNodes /\ DropLast
  BY DEF CInv
<1>1. /\ Len(chain) \in Nat /\ Len(chain) > 1
      /\ chain[1] = tail /\ chain[Len(chain)] = head
      /\ \A i \in 1..Len(chain) : chain[i] \in Addr
  BY <1>0, <1>t DEF ChainShape, ChainLinks
<1>2. n = chain[2] /\ 1 \in 1..Len(chain) /\ 2 \in 1..Len(chain)
  <2>1. 1 \in 1..(Len(chain) - 1) /\ 1 + 1 = 2
    BY <1>1
  <2>2. next[chain[1]] = chain[2]
    BY <2>1, <1>0, <1>1, <1>t DEF ChainLinks
  <2> QED BY <2>2, <1>0, <1>1
<1>3. /\ chain' \in Seq(Addr) /\ Len(chain') = Len(chain) - 1
      /\ \A i \in 1..Len(chain') : chain'[i] = chain[i + 1] /\ i + 1 \in 2..Len(chain)
  BY <1>0, <1>1, <1>t DEF ChainShape
<1>4. \A i, j \in 1..Len(chain) : chain[i] = chain[j] => i = j
  BY <1>t DEF ChainShape
<1>5. val'[n] = None /\ \A a \in Addr : a # n => val'[a] = val[a]
  BY <1>0, <1>t DEF CTypes
<1>6. CTypes'
  BY <1>0, <1>s, <1>t DEF CTypes
<1>7. ChainShape'
  <2>1. chain'[1] = n /\ chain'[Len(chain')] = head
    <3>1. 1 \in 1..Len(chain') /\ Len(chain') \in 1..Len(chain')
      BY <1>1, <1>3
    <3>2. chain'[1] = chain[1 + 1]
      BY <3>1, <1>3
    <3>3. chain'[Len(chain')] = chain[Len(chain') + 1]
      BY <3>1, <1>3
    <3> QED BY <3>2, <3>3, <1>1, <1>2, <1>3
  <2>2. ASSUME NEW i \in 1..Len(chain'), NEW j \in 1..Len(chain'), chain'[i] = chain'[j]
        PROVE  i = j
    <3>1. i + 1 \in 1..Len(chain) /\ j + 1 \in 1..Len(chain) /\ chain[i + 1] = chain[j + 1]
      BY <2>2, <1>1, <1>3
    <3>2. i + 1 = j + 1
      BY <3>1, <1>4
    <3> QED BY <3>2
  <2> QED BY <2>1, <2>2, <1>0, <1>1, <1>3 DEF ChainShape
<1>8. ASSUME NEW u \in Sender, NEW i \in 1..(Len(chain) - 1), Links(u, i), i # 1
      PROVE  i - 1 \in 1..(Len(chain') - 1) /\ Links(u, i - 1)' /\ chain'[i - 1] = chain[i]
  <2>1. i - 1 \in 1..(Len(chain') - 1) /\ i - 1 \in 1..Len(chain') /\ i \in 1..Len(chain')
    BY <1>1, <1>3, <1>8
  <2>2. chain'[i - 1] = chain[i - 1 + 1] /\ chain'[i - 1 + 1] = chain[i + 1] /\ i - 1 + 1 = i
    BY <2>1, <1>3
  <2> QED BY <2>1, <2>2, <1>8, <1>s DEF Links
<1>9. ChainLinks'
  <2>1. ASSUME NEW i \in 1..(Len(chain') - 1)
        PROVE  \/ next'[chain'[i]] = chain'[i + 1]
               \/ next'[chain'[i]] = NULL /\ \E u \in Sender : Links(u, i)'
    <3>1. /\ i + 1 \in 1..(Len(chain) - 1) /\ i + 1 # 1 /\ i + 1 - 1 = i
          /\ i \in 1..Len(chain') /\ i + 1 \in 1..Len(chain')
      BY <1>1, <1>3
    <3>2. chain'[i] = chain[i + 1] /\ chain'[i + 1] = chain[i + 1 + 1] /\ next' = next
      BY <3>1, <1>0, <1>3
    <3>3. \/ next[chain[i + 1]] = chain[i + 1 + 1]
          \/ next[chain[i + 1]] = NULL /\ \E u \in Sender : Links(u, i + 1)
      BY <3>1, <1>t DEF ChainLinks
    <3>4. ASSUME NEW u \in Sender, Links(u, i + 1) PROVE Links(u, i)'
      BY <3>2, <3>4, <1>s DEF Links
    <3> QED BY <3>2, <3>3, <3>4
  <2>2. ASSUME NEW u \in Sender, doing'[u] = "link"
        PROVE  \E i \in 1..(Len(chain') - 1) : Links(u, i)' /\ next'[chain'[i]] = NULL
    <3>1. PICK i \in 1..(Len(chain) - 1) : Links(u, i) /\ next[chain[i]] = NULL
      BY <2>2, <1>s, <1>t DEF ChainLinks
    <3>2. i # 1
      BY <3>1, <1>0, <1>1
    <3>3. PICK j \in 1..(Len(chain') - 1) : j = i - 1
      BY <3>1, <3>2, <1>8
    <3>4. Links(u, j)' /\ chain'[j] = chain[i]
      BY <3>1, <3>2, <3>3, <1>8
    <3> QED BY <3>1, <3>4, <1>0
  <2> QED BY <2>1, <2>2, <1>0, <1>s, <1>t DEF ChainLinks
<1>10. ChainValues'
  <2>1. ASSUME NEW i \in 2..Len(chain') PROVE val'[chain'[i]] \in Message
    <3>1. /\ i \in 1..Len(chain') /\ i + 1 \in 2..Len(chain)
          /\ i + 1 \in 1..Len(chain) /\ i + 1 # 2
      BY <1>1, <1>3
    <3>2. chain'[i] = chain[i + 1] /\ chain[i + 1] # n /\ chain[i + 1] \in Addr
      BY <3>1, <1>1, <1>2, <1>3, <1>4
    <3> QED BY <3>1, <3>2, <1>5, <1>t DEF ChainValues
  <2> QED BY <2>1, <1>0, <1>5 DEF ChainValues
<1>11. FreshNodes'
  <2>1. ASSUME NEW u \in Sender, doing'[u] = "swap" PROVE Fresh(u)'
    <3>1. Fresh(u) /\ node[u] # n
      BY <2>1, <1>2, <1>s, <1>t DEF FreshNodes, Fresh
    <3>2. \A i \in 1..Len(chain') : chain'[i] # node[u]
      BY <3>1, <1>1, <1>3 DEF Fresh
    <3> QED BY <3>1, <3>2, <1>0, <1>5, <1>s DEF Fresh
  <2> QED BY <2>1, <1>s, <1>t DEF FreshNodes
<1>12. DropLast'
  <2>1. drop = "no"
    BY <1>0, NotDropped
  <2> QED BY <2>1, <1>0, <1>s, <1>t DEF DropLast
<1>13. NoNodeLeaks'
  <2>1. {chain'[i] : i \in 1..Len(chain')} = {chain[i] : i \in 1..Len(chain)} \ {tail}
    <3>1. ASSUME NEW i \in 1..Len(chain), chain[i] # tail
          PROVE  \E j \in 1..Len(chain') : chain'[j] = chain[i]
      <4>1. i - 1 \in 1..Len(chain') /\ i - 1 + 1 = i
        BY <3>1, <1>1, <1>3
      <4> QED BY <4>1, <1>3
    <3>2. ASSUME NEW j \in 1..Len(chain')
          PROVE  \E i \in 1..Len(chain) : chain'[j] = chain[i] /\ chain[i] # tail
      <4>1. j + 1 \in 1..Len(chain) /\ j + 1 # 1
        BY <1>1, <1>3
      <4> QED BY <4>1, <1>1, <1>2, <1>3, <1>4
    <3>3. ASSUME NEW a PROVE a \in {chain'[j] : j \in 1..Len(chain')}
                             <=> a \in {chain[i] : i \in 1..Len(chain)} \ {tail}
      <4>1. ASSUME a \in {chain'[j] : j \in 1..Len(chain')}
            PROVE  a \in {chain[i] : i \in 1..Len(chain)} \ {tail}
        BY <4>1, <3>2
      <4>2. ASSUME a \in {chain[i] : i \in 1..Len(chain)} \ {tail}
            PROVE  a \in {chain'[j] : j \in 1..Len(chain')}
        <5>1. PICK i \in 1..Len(chain) : a = chain[i] /\ chain[i] # tail
          BY <4>2
        <5> QED BY <5>1, <3>1
      <4> QED BY <4>1, <4>2
    <3> QED BY <3>3
  <2>2. tail \notin {node[u] : u \in {x \in Sender : doing[x] = "swap"}}
    BY <1>1, <1>2, <1>t DEF FreshNodes, Fresh
  <2>3. drop = "no"
    BY <1>0, NotDropped
  <2> QED BY <2>1, <2>2, <2>3, <1>0, <1>s DEF CInv, NoNodeLeaks
<1>14. Queued # <<>> /\ got' = Head(Queued) /\ Queued' = Tail(Queued)
  <2>1. Queued \in Seq(Message) /\ Len(Queued) = Len(chain) - 1
    <3>1. \A i \in 1..(Len(chain) - 1) : val[chain[i + 1]] \in Message
      BY <1>1, <1>t DEF ChainValues
    <3> QED BY <3>1, <1>1 DEF Queued
  <2>2. \A i \in 1..(Len(chain) - 1) : Queued[i] = val[chain[i + 1]]
    BY DEF Queued
  <2>3. Queued # <<>>
    BY <2>1, <1>1
  <2>4. got' = Head(Queued)
    <3>1. Head(Queued) = Queued[1]
      BY <2>1, <2>3
    <3>2. 1 \in 1..(Len(chain) - 1) /\ 1 + 1 = 2
      BY <1>1
    <3> QED BY <3>1, <3>2, <2>2, <1>0, <1>2
  <2>5. Queued' = [i \in 1..(Len(chain) - 2) |-> val'[chain'[i + 1]]]
    BY <1>1, <1>3 DEF Queued
  <2>6. ASSUME NEW i \in 1..(Len(chain) - 2) PROVE val'[chain'[i + 1]] = Tail(Queued)[i]
    <3>1. /\ i + 1 \in 1..Len(chain') /\ i + 1 + 1 \in 1..Len(chain) /\ i + 1 + 1 # 2
          /\ i + 1 \in 1..(Len(chain) - 1) /\ i \in 1..(Len(Queued) - 1)
      BY <1>1, <1>3, <2>1
    <3>2. val'[chain'[i + 1]] = val[chain[i + 1 + 1]]
      BY <3>1, <1>1, <1>2, <1>3, <1>4, <1>5
    <3>3. Tail(Queued)[i] = Queued[i + 1]
      BY <3>1, <2>1, <2>3
    <3> QED BY <3>1, <3>2, <3>3, <2>2
  <2>7. Tail(Queued) \in Seq(Message) /\ Len(Tail(Queued)) = Len(chain) - 2
    BY <2>1, <2>3, <1>1
  <2>8. Tail(Queued) = [i \in 1..(Len(chain) - 2) |-> Tail(Queued)[i]]
    BY <2>7, SeqAsFunction
  <2> QED BY <2>3, <2>4, <2>5, <2>6, <2>8
<1> QED BY <1>6, <1>7, <1>9, <1>10, <1>11, <1>12, <1>13, <1>14 DEF CInv

-----------------------------------------------------------------------------
(* Every step keeps the invariant, and is a step of the abstract queue: a    *)
(* message is put into it by the swap of the head and taken out by pop.      *)
LEMMA CNext ==
  ASSUME CInv, [ChannelNext]_channelVars
  PROVE  CInv' /\ [Queue!FifoNext]_(Queue!fifoVars)
<1> USE DEF Queue!FifoNext, Queue!Put, Queue!Take, Queue!fifoVars
<1>q. ASSUME UNCHANGED queueVars PROVE UNCHANGED <<Queued, got>>
  BY <1>q DEF queueVars, Queued
<1>t. /\ live \subseteq Addr /\ open \subseteq Sender
      /\ recv \in {"idle", "load", "compare", "gone"}
      /\ drop \in {"no", "free", "read", "end", "fault"}
      /\ \A s \in Sender : s \notin open => doing[s] = "idle"
      /\ drop # "no" => open = {} /\ recv = "gone"
  BY DEF CInv, CTypes, DropLast
<1>1. ASSUME NEW s \in Sender, NEW n \in Addr, NewNode(s, n)
      PROVE  CInv' /\ UNCHANGED <<Queued, got>>
  BY <1>1, NewNodeStep DEF NewNode
<1>2. ASSUME NEW s \in Sender, SwapHead(s)
      PROVE  CInv' /\ \E m \in Message : Queue!Put(m)
  <2>1. CInv' /\ val[node[s]] \in Message /\ Queued' = Append(Queued, val[node[s]])
    BY <1>2, SwapHeadStep
  <2>2. got' = got
    BY <1>2 DEF SwapHead
  <2> QED BY <2>1, <2>2
<1>3. ASSUME NEW s \in Sender, Link(s) PROVE CInv' /\ UNCHANGED <<Queued, got>>
  BY <1>3, LinkStep DEF Link
<1>4. ASSUME NEW s \in Sender, DropSender(s) PROVE CInv' /\ UNCHANGED <<Queued, got>>
  <2>1. CInv'
    BY <1>4, <1>t, QuietStep DEF DropSender, Dropping, queueVars
  <2> QED BY <2>1, <1>4, <1>q DEF DropSender
<1>5. ASSUME NEW b \in BOOLEAN, Receive(b) PROVE CInv' /\ UNCHANGED <<Queued, got>>
  <2>1. CInv'
    BY <1>5, <1>t, QuietStep DEF Receive, queueVars, dropVars
  <2> QED BY <2>1, <1>5, <1>q DEF Receive
<1>6. ASSUME NEW n \in Addr, PopData(n) PROVE CInv' /\ Queue!Take
  BY <1>6, PopDataStep
<1>7. ASSUME PopNothing PROVE CInv' /\ UNCHANGED <<Queued, got>>
  <2>1. CInv'
    BY <1>7, <1>t, QuietStep DEF PopNothing, queueVars, dropVars
  <2> QED BY <2>1, <1>7, <1>q DEF PopNothing
<1>8. ASSUME PopCompared PROVE CInv' /\ UNCHANGED <<Queued, got>>
  <2>1. CInv'
    BY <1>8, <1>t, QuietStep DEF PopCompared, queueVars, dropVars
  <2> QED BY <2>1, <1>8, <1>q DEF PopCompared
<1>9. ASSUME DropReceiver PROVE CInv' /\ UNCHANGED <<Queued, got>>
  <2>1. CInv'
    BY <1>9, <1>t, QuietStep DEF DropReceiver, Dropping, queueVars
  <2> QED BY <2>1, <1>9, <1>q DEF DropReceiver
<1>10. ASSUME DropNode PROVE CInv' /\ UNCHANGED <<Queued, got>>
  <2>1. CInv'
    BY <1>10, <1>t, QuietStep DEF DropNode
  <2> QED BY <2>1, <1>10 DEF DropNode, Queued
<1>11. ASSUME DropNext PROVE CInv' /\ UNCHANGED <<Queued, got>>
  <2>1. CInv'
    BY <1>11, <1>t, QuietStep DEF DropNext, queueVars
  <2> QED BY <2>1, <1>11, <1>q DEF DropNext
<1>12. ASSUME UNCHANGED channelVars PROVE CInv' /\ UNCHANGED <<Queued, got>>
  <2>1. CInv'
    BY <1>12, <1>t, QuietStep DEF channelVars, senderVars
  <2> QED BY <2>1, <1>12 DEF channelVars, Queued
<1> QED BY <1>1, <1>2, <1>3, <1>4, <1>5, <1>6, <1>7, <1>8, <1>9, <1>10, <1>11, <1>12
        DEF ChannelNext, SenderStep, ReceiverStep

(* The inductive invariant holds of mpsc: links of the queue are written or  *)
(* owed by one sender, a node in the queue is in use and carries a message.  *)
THEOREM ChannelInvariance == ChannelSpec => []CInv
<1>1. CInv /\ [ChannelNext]_channelVars => CInv'
  BY CNext
<1> QED BY CInit, <1>1, PTL DEF ChannelSpec

(* The assertions of Queue::pop hold, push writes only to nodes that are in  *)
(* use, and no node is lost: for every number of senders and messages and    *)
(* however the allocator reuses the addresses of nodes that pop has freed.   *)
THEOREM QueueStaysSound == ChannelSpec => []QueueSound
<1>1. CInv => QueueSound
  <2> SUFFICES ASSUME CInv PROVE QueueSound
    OBVIOUS
  <2>1. Coherent
    <3> SUFFICES ASSUME recv = "load", next[tail] # NULL
                 PROVE  val[tail] = None /\ val[next[tail]] # None
      BY DEF Coherent
    <3>1. Len(chain) \in Nat /\ Len(chain) > 1 /\ chain[1] = tail
      BY DEF CInv, ChainShape, ChainLinks
    <3>2. 1 \in 1..(Len(chain) - 1) /\ 1 + 1 = 2 /\ 2 \in 2..Len(chain)
      BY <3>1
    <3>3. next[tail] = chain[2]
      BY <3>1, <3>2 DEF CInv, ChainLinks
    <3> QED BY <3>2, <3>3, NoneIsNoMessage DEF CInv, ChainValues
  <2>2. NoDanglingNode
    <3> SUFFICES ASSUME drop = "no"
                 PROVE  /\ tail \in live /\ head \in live
                        /\ \A s \in Sender : doing[s] = "link" => before[s] \in live /\ node[s] \in live
      BY DEF NoDanglingNode
    <3>1. \A i \in 1..Len(chain) : chain[i] \in live
      BY DEF CInv, NoNodeLeaks
    <3>2. Len(chain) \in Nat \ {0} /\ chain[1] = tail /\ chain[Len(chain)] = head
      BY DEF CInv, ChainShape
    <3>3. ASSUME NEW s \in Sender, doing[s] = "link" PROVE before[s] \in live /\ node[s] \in live
      <4>1. PICK i \in 1..(Len(chain) - 1) : Links(s, i)
        BY <3>3 DEF CInv, ChainLinks
      <4>2. i \in 1..Len(chain) /\ i + 1 \in 1..Len(chain)
        BY <3>2
      <4> QED BY <4>1, <4>2, <3>1 DEF Links
    <3> QED BY <3>1, <3>2, <3>3
  <2> QED BY <2>1, <2>2 DEF CInv, QueueSound
<1> QED BY ChannelInvariance, <1>1, PTL

(* pop may miss a message whose sender has swapped the head and not linked   *)
(* its node yet, and the messages sent after it.  When no call of push is    *)
(* under way every node is linked to the next: nothing stays out of reach.   *)
AllLinked ==
  (\A s \in Sender : doing[s] # "link") =>
     \A i \in 1..(Len(chain) - 1) : next[chain[i]] = chain[i + 1]

(* No message is lost between the two writes of push.                        *)
THEOREM NothingStranded == ChannelSpec => []AllLinked
<1>1. CInv => AllLinked
  BY DEF CInv, ChainLinks, Links, AllLinked
<1> QED BY ChannelInvariance, <1>1, PTL

(* mpsc implements a queue: what push puts in pop takes out, once and in the *)
(* order of the swaps of the head, although the links are written later and  *)
(* in any order.                                                             *)
THEOREM ChannelImplementsFifo == ChannelSpec => ImplementsFifo
<1>1. ChannelInit => Queue!FifoInit
  BY DEF ChannelInit, Queue!FifoInit, Queued
<1>2. CInv /\ [ChannelNext]_channelVars => [Queue!FifoNext]_(Queue!fifoVars)
  BY CNext
<1> QED BY <1>1, <1>2, ChannelInvariance, PTL
        DEF ChannelSpec, ImplementsFifo, Queue!FifoSpec
=============================================================================
