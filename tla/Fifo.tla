-------------------------------- MODULE Fifo --------------------------------
(* A queue that several senders append to and one receiver takes from.       *)
EXTENDS Sequences

CONSTANTS Message, None

VARIABLES inside,  \* messages sent and not yet received, in order
          last     \* the message received last, or None

fifoVars == <<inside, last>>

FifoInit == inside = <<>> /\ last = None

Put(m) == inside' = Append(inside, m) /\ UNCHANGED last

Take == inside # <<>> /\ last' = Head(inside) /\ inside' = Tail(inside)

FifoNext == (\E m \in Message : Put(m)) \/ Take

FifoSpec == FifoInit /\ [][FifoNext]_fifoVars
=============================================================================
