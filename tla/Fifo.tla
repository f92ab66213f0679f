--------------------------------- MODULE Fifo ---------------------------------
(***************************************************************************)
(* What the channels of std::rt promise (ADR-0015): numbered FIFO queues   *)
(* that, once closed, take no more values and are drained; each value a    *)
(* send accepted is received once, oldest first.  RtPool, with its lists   *)
(* of heap nodes, condition variables and threads, implements it.          *)
(***************************************************************************)
EXTENDS Naturals, Sequences

CONSTANTS
  Cap,      \* the size of the registry of channels
  Payloads  \* the values sent

VARIABLES
  queues,   \* the values waiting in each channel, oldest first
  closed,   \* whether each channel is closed
  sent,     \* how often each value was accepted by each channel
  received  \* how often each value was received from each channel

vars == <<queues, closed, sent, received>>

None == [v \in Payloads |-> 0]

Init == queues = <<>> /\ closed = <<>> /\ sent = <<>> /\ received = <<>>

New ==
  /\ Len(queues) < Cap
  /\ queues' = Append(queues, <<>>)
  /\ closed' = Append(closed, FALSE)
  /\ sent' = Append(sent, None)
  /\ received' = Append(received, None)

Send(c, v) ==
  /\ ~closed[c]
  /\ queues' = [queues EXCEPT ![c] = Append(@, v)]
  /\ sent' = [sent EXCEPT ![c][v] = @ + 1]
  /\ UNCHANGED <<closed, received>>

Receive(c) ==
  /\ queues[c] # <<>>
  /\ queues' = [queues EXCEPT ![c] = Tail(@)]
  /\ received' = [received EXCEPT ![c][Head(queues[c])] = @ + 1]
  /\ UNCHANGED <<closed, sent>>

Close(c) ==
  /\ closed' = [closed EXCEPT ![c] = TRUE]
  /\ UNCHANGED <<queues, sent, received>>

Next ==
  \/ New
  \/ \E c \in DOMAIN queues :
       \/ \E v \in Payloads : Send(c, v)
       \/ Receive(c)
       \/ Close(c)

Spec == Init /\ [][Next]_vars
===============================================================================
