--------------------------- MODULE DeviceChannels ---------------------------
(***************************************************************************)
(* What the message queues of the devices promise: one FIFO channel per    *)
(* device, in which no message is lost, duplicated or overtaken.           *)
(*                                                                         *)
(* DeviceMessages.tla implements it, under a condition on the priorities.  *)
(***************************************************************************)
EXTENDS Sequences

CONSTANTS Devices, Messages

VARIABLE channel    \* [Devices -> Seq(Messages)]

Init == channel = [d \in Devices |-> <<>>]

Put(d, m) == channel' = [channel EXCEPT ![d] = Append(@, m)]

Take(d) == /\ channel[d] # <<>>
           /\ channel' = [channel EXCEPT ![d] = Tail(@)]

Next == \E d \in Devices : Take(d) \/ \E m \in Messages : Put(d, m)

Spec == Init /\ [][Next]_channel
=============================================================================
