------------------------- MODULE ReliableBroadcast -------------------------
(***************************************************************************)
(* What one A-Cast instance promises the layer above it.  An honest sender *)
(* broadcasts at most one value; every honest node outputs at most one     *)
(* value; all outputs agree; an honest sender's value is the only one that *)
(* can come out; and once a value is due at one node it is due at all.     *)
(***************************************************************************)
CONSTANTS Honest,         \* the nodes that run the protocol
          SenderIsHonest, \* does the owner of this instance run it too?
          Values,
          NoValue

VARIABLES broadcast,      \* the value the honest sender has A-Cast
          output          \* per honest node, the value handed to SendResult

vars == <<broadcast, output>>

Init ==
    /\ broadcast = NoValue
    /\ output = [i \in Honest |-> NoValue]

Broadcast(v) ==
    /\ SenderIsHonest
    /\ broadcast = NoValue
    /\ broadcast' = v
    /\ UNCHANGED output

Deliver(i, v) ==
    /\ output[i] = NoValue
    /\ \A j \in Honest : output[j] \in {NoValue, v}
    /\ SenderIsHonest => broadcast = v
    /\ output' = [output EXCEPT ![i] = v]
    /\ UNCHANGED broadcast

Next ==
    \/ \E v \in Values : Broadcast(v)
    \/ \E i \in Honest, v \in Values : Deliver(i, v)

\* A delivery that may not be withheld: the sender is honest and has
\* broadcast v, or some honest node already has v.
Due(i, v) ==
    /\ v = broadcast \/ \E j \in Honest : output[j] = v
    /\ Deliver(i, v)

Safety == Init /\ [][Next]_vars

Spec == Safety /\ \A i \in Honest : WF_vars(\E v \in Values : Due(i, v))
=============================================================================
