---------------------------- MODULE AsyncNetwork ----------------------------
(***************************************************************************)
(* What the protocols assume of the runtime: a broadcast message reaches   *)
(* every node, itself included, exactly once, at any later time and in any *)
(* order, and a handler runs without interruption.  A node told to stop    *)
(* does not keep the others from theirs.                                   *)
(***************************************************************************)
EXTENDS Naturals

CONSTANTS Nodes, Messages

VARIABLES sent,     \* the messages broadcast so far
          handled,  \* handled[i]: the messages whose handler has run at i
          down      \* the nodes told to stop

vars == <<sent, handled, down>>

Init == sent = {} /\ handled = [i \in Nodes |-> {}] /\ down = {}

\* A node starts the protocol: it broadcasts without having received anything.
Start ==
    /\ \E new \in SUBSET (Messages \ sent) : sent' = sent \union new
    /\ UNCHANGED <<handled, down>>

Handle(i, m) ==
    /\ m \in sent \ handled[i]
    /\ handled' = [handled EXCEPT ![i] = @ \union {m}]
    /\ \E new \in SUBSET (Messages \ sent) : sent' = sent \union new
    /\ UNCHANGED down

\* A node told to stop may handle some more messages, and need not.
Stop(i) == down' = down \union {i} /\ UNCHANGED <<sent, handled>>

Next ==
    \/ Start
    \/ \E i \in Nodes : Stop(i) \/ \E m \in Messages : Handle(i, m)

Spec ==
    /\ Init
    /\ [][Next]_vars
    /\ \A i \in Nodes : WF_vars(i \notin down /\ \E m \in Messages : Handle(i, m))
=============================================================================
