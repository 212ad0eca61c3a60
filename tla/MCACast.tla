------------------------------ MODULE MCACast ------------------------------
(* TLC instances of ACast: four nodes, t = 1.                              *)
EXTENDS ACast

\* What the faulty nodes may send, always to whom they like: MSG of anything
\* (if they own the A-Cast), ECHO of one value, READY of one value.
V1       == CHOOSE v \in Values : TRUE
Anything == {m \in Message : m.from \in Faulty /\ (m.type = "MSG" => m.from = Sender)}
OneEcho  == {m \in Anything : m.type = "MSG" \/ (m.type = "ECHO" /\ m.val = V1)}
OneReady == {m \in Anything : m.type = "MSG" \/ (m.type = "READY" /\ m.val = V1)}
=============================================================================
