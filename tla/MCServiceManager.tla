-------------------------- MODULE MCServiceManager --------------------------
(* TLC instances of ServiceManager.                                        *)
EXTENDS ServiceManager

CONSTANTS n1, n2

TwoNodes == {n1, n2}

\* n1 has a message more than the inboxes hold, and two results more than its
\* outbox, and may be stopped; n2 answers once.
Casts   == [i \in Nodes |-> IF i = n1 THEN 2 ELSE 1]
Results == [i \in Nodes |-> IF i = n1 THEN 3 ELSE 1]
=============================================================================
