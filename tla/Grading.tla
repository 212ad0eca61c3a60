------------------------------ MODULE Grading ------------------------------
(***************************************************************************)
(* The results of one round of Vote and what they promise: graded          *)
(* agreement.  A sure node (confidence 2) carries everyone to its value,   *)
(* two values of confidence 1 or 2 never differ, and if at most T of the   *)
(* bits brought so far differ from b, the result is b with confidence 2.   *)
(***************************************************************************)
EXTENDS Integers, FiniteSets

CONSTANTS Nodes,
          T      \* the fault bound t

Bits == {0, 1}
Null == -1     \* the value of a VoteResult without majority; no bit yet
NoResult == [value |-> Null, conf |-> -1]
VoteResult == [value : Bits, conf : {1, 2}] \union {[value |-> Null, conf |-> 0]}

N == Cardinality(Nodes)
\* A threshold that is too low: honest majorities are lost.
QuorumLow(S) == Cardinality(S) >= T + 1
Quorum(S) == Cardinality(S) >= N - T

\* Two nodes may hold the results p and q in the same round.
Compatible(p, q) ==
    /\ p.conf >= 1 /\ q.conf >= 1 => p.value = q.value
    /\ p.conf = 2 => q.conf >= 1
    /\ q.conf = 2 => p.conf >= 1

\* The nodes that have brought a bit.
Started(input) == {i \in Nodes : input[i] # Null}

\* The result p may come out of the bits brought so far.
Justified(p, input) ==
    /\ Quorum(Started(input))
    /\ \A b \in Bits :
          Cardinality({i \in Started(input) : input[i] # b}) <= T
              => p = [value |-> b, conf |-> 2]
=============================================================================
